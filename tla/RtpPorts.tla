------------------------------ MODULE RtpPorts ------------------------------
(***************************************************************************)
(* RtpServer and its RtpWorkers: the partition of the port range, the      *)
(* allocation of ports round robin, and the sockets behind the ports with  *)
(* the descriptor numbers that the kernel gives out again once closed.     *)
(*                                                                         *)
(* allocatePort is called by the SIP thread only; releasePort and send by  *)
(* any thread that terminates a session or processes a packet.  One action *)
(* is one critical section of a worker's mutex, or one system call made    *)
(* outside it.                                                             *)
(***************************************************************************)
EXTENDS Integers, FiniteSets, FiniteSetsExt

CONSTANTS
  StartPort, EndPort,  \* Config::rtpPortStart, rtpPortEnd
  ThreadCount,         \* number of workers
  MaxFd,               \* descriptors the process may open
  Sender,              \* threads that send media
  BindFails,           \* may a port be taken by another program?
  EpollFails           \* may epoll_ctl refuse a socket?

ASSUME RangeAssumption ==
  /\ {StartPort, EndPort, MaxFd} \subseteq Nat \ {0}
  /\ ThreadCount \in Nat \ {0}
  /\ StartPort <= EndPort
ASSUME FailureAssumption == BindFails \in BOOLEAN /\ EpollFails \in BOOLEAN

Worker == 0 .. ThreadCount - 1
Port == StartPort .. EndPort
Fd == 1 .. MaxFd
Closed == 0  \* of a descriptor: refers to no socket; of a port: no entry

-----------------------------------------------------------------------------
(* RtpServer::init: the partition.                                         *)

PortsPerWorker == (EndPort - StartPort + 1) \div ThreadCount

FirstOfShare(w) == StartPort + w * PortsPerWorker

\* RTP ports are even.
StartOf(w) == FirstOfShare(w) + (FirstOfShare(w) % 2)

\* Mutant: a share includes the first port of the next one.
EndOfOverlapping(w) ==
  IF w = ThreadCount - 1 THEN EndPort ELSE FirstOfShare(w) + PortsPerWorker

\* The last worker takes what the division leaves over.
EndOf(w) ==
  IF w = ThreadCount - 1 THEN EndPort ELSE FirstOfShare(w) + PortsPerWorker - 1

\* The ports the loop of RtpWorker::allocatePort goes through.
Candidates(w) == {p \in StartOf(w) .. EndOf(w) : (p - StartOf(w)) % 2 = 0}

\* The worker releasePort and send find: the first whose range holds the port.
WorkersFor(p) == {w \in Worker : StartOf(w) <= p /\ p <= EndOf(w)}

-----------------------------------------------------------------------------
VARIABLES
  activeSockets,  \* RtpWorker::activeSockets_ of each worker: port -> fd
  socketOf,       \* kernel: the port a descriptor's socket is bound to
  interest,       \* kernel: what is registered with each worker's epollFd_
  nextWorker,     \* RtpServer::nextWorker_
  alloc,          \* the SIP thread inside RtpServer::allocatePort
  leased,         \* ports that allocatePort returned and nobody released
  events,         \* what epoll_wait returned and the loop has not yet read
  send            \* each sender inside RtpWorker::send

vars == <<activeSockets, socketOf, interest, nextWorker, alloc, leased,
          events, send>>

Entry == [port : Port, fd : Fd]
IdleAlloc == [pc |-> "idle", start |-> 0, refused |-> {}]
IdleSend == [port |-> Closed, fd |-> Closed]

TypeOK ==
  /\ activeSockets \in [Worker -> [Port -> Fd \cup {Closed}]]
  /\ socketOf \in [Fd -> Port \cup {Closed}]
  /\ interest \in [Worker -> SUBSET Entry]
  /\ nextWorker \in Worker
  /\ alloc \in [pc : {"idle", "try", "failed"}, start : Worker, refused : SUBSET Worker]
  /\ leased \in SUBSET Port
  /\ events \in [Worker -> SUBSET Entry]
  /\ send \in [Sender -> Entry \cup {IdleSend}]

Init ==
  /\ activeSockets = [w \in Worker |-> [p \in Port |-> Closed]]
  /\ socketOf = [f \in Fd |-> Closed]
  /\ interest = [w \in Worker |-> {}]
  /\ nextWorker = 0
  /\ alloc = IdleAlloc
  /\ leased = {}
  /\ events = [w \in Worker |-> {}]
  /\ send = [s \in Sender |-> IdleSend]

-----------------------------------------------------------------------------
(* RtpServer::allocatePort, with RtpWorker::allocatePort as one step.      *)

FreeFds == {f \in Fd : socketOf[f] = Closed}
Unused(w) == {p \in Candidates(w) : activeSockets[w][p] = Closed}

\* A port is bound on the lowest free descriptor and registered; the ports whose
\* registration was refused before it keep an entry with the descriptor, which
\* was closed at once and is the next one's too.
Open(w, p, stale) ==
  LET f == Min(FreeFds)
  IN  /\ activeSockets' = [activeSockets EXCEPT ![w] =
           [q \in Port |-> IF q = p \/ q \in stale THEN f ELSE @[q]]]
      /\ socketOf' = [socketOf EXCEPT ![f] = p]
      /\ interest' = [interest EXCEPT ![w] = @ \cup {[port |-> p, fd |-> f]}]

\* No port of the worker could be opened; the refused ones keep their entries.
OpenNone(w, stale) ==
  /\ activeSockets' = [activeSockets EXCEPT ![w] =
       [q \in Port |-> IF q \in stale THEN Min(FreeFds) ELSE @[q]]]
  /\ UNCHANGED <<socketOf, interest>>

Following(w) == (w + 1) % ThreadCount

BeginAllocate ==
  /\ alloc.pc = "idle"
  /\ alloc' = [pc |-> "try", start |-> nextWorker, refused |-> {}]
  /\ UNCHANGED <<activeSockets, socketOf, interest, nextWorker, leased, events,
                 send>>

\* The ports the worker passes over: taken by another program, or refused by
\* epoll_ctl and left behind.
Obstacles(w) ==
  {o \in [taken : SUBSET Unused(w), stale : SUBSET Unused(w)] :
     /\ o.taken # {} => BindFails
     /\ o.stale # {} => EpollFails
     /\ o.taken \cap o.stale = {}}

TrySucceeds ==
  /\ alloc.pc = "try"
  /\ FreeFds # {}
  /\ \E p \in Unused(nextWorker), o \in Obstacles(nextWorker) :
       /\ o.taken \cup o.stale = {q \in Unused(nextWorker) : q < p}
       /\ Open(nextWorker, p, o.stale)
       /\ leased' = leased \cup {p}
  /\ nextWorker' = Following(nextWorker)
  /\ alloc' = IdleAlloc
  /\ UNCHANGED <<events, send>>

\* Mutant: the first worker that has nothing ends the search.
TryGivesUp ==
  /\ alloc.pc = "try"
  /\ Unused(nextWorker) = {}
  /\ nextWorker' = Following(nextWorker)
  /\ alloc' = [alloc EXCEPT !.pc = "failed", !.refused = @ \cup {nextWorker}]
  /\ UNCHANGED <<activeSockets, socketOf, interest, leased, events, send>>

\* This worker returns -1; the next one is tried until all have been.
TryFails ==
  /\ alloc.pc = "try"
  /\ IF FreeFds = {} THEN UNCHANGED <<activeSockets, socketOf, interest>>
     ELSE \E o \in Obstacles(nextWorker) :
            /\ o.taken \cup o.stale = Unused(nextWorker)
            /\ OpenNone(nextWorker, o.stale)
  /\ nextWorker' = Following(nextWorker)
  /\ alloc' = [alloc EXCEPT
       !.pc = IF nextWorker' = alloc.start THEN "failed" ELSE "try",
       !.refused = @ \cup {nextWorker}]
  /\ UNCHANGED <<leased, events, send>>

\* allocatePort returns -1 to its caller.
ReturnFailure ==
  /\ alloc.pc = "failed"
  /\ alloc' = IdleAlloc
  /\ UNCHANGED <<activeSockets, socketOf, interest, nextWorker, leased, events,
                 send>>

-----------------------------------------------------------------------------
(* releasePort, send and the receive loop.                                 *)

\* Mutant: the socket is forgotten but not closed.
ReleaseWithoutClose(p) ==
  LET w == Min(WorkersFor(p))
      f == activeSockets[w][p]
  IN  /\ p \in leased
      /\ f # Closed
      /\ interest' = [interest EXCEPT ![w] = {e \in @ : e.fd # f}]
      /\ activeSockets' = [activeSockets EXCEPT ![w][p] = Closed]
      /\ leased' = leased \ {p}
      /\ UNCHANGED <<socketOf, nextWorker, alloc, events, send>>

\* RtpServer::releasePort, called once by whoever holds the lease; a port the
\* worker does not know would be ignored.
ReleasePort(p) ==
  LET w == Min(WorkersFor(p))
      f == activeSockets[w][p]
  IN  /\ p \in leased
      /\ IF f = Closed THEN UNCHANGED <<interest, socketOf, activeSockets>>
         ELSE /\ interest' = [interest EXCEPT ![w] = {e \in @ : e.fd # f}]
              /\ socketOf' = [socketOf EXCEPT ![f] = Closed]
              /\ activeSockets' = [activeSockets EXCEPT ![w][p] = Closed]
      /\ leased' = leased \ {p}
      /\ UNCHANGED <<nextWorker, alloc, events, send>>

\* send copies the descriptor under the mutex, leased or not; without a worker or an
\* entry it sends nothing ...
SendLookup(s, p) ==
  LET f == activeSockets[Min(WorkersFor(p))][p]
  IN  /\ send[s] = IdleSend
      /\ WorkersFor(p) # {}
      /\ f # Closed
      /\ send' = [send EXCEPT ![s] = [port |-> p, fd |-> f]]
      /\ UNCHANGED <<activeSockets, socketOf, interest, nextWorker, alloc,
                     leased, events>>

\* ... and calls sendto after it.
SendTo(s) ==
  /\ send[s] # IdleSend
  /\ send' = [send EXCEPT ![s] = IdleSend]
  /\ UNCHANGED <<activeSockets, socketOf, interest, nextWorker, alloc, leased,
                 events>>

\* epoll_wait returns some of the registered sockets.
EpollWait(w) ==
  /\ events[w] = {}
  /\ \E ready \in SUBSET interest[w] \ {{}} :
       events' = [events EXCEPT ![w] = ready]
  /\ UNCHANGED <<activeSockets, socketOf, interest, nextWorker, alloc, leased,
                 send>>

\* recvfrom on the next of them, and the packet goes to the handler.
Receive(w) ==
  /\ \E e \in events[w] : events' = [events EXCEPT ![w] = @ \ {e}]
  /\ UNCHANGED <<activeSockets, socketOf, interest, nextWorker, alloc, leased,
                 send>>

Next ==
  \/ BeginAllocate \/ TrySucceeds \/ TryFails \/ ReturnFailure
  \/ \E p \in Port : ReleasePort(p)
  \/ \E s \in Sender, p \in Port : SendLookup(s, p)
  \/ \E s \in Sender : SendTo(s)
  \/ \E w \in Worker : EpollWait(w) \/ Receive(w)

Spec == Init /\ [][Next]_vars

-----------------------------------------------------------------------------
(* Properties.                                                             *)

\* A leased port is even and has an open socket, which its worker alone watches
\* and which releasePort and send will find by the port's number.
LeasesWork ==
  \A p \in leased :
    /\ p % 2 = 0
    /\ \E w \in Worker, f \in Fd :
         /\ WorkersFor(p) = {w}
         /\ activeSockets[w][p] = f
         /\ socketOf[f] = p
         /\ {v \in Worker : \E e \in interest[v] : e.fd = f} = {w}
         /\ [port |-> p, fd |-> f] \in interest[w]

\* Every open socket belongs to a leased port: none is left behind by a failed
\* attempt, by a release, or by two of them at once.
NoSocketLeaks ==
  \A f \in Fd : socketOf[f] # Closed => socketOf[f] \in leased

\* allocatePort gives up only after every worker has refused, although the
\* index it walks with is the one it shares with the next call.
FailsOnlyAfterAll == alloc.pc = "failed" => alloc.refused = Worker

\* activeSockets_ maps a "port -> fd" (RtpWorker.h:44): an entry is a socket
\* bound to that port.  Does not hold: an entry is left behind by a socket that
\* epoll_ctl refuses (RtpWorker.cpp:65).
EntriesAreSockets ==
  \A w \in Worker, p \in Port :
    activeSockets[w][p] # Closed => socketOf[activeSockets[w][p]] = p

\* A packet of one call is never sent from the port of another: send is one of
\* the "thread-safe methods" of RtpWorker.h:23.  Does not hold: the descriptor is
\* used after the mutex is released (RtpWorker.cpp:117).
SendsFromOwnPort ==
  \A s \in Sender :
    send[s] # IdleSend => socketOf[send[s].fd] \in {send[s].port, Closed}
=============================================================================

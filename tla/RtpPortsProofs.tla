--------------------------- MODULE RtpPortsProofs ---------------------------
(***************************************************************************)
(* What RtpPorts' run shows on one range, for every range, number of       *)
(* workers, descriptors and senders: the partition of the ports, and that  *)
(* a lease has its socket, no socket leaks, and allocation fails only      *)
(* after every worker has refused.                                         *)
(***************************************************************************)
EXTENDS RtpPorts, WellFoundedInduction, TLAPS

-----------------------------------------------------------------------------
(* Arithmetic of the shares.                                               *)

\* The product of natural numbers grows with its first factor.
LEMMA ProductGrows ==
  ASSUME NEW m \in Nat, NEW n \in Nat, NEW k \in Nat, m <= n
  PROVE  m * k \in Nat /\ n * k \in Nat /\ m * k <= n * k
<1>1. (n - m) * k \in Nat /\ (n - m) * k = n * k - m * k
  <2>1. n - m \in Nat
    OBVIOUS
  <2>2. \A a \in Nat, b \in Nat : a * b \in Nat
    OBVIOUS
  <2>3. (n - m) * k = n * k - m * k
    OBVIOUS
  <2> QED  BY <2>1, <2>2, <2>3
<1>2. m * k \in Nat /\ n * k \in Nat
  OBVIOUS
<1> QED  BY <1>1, <1>2

\* Division rounds down.
LEMMA Quotient ==
  ASSUME NEW a \in Nat, NEW t \in Nat, t > 0
  PROVE  a \div t \in Nat /\ t * (a \div t) <= a /\ a < t * (a \div t) + t
<1>1. a = t * (a \div t) + (a % t) /\ a % t \in 0 .. t - 1 /\ a \div t \in Int
  OBVIOUS
<1>2. t * (a \div t) \in Int
  BY <1>1
<1>3. a \div t >= 0
  OBVIOUS
<1> QED  BY <1>1, <1>2, <1>3

\* The shares fit into the range.
LEMMA SharesFit ==
  /\ PortsPerWorker \in Nat
  /\ ThreadCount * PortsPerWorker <= EndPort - StartPort + 1
  /\ EndPort - StartPort + 1 < ThreadCount * PortsPerWorker + ThreadCount
<1>1. EndPort - StartPort + 1 \in Nat /\ ThreadCount \in Nat /\ ThreadCount > 0
  BY RangeAssumption
<1> QED  BY <1>1, Quotient DEF PortsPerWorker

\* A share begins in the range, and ends before the next one begins.
LEMMA SharesInOrder ==
  ASSUME NEW w \in Worker
  PROVE  /\ FirstOfShare(w) \in Nat
         /\ FirstOfShare(w) >= StartPort
         /\ StartOf(w) \in Nat
         /\ StartOf(w) % 2 = 0
         /\ StartOf(w) \in FirstOfShare(w) .. FirstOfShare(w) + 1
         /\ EndOf(w) \in Int
         /\ EndOf(w) <= EndPort
         /\ \A v \in Worker : w < v => EndOf(w) < FirstOfShare(v)
<1>1. w \in Nat /\ ThreadCount \in Nat /\ w + 1 <= ThreadCount
      /\ StartPort \in Nat /\ EndPort \in Nat /\ PortsPerWorker \in Nat
  BY RangeAssumption, SharesFit DEF Worker
<1>2. \A v \in Nat : v * PortsPerWorker \in Nat
  BY <1>1, ProductGrows
<1>3. FirstOfShare(w) \in Nat /\ FirstOfShare(w) >= StartPort
  BY <1>1, <1>2 DEF FirstOfShare
<1>4. /\ StartOf(w) \in Nat
      /\ StartOf(w) % 2 = 0
      /\ StartOf(w) \in FirstOfShare(w) .. FirstOfShare(w) + 1
  BY <1>3 DEF StartOf
<1>5. (w + 1) * PortsPerWorker = w * PortsPerWorker + PortsPerWorker
  BY <1>1
<1>6. (w + 1) * PortsPerWorker <= ThreadCount * PortsPerWorker
  BY <1>1, ProductGrows
<1>7. EndOf(w) \in Int /\ EndOf(w) <= EndPort
  <2>1. ThreadCount * PortsPerWorker \in Nat /\ w * PortsPerWorker \in Nat
    BY <1>1, <1>2
  <2>2. FirstOfShare(w) + PortsPerWorker - 1 <= EndPort
    BY <1>1, <1>5, <1>6, <2>1, SharesFit DEF FirstOfShare
  <2> QED  BY <1>1, <1>3, <2>2 DEF EndOf
<1>8. ASSUME NEW v \in Worker, w < v
      PROVE  EndOf(w) < FirstOfShare(v)
  <2>1. v \in Nat /\ w + 1 <= v /\ v <= ThreadCount - 1
    BY <1>1, <1>8 DEF Worker
  <2>2. (w + 1) * PortsPerWorker <= v * PortsPerWorker
    BY <1>1, <2>1, ProductGrows
  <2>3. v * PortsPerWorker \in Nat /\ w * PortsPerWorker \in Nat
    BY <1>1, <1>2, <2>1
  <2>4. EndOf(w) = FirstOfShare(w) + PortsPerWorker - 1
    BY <1>1, <2>1 DEF EndOf
  <2> QED  BY <1>1, <1>5, <2>2, <2>3, <2>4 DEF FirstOfShare
<1> QED  BY <1>3, <1>4, <1>7, <1>8

\* A port is in the range of one worker at most.
LEMMA RangesAreDisjoint ==
  ASSUME NEW v \in Worker, NEW w \in Worker, NEW p \in Int,
         StartOf(v) <= p, p <= EndOf(v), StartOf(w) <= p, p <= EndOf(w)
  PROVE  v = w
<1>1. v \in Int /\ w \in Int
  BY RangeAssumption DEF Worker
<1>2. ~(v < w)
  BY SharesInOrder
<1>3. ~(w < v)
  BY SharesInOrder
<1> QED  BY <1>1, <1>2, <1>3

\* The ports a worker gives out are even ports of the range, and the worker is
\* the one that releasePort and send find by the number.
LEMMA CandidateHasOneWorker ==
  ASSUME NEW w \in Worker, NEW p \in Candidates(w)
  PROVE  /\ p \in Port
         /\ p % 2 = 0
         /\ WorkersFor(p) = {w}
         /\ Min(WorkersFor(p)) = w
<1>1. p \in Int /\ StartOf(w) <= p /\ p <= EndOf(w) /\ (p - StartOf(w)) % 2 = 0
  BY SharesInOrder DEF Candidates
<1>2. p \in Port /\ p % 2 = 0
  BY <1>1, SharesInOrder, RangeAssumption DEF Port
<1>3. WorkersFor(p) = {w}
  BY <1>1, RangesAreDisjoint DEF WorkersFor
<1>4. Min(WorkersFor(p)) = w
  <2>1. w \in Int
    BY RangeAssumption DEF Worker
  <2> QED  BY <1>3, <2>1 DEF Min
<1> QED  BY <1>2, <1>3, <1>4

\* Each even port of the range is given out by exactly one worker, and no other
\* port is: the shares of RtpServer::init neither overlap nor leave a port out.
THEOREM PortsArePartitioned ==
  /\ \A p \in Port : p % 2 = 0 => \E w \in Worker : p \in Candidates(w)
  /\ \A v, w \in Worker : v # w => Candidates(v) \cap Candidates(w) = {}
  /\ \A w \in Worker : Candidates(w) \subseteq {p \in Port : p % 2 = 0}
<1>1. \A w \in Worker : Candidates(w) \subseteq {p \in Port : p % 2 = 0}
  BY CandidateHasOneWorker
<1>2. ASSUME NEW v \in Worker, NEW w \in Worker, v # w,
             NEW p \in Candidates(v) \cap Candidates(w)
      PROVE  FALSE
  BY <1>2, CandidateHasOneWorker
<1>3. ASSUME NEW p \in Port, p % 2 = 0
      PROVE  \E w \in Worker : p \in Candidates(w)
  <2>1. p \in Nat /\ StartPort <= p /\ p <= EndPort /\ StartPort \in Nat
        /\ EndPort \in Nat /\ ThreadCount \in Nat /\ ThreadCount > 0
        /\ PortsPerWorker \in Nat
    BY RangeAssumption, SharesFit DEF Port
  <2>2. ASSUME NEW w \in Worker, FirstOfShare(w) <= p, p <= EndOf(w)
        PROVE  p \in Candidates(w)
    <3>1. /\ StartOf(w) \in Nat /\ StartOf(w) % 2 = 0 /\ EndOf(w) \in Int
          /\ FirstOfShare(w) \in Nat
      BY SharesInOrder
    <3>2. StartOf(w) <= p
      BY <1>3, <2>1, <2>2, <3>1 DEF StartOf
    <3>3. (p - StartOf(w)) % 2 = 0
      BY <1>3, <2>1, <3>1
    <3> QED  BY <2>1, <2>2, <3>1, <3>2, <3>3 DEF Candidates
  <2>3. ThreadCount - 1 \in Worker /\ ThreadCount - 1 \in Nat
        /\ EndOf(ThreadCount - 1) = EndPort
    BY <2>1 DEF Worker, EndOf
  <2>4. CASE FirstOfShare(ThreadCount - 1) <= p
    BY <2>1, <2>2, <2>3, <2>4
  <2>5. CASE p < FirstOfShare(ThreadCount - 1)
    <3>1. (ThreadCount - 1) * PortsPerWorker \in Nat
      BY <2>1, <2>3, ProductGrows
    <3>2. p - StartPort < (ThreadCount - 1) * PortsPerWorker
          /\ p - StartPort \in Nat
      BY <2>1, <2>5, <3>1 DEF FirstOfShare
    <3>3. PortsPerWorker > 0
      <4> SUFFICES ASSUME PortsPerWorker = 0  PROVE FALSE
        BY <2>1
      <4>1. (ThreadCount - 1) * 0 = 0
        BY <2>3
      <4> QED  BY <3>2, <4>1
    <3> DEFINE share == (p - StartPort) \div PortsPerWorker
    <3>4. /\ share \in Nat
          /\ PortsPerWorker * share <= p - StartPort
          /\ p - StartPort < PortsPerWorker * share + PortsPerWorker
      BY <2>1, <3>2, <3>3, Quotient
    <3> HIDE DEF share
    <3>5. PortsPerWorker * share = share * PortsPerWorker
          /\ share * PortsPerWorker \in Nat
          /\ (share + 1) * PortsPerWorker = share * PortsPerWorker + PortsPerWorker
      BY <2>1, <3>4
    <3>6. share < ThreadCount - 1
      <4> SUFFICES ASSUME ThreadCount - 1 <= share  PROVE FALSE
        BY <2>1, <3>4
      <4>1. (ThreadCount - 1) * PortsPerWorker <= share * PortsPerWorker
        BY <2>1, <2>3, <3>4, ProductGrows
      <4> QED  BY <3>1, <3>2, <3>4, <3>5, <4>1
    <3>7. share \in Worker
      BY <2>1, <3>4, <3>6 DEF Worker
    <3>8. FirstOfShare(share) <= p /\ p <= EndOf(share)
      BY <2>1, <3>4, <3>5, <3>6 DEF FirstOfShare, EndOf
    <3> QED  BY <2>2, <3>7, <3>8
  <2>6. FirstOfShare(ThreadCount - 1) \in Int
    BY <2>3, SharesInOrder
  <2> QED  BY <2>1, <2>4, <2>5, <2>6
<1> QED  BY <1>1, <1>2, <1>3

\* Every set of numbers that is not empty has a least one: the descriptor that
\* the kernel gives out.
LEMMA LeastExists ==
  ASSUME NEW S \in SUBSET Nat, S # {}
  PROVE  Min(S) \in S
<1> DEFINE Less == {p \in Nat \X Nat : p[1] < p[2]}
<1>1. IsWellFoundedOn(Less, Nat)
  BY NatLessThanWellFounded DEF OpToRel
<1> HIDE DEF Less
<1>2. PICK x \in S : \A y \in S : ~(<<y, x>> \in Less)
  BY <1>1, WFMin
<1>3. \A y \in S : x <= y
  <2> SUFFICES ASSUME NEW y \in S, y < x  PROVE FALSE
    OBVIOUS
  <2>1. <<y, x>> \in Less
    BY DEF Less
  <2> QED  BY <1>2, <2>1
<1> QED  BY <1>3 DEF Min

-----------------------------------------------------------------------------
(* The inductive invariant.                                                *)

\* Port p's entry at worker w, the socket behind it, and its registration agree.
Serves(w, p, f) ==
  /\ p \in Candidates(w)
  /\ activeSockets[w][p] = f
  /\ socketOf[f] = p
  /\ [port |-> p, fd |-> f] \in interest[w]

LeasesAreServed == \A p \in leased : \E w \in Worker, f \in Fd : Serves(w, p, f)

\* A socket is found from the port it is bound to: no two share a port.
SocketsAreLeased ==
  \A f \in Fd : socketOf[f] # Closed =>
    /\ socketOf[f] \in leased
    /\ \E w \in Worker : Serves(w, socketOf[f], f)

\* Whatever a worker watches is a socket on one of its own ports, also after
\* the descriptor has been closed and given out again.
WatchesOwnPorts ==
  \A w \in Worker : \A e \in interest[w] :
    e.port \in Candidates(w) /\ socketOf[e.fd] = e.port

PortsInv == TypeOK /\ LeasesAreServed /\ SocketsAreLeased /\ WatchesOwnPorts

\* The workers from first to before next, in the circular order of the search.
Turns(first, next) ==
  IF first <= next THEN first .. next - 1
  ELSE (first .. ThreadCount - 1) \cup (0 .. next - 1)

\* Since the search began each worker before the next one has refused.
SearchInv ==
  /\ alloc.pc = "try" => alloc.refused = Turns(alloc.start, nextWorker)
  /\ FailsOnlyAfterAll

\* What the steps leave of it that touch no table: the search, the senders and
\* the receive loops.
LEMMA TablesUnchanged ==
  ASSUME PortsInv, UNCHANGED <<activeSockets, socketOf, interest, leased>>
  PROVE  LeasesAreServed' /\ SocketsAreLeased' /\ WatchesOwnPorts'
<1>1. \A w, p, f : Serves(w, p, f) <=> Serves(w, p, f)'
  BY DEF Serves
<1>2. LeasesAreServed'
  BY <1>1 DEF PortsInv, LeasesAreServed
<1>3. SocketsAreLeased'
  BY <1>1 DEF PortsInv, SocketsAreLeased
<1>4. WatchesOwnPorts'
  BY DEF PortsInv, WatchesOwnPorts
<1> QED  BY <1>2, <1>3, <1>4

\* The lowest free descriptor is one, and free.
LEMMA FreeFdIsFree ==
  ASSUME TypeOK, FreeFds # {}
  PROVE  Min(FreeFds) \in Fd /\ socketOf[Min(FreeFds)] = Closed
<1>1. Fd \subseteq Nat
  BY DEF Fd
<1>2. Min(FreeFds) \in FreeFds
  BY <1>1, LeastExists DEF FreeFds
<1> QED  BY <1>2 DEF FreeFds

\* Zero is neither a port nor a descriptor.
LEMMA ClosedIsNone == Closed \notin Port /\ Closed \notin Fd
  BY RangeAssumption DEF Closed, Port, Fd

\* A successful allocation: the new lease is served and the others still are.
LEMMA SuccessKeepsInv ==
  ASSUME PortsInv, TrySucceeds
  PROVE  PortsInv'
<1>0. TypeOK
  BY DEF PortsInv
<1>1. PICK w \in Worker : w = nextWorker
  BY <1>0 DEF TypeOK
<1>2. PICK f \in Fd : f = Min(FreeFds) /\ socketOf[f] = Closed
  BY <1>0, FreeFdIsFree DEF TrySucceeds
<1>3. PICK p \in Unused(w), o \in Obstacles(w) :
        Open(w, p, o.stale) /\ leased' = leased \cup {p}
  BY <1>1 DEF TrySucceeds
<1>4. p \in Candidates(w) /\ activeSockets[w][p] = Closed /\ p \in Port
  BY <1>1, CandidateHasOneWorker DEF Unused
<1>5. \A q \in o.stale : q \in Candidates(w) /\ activeSockets[w][q] = Closed
  BY DEF Unused, Obstacles
<1>6. /\ activeSockets' = [activeSockets EXCEPT ![w] =
           [q \in Port |-> IF q = p \/ q \in o.stale THEN f ELSE @[q]]]
      /\ socketOf' = [socketOf EXCEPT ![f] = p]
      /\ interest' = [interest EXCEPT ![w] = @ \cup {[port |-> p, fd |-> f]}]
  BY <1>2, <1>3 DEF Open
<1>7. /\ activeSockets'[w][p] = f
      /\ \A v \in Worker, q \in Port :
           activeSockets[v][q] # Closed => activeSockets'[v][q] = activeSockets[v][q]
  BY <1>0, <1>4, <1>5, <1>6 DEF TypeOK
<1>8. socketOf'[f] = p /\ \A g \in Fd : g # f => socketOf'[g] = socketOf[g]
  BY <1>0, <1>2, <1>6 DEF TypeOK
<1>9. /\ interest'[w] = interest[w] \cup {[port |-> p, fd |-> f]}
      /\ \A v \in Worker : v # w => interest'[v] = interest[v]
  BY <1>0, <1>6 DEF TypeOK
<1>10. TypeOK'
  <2>1. activeSockets' \in [Worker -> [Port -> Fd \cup {Closed}]]
    BY <1>0, <1>2, <1>6 DEF TypeOK
  <2>2. socketOf' \in [Fd -> Port \cup {Closed}]
    BY <1>0, <1>4, <1>6 DEF TypeOK
  <2>3. interest' \in [Worker -> SUBSET Entry]
    <3>1. [port |-> p, fd |-> f] \in Entry
      BY <1>2, <1>4 DEF Entry
    <3> QED  BY <1>0, <1>6, <3>1 DEF TypeOK
  <2>4. nextWorker' \in Worker
    BY RangeAssumption DEF TrySucceeds, Following, PortsInv, TypeOK, Worker
  <2>5. alloc' \in [pc : {"idle", "try", "failed"}, start : Worker, refused : SUBSET Worker]
    BY RangeAssumption DEF TrySucceeds, IdleAlloc, Worker
  <2>6. leased' \in SUBSET Port
    BY <1>0, <1>3, <1>4 DEF TypeOK
  <2>7. events' \in [Worker -> SUBSET Entry] /\ send' \in [Sender -> Entry \cup {IdleSend}]
    BY <1>0 DEF TypeOK, TrySucceeds
  <2> QED  BY <2>1, <2>2, <2>3, <2>4, <2>5, <2>6, <2>7 DEF TypeOK
<1>11. ASSUME NEW v \in Worker, NEW q \in Port, NEW g \in Fd, Serves(v, q, g)
       PROVE  Serves(v, q, g)'
  <2>1. g # f /\ g # Closed
    BY <1>2, <1>11, ClosedIsNone DEF Serves
  <2> QED  BY <1>7, <1>8, <1>9, <1>11, <2>1 DEF Serves
<1>12. Serves(w, p, f)'
  BY <1>4, <1>7, <1>8, <1>9 DEF Serves
<1>13. LeasesAreServed'
  <2> SUFFICES ASSUME NEW q \in leased'
               PROVE  \E v \in Worker, g \in Fd : Serves(v, q, g)'
    BY DEF LeasesAreServed
  <2>1. CASE q = p
    BY <1>1, <1>2, <1>12, <2>1
  <2>2. CASE q \in leased
    BY <1>0, <1>11, <2>2 DEF PortsInv, LeasesAreServed, TypeOK
  <2> QED  BY <1>3, <2>1, <2>2
<1>14. SocketsAreLeased'
  <2> SUFFICES ASSUME NEW g \in Fd, NEW q, q = socketOf'[g], q # Closed
               PROVE  q \in leased' /\ \E v \in Worker : Serves(v, q, g)'
    BY DEF SocketsAreLeased
  <2>1. CASE g = f
    BY <1>3, <1>8, <1>12, <2>1
  <2>2. CASE g # f
    <3>1. q = socketOf[g]
      BY <1>8, <2>2
    <3>2. q \in leased /\ \E v \in Worker : Serves(v, q, g)
      BY <3>1 DEF PortsInv, SocketsAreLeased
    <3>3. q \in Port
      BY <1>0, <3>2 DEF TypeOK
    <3> QED  BY <1>3, <1>11, <3>2, <3>3
  <2> QED  BY <2>1, <2>2
<1>15. WatchesOwnPorts'
  <2> SUFFICES ASSUME NEW v \in Worker, NEW e \in interest'[v]
               PROVE  e.port \in Candidates(v) /\ socketOf'[e.fd] = e.port
    BY DEF WatchesOwnPorts
  <2>1. CASE e \in interest[v]
    <3>1. e \in Entry
      BY <1>0, <2>1 DEF TypeOK
    <3>2. e.port \in Candidates(v) /\ socketOf[e.fd] = e.port
      BY <2>1 DEF PortsInv, WatchesOwnPorts
    <3>3. e.fd # f /\ e.fd \in Fd
      BY <1>2, <3>1, <3>2, ClosedIsNone DEF Entry
    <3> QED  BY <1>8, <3>2, <3>3
  <2>2. CASE v = w /\ e = [port |-> p, fd |-> f]
    BY <1>4, <1>8, <2>2
  <2> QED  BY <1>9, <2>1, <2>2
<1> QED  BY <1>10, <1>13, <1>14, <1>15 DEF PortsInv

\* A worker that has no port to give leaves entries behind, but of no lease.
LEMMA RefusalKeepsInv ==
  ASSUME PortsInv, TryFails
  PROVE  PortsInv'
<1>1. TypeOK /\ nextWorker \in Worker
  BY DEF PortsInv, TypeOK
<1>2. nextWorker' \in Worker
  BY RangeAssumption DEF TryFails, Following, PortsInv, TypeOK, Worker
<1>3. alloc' \in [pc : {"idle", "try", "failed"}, start : Worker, refused : SUBSET Worker]
  <2>1. /\ alloc.start \in Worker /\ alloc.refused \in SUBSET Worker
        /\ alloc = [pc |-> alloc.pc, start |-> alloc.start, refused |-> alloc.refused]
    BY <1>1 DEF TypeOK
  <2> QED  BY <1>1, <2>1 DEF TryFails
<1>4. UNCHANGED <<leased, events, send>>
  BY DEF TryFails
<1>5. CASE FreeFds = {}
  <2>1. UNCHANGED <<activeSockets, socketOf, interest>>
    BY <1>5 DEF TryFails
  <2>2. TypeOK'
    BY <1>1, <1>2, <1>3, <1>4, <2>1 DEF TypeOK
  <2> QED  BY <1>4, <2>1, <2>2, TablesUnchanged DEF PortsInv
<1>6. CASE FreeFds # {}
  <2>1. PICK f \in Fd : f = Min(FreeFds)
    BY <1>1, <1>6, FreeFdIsFree
  <2> DEFINE w == nextWorker
  <2>2. PICK o \in Obstacles(w) : OpenNone(w, o.stale)
    BY <1>6 DEF TryFails
  <2>3. \A q \in o.stale : q \in Candidates(w) /\ activeSockets[w][q] = Closed
    BY DEF Unused, Obstacles
  <2>4. activeSockets' = [activeSockets EXCEPT ![w] =
          [q \in Port |-> IF q \in o.stale THEN f ELSE @[q]]]
        /\ UNCHANGED <<socketOf, interest>>
    BY <2>1, <2>2 DEF OpenNone
  <2>5. \A v \in Worker, q \in Port :
          activeSockets[v][q] # Closed => activeSockets'[v][q] = activeSockets[v][q]
    BY <1>1, <2>3, <2>4 DEF TypeOK
  <2>6. activeSockets' \in [Worker -> [Port -> Fd \cup {Closed}]]
    BY <1>1, <2>1, <2>4 DEF TypeOK
  <2>7. TypeOK'
    BY <1>1, <1>2, <1>3, <1>4, <2>4, <2>6 DEF TypeOK
  <2>8. ASSUME NEW v \in Worker, NEW q \in Port, NEW g \in Fd, Serves(v, q, g)
        PROVE  Serves(v, q, g)'
    BY <2>4, <2>5, <2>8, ClosedIsNone DEF Serves
  <2>9. LeasesAreServed'
    BY <1>1, <1>4, <2>8 DEF PortsInv, LeasesAreServed, TypeOK
  <2>10. SocketsAreLeased'
    <3> SUFFICES ASSUME NEW g \in Fd, NEW q, q = socketOf[g], q # Closed
                 PROVE  q \in leased /\ \E v \in Worker : Serves(v, q, g)'
      BY <1>4, <2>4 DEF SocketsAreLeased
    <3>1. q \in leased /\ \E v \in Worker : Serves(v, q, g)
      BY DEF PortsInv, SocketsAreLeased
    <3>2. q \in Port
      BY <1>1, <3>1 DEF TypeOK
    <3> QED  BY <2>8, <3>1, <3>2
  <2>11. WatchesOwnPorts'
    BY <2>4 DEF PortsInv, WatchesOwnPorts
  <2> QED  BY <2>7, <2>9, <2>10, <2>11 DEF PortsInv
<1> QED  BY <1>5, <1>6

\* A release closes the socket that serves the lease, and no other.
LEMMA ReleaseKeepsInv ==
  ASSUME PortsInv, NEW p \in Port, ReleasePort(p)
  PROVE  PortsInv'
<1>0. TypeOK /\ p \in leased
  BY DEF PortsInv, ReleasePort
<1>1. PICK w \in Worker, f \in Fd : Serves(w, p, f)
  BY <1>0 DEF PortsInv, LeasesAreServed
<1>2. Min(WorkersFor(p)) = w /\ p \in Candidates(w)
  BY <1>1, CandidateHasOneWorker DEF Serves
<1>3. activeSockets[w][p] = f /\ f # Closed /\ socketOf[f] = p
  BY <1>1, ClosedIsNone DEF Serves
<1>4. /\ interest' = [interest EXCEPT ![w] = {e \in @ : e.fd # f}]
      /\ socketOf' = [socketOf EXCEPT ![f] = Closed]
      /\ activeSockets' = [activeSockets EXCEPT ![w][p] = Closed]
      /\ leased' = leased \ {p}
      /\ UNCHANGED <<nextWorker, alloc, events, send>>
  BY <1>2, <1>3 DEF ReleasePort
<1>5. TypeOK'
  <2>1. activeSockets' \in [Worker -> [Port -> Fd \cup {Closed}]]
    BY <1>0, <1>4 DEF TypeOK
  <2>2. socketOf' \in [Fd -> Port \cup {Closed}]
    BY <1>0, <1>4 DEF TypeOK
  <2>3. interest' \in [Worker -> SUBSET Entry]
    BY <1>0, <1>4 DEF TypeOK
  <2>4. leased' \in SUBSET Port
    BY <1>0, <1>4 DEF TypeOK
  <2> QED  BY <1>0, <1>4, <2>1, <2>2, <2>3, <2>4 DEF TypeOK
<1>6. socketOf'[f] = Closed /\ \A g \in Fd : g # f => socketOf'[g] = socketOf[g]
  BY <1>0, <1>4 DEF TypeOK
<1>7. \A v \in Worker, q \in Port : q # p => activeSockets'[v][q] = activeSockets[v][q]
  BY <1>0, <1>4 DEF TypeOK
<1>8. /\ interest'[w] = {e \in interest[w] : e.fd # f}
      /\ \A v \in Worker : v # w => interest'[v] = interest[v]
  BY <1>0, <1>4 DEF TypeOK
<1>9. ASSUME NEW v \in Worker, NEW q \in Port, q # p, NEW g \in Fd, Serves(v, q, g)
      PROVE  Serves(v, q, g)'
  <2>1. g # f
    BY <1>3, <1>9 DEF Serves
  <2>2. [port |-> q, fd |-> g] \in interest'[v]
    BY <1>8, <1>9, <2>1 DEF Serves
  <2> QED  BY <1>6, <1>7, <1>9, <2>1, <2>2 DEF Serves
<1>10. LeasesAreServed'
  <2> SUFFICES ASSUME NEW q \in leased, q # p
               PROVE  \E v \in Worker, g \in Fd : Serves(v, q, g)'
    BY <1>4 DEF LeasesAreServed
  <2>1. q \in Port /\ \E v \in Worker, g \in Fd : Serves(v, q, g)
    BY <1>0 DEF PortsInv, LeasesAreServed, TypeOK
  <2> QED  BY <1>9, <2>1
<1>11. SocketsAreLeased'
  <2> SUFFICES ASSUME NEW g \in Fd, NEW q, q = socketOf'[g], q # Closed
               PROVE  q \in leased' /\ \E v \in Worker : Serves(v, q, g)'
    BY DEF SocketsAreLeased
  <2>1. g # f /\ q = socketOf[g]
    BY <1>6
  <2>2. q \in leased
    BY <2>1 DEF PortsInv, SocketsAreLeased
  <2>3. PICK v \in Worker : Serves(v, q, g)
    BY <2>1 DEF PortsInv, SocketsAreLeased
  <2>4. q # p
    <3> SUFFICES ASSUME q = p  PROVE FALSE
      OBVIOUS
    <3>1. p \in Candidates(v) /\ activeSockets[v][p] = g
      BY <2>3 DEF Serves
    <3>2. v = w
      BY <1>2, <3>1, CandidateHasOneWorker
    <3> QED  BY <1>3, <2>1, <3>1, <3>2
  <2> QED  BY <1>0, <1>4, <1>9, <2>2, <2>3, <2>4 DEF TypeOK
<1>12. WatchesOwnPorts'
  <2> SUFFICES ASSUME NEW v \in Worker, NEW e \in interest'[v]
               PROVE  e.port \in Candidates(v) /\ socketOf'[e.fd] = e.port
    BY DEF WatchesOwnPorts
  <2>1. e \in interest[v]
    BY <1>8
  <2>2. e \in Entry /\ e.port \in Candidates(v) /\ socketOf[e.fd] = e.port
    BY <1>0, <2>1 DEF PortsInv, WatchesOwnPorts, TypeOK
  <2>3. e.fd # f
    <3> SUFFICES ASSUME e.fd = f  PROVE FALSE
      OBVIOUS
    <3>1. v = w
      BY <1>2, <1>3, <2>2, CandidateHasOneWorker
    <3> QED  BY <1>8, <3>1
  <2> QED  BY <1>6, <2>2, <2>3 DEF Entry
<1> QED  BY <1>5, <1>10, <1>11, <1>12 DEF PortsInv

\* The steps that only move the search, a sender or a receive loop keep their types.
LEMMA OthersKeepTypes ==
  ASSUME PortsInv,
         \/ BeginAllocate \/ ReturnFailure
         \/ \E s \in Sender, p \in Port : SendLookup(s, p)
         \/ \E s \in Sender : SendTo(s)
         \/ \E w \in Worker : EpollWait(w) \/ Receive(w)
  PROVE  TypeOK' /\ UNCHANGED <<activeSockets, socketOf, interest, leased>>
<1> TypeOK
  BY DEF PortsInv
<1>1. CASE BeginAllocate
  BY <1>1 DEF TypeOK, BeginAllocate
<1>2. CASE ReturnFailure
  BY <1>2, RangeAssumption DEF TypeOK, ReturnFailure, IdleAlloc, Worker
<1>3. ASSUME NEW s \in Sender, NEW p \in Port, SendLookup(s, p)
      PROVE  TypeOK' /\ UNCHANGED <<activeSockets, socketOf, interest, leased>>
  <2>1. PICK w \in Worker : w \in WorkersFor(p)
    BY <1>3 DEF SendLookup, WorkersFor
  <2>2. WorkersFor(p) = {w} /\ p \in Int
    BY <2>1, RangesAreDisjoint, RangeAssumption DEF WorkersFor, Port
  <2>3. Min(WorkersFor(p)) = w
    <3>1. w \in Int
      BY RangeAssumption DEF Worker
    <3> QED  BY <2>2, <3>1 DEF Min
  <2>4. send' \in [Sender -> Entry \cup {IdleSend}]
    BY <1>3, <2>3 DEF TypeOK, SendLookup, Entry
  <2> QED  BY <1>3, <2>4 DEF TypeOK, SendLookup
<1>4. ASSUME NEW s \in Sender, SendTo(s)
      PROVE  TypeOK' /\ UNCHANGED <<activeSockets, socketOf, interest, leased>>
  BY <1>4 DEF TypeOK, SendTo
<1>5. ASSUME NEW w \in Worker, EpollWait(w)
      PROVE  TypeOK' /\ UNCHANGED <<activeSockets, socketOf, interest, leased>>
  BY <1>5 DEF TypeOK, EpollWait
<1>6. ASSUME NEW w \in Worker, Receive(w)
      PROVE  TypeOK' /\ UNCHANGED <<activeSockets, socketOf, interest, leased>>
  BY <1>6 DEF TypeOK, Receive
<1> QED  BY <1>1, <1>2, <1>3, <1>4, <1>5, <1>6

\* Every step keeps the invariant.
LEMMA StepKeepsInv == PortsInv /\ [Next]_vars => PortsInv'
<1> SUFFICES ASSUME PortsInv, [Next]_vars  PROVE PortsInv'
  OBVIOUS
<1>1. CASE UNCHANGED vars
  <2>1. UNCHANGED <<activeSockets, socketOf, interest, leased>> /\ TypeOK'
    BY <1>1 DEF vars, PortsInv, TypeOK
  <2> QED  BY <2>1, TablesUnchanged DEF PortsInv
<1>2. ASSUME \/ BeginAllocate \/ ReturnFailure
             \/ \E s \in Sender, p \in Port : SendLookup(s, p)
             \/ \E s \in Sender : SendTo(s)
             \/ \E w \in Worker : EpollWait(w) \/ Receive(w)
      PROVE  PortsInv'
  <2>1. TypeOK' /\ UNCHANGED <<activeSockets, socketOf, interest, leased>>
    BY <1>2, OthersKeepTypes
  <2> QED  BY <2>1, TablesUnchanged DEF PortsInv
<1> QED  BY <1>1, <1>2, SuccessKeepsInv, RefusalKeepsInv, ReleaseKeepsInv DEF Next

\* Initially there are no leases, no sockets and no registrations.
LEMMA InitialInv == Init => PortsInv
<1> SUFFICES ASSUME Init  PROVE PortsInv
  OBVIOUS
<1>1. TypeOK
  BY RangeAssumption DEF Init, TypeOK, Worker, IdleAlloc
<1>2. LeasesAreServed /\ SocketsAreLeased /\ WatchesOwnPorts
  BY DEF Init, LeasesAreServed, SocketsAreLeased, WatchesOwnPorts
<1> QED  BY <1>1, <1>2 DEF PortsInv

\* The invariant holds in every state of every behaviour.
LEMMA PortsInvariant == Spec => []PortsInv
  BY InitialInv, StepKeepsInv, PTL DEF Spec

\* Tables, descriptors, the search and the senders stay within their types.
THEOREM PortTypes == Spec => []TypeOK
<1>1. PortsInv => TypeOK
  BY DEF PortsInv
<1> QED  BY <1>1, PortsInvariant, PTL

\* Every leased port is even and served by one worker with one open socket.
THEOREM EveryLeaseWorks == Spec => []LeasesWork
<1>1. ASSUME PortsInv  PROVE LeasesWork
  <2> SUFFICES ASSUME NEW p \in leased
      PROVE  /\ p % 2 = 0
             /\ \E w \in Worker, f \in Fd :
                  /\ WorkersFor(p) = {w}
                  /\ activeSockets[w][p] = f
                  /\ socketOf[f] = p
                  /\ {v \in Worker : \E e \in interest[v] : e.fd = f} = {w}
                  /\ [port |-> p, fd |-> f] \in interest[w]
    BY DEF LeasesWork
  <2>1. PICK w \in Worker, f \in Fd : Serves(w, p, f)
    BY <1>1 DEF PortsInv, LeasesAreServed
  <2>2. /\ p \in Candidates(w) /\ activeSockets[w][p] = f /\ socketOf[f] = p
        /\ [port |-> p, fd |-> f] \in interest[w]
    BY <2>1 DEF Serves
  <2>3. p % 2 = 0 /\ WorkersFor(p) = {w}
    BY <2>2, CandidateHasOneWorker
  <2>4. ASSUME NEW v \in Worker, NEW e \in interest[v], e.fd = f
        PROVE  v = w
    <3>1. p \in Candidates(v)
      BY <1>1, <2>2, <2>4 DEF PortsInv, WatchesOwnPorts
    <3> QED  BY <2>2, <3>1, CandidateHasOneWorker
  <2>5. {v \in Worker : \E e \in interest[v] : e.fd = f} = {w}
    BY <2>2, <2>4
  <2> QED  BY <2>2, <2>3, <2>5
<1> QED  BY <1>1, PortsInvariant, PTL

\* Every open socket is behind a lease.
THEOREM NoSocketIsLeaked == Spec => []NoSocketLeaks
<1>1. PortsInv => NoSocketLeaks
  BY DEF PortsInv, SocketsAreLeased, NoSocketLeaks
<1> QED  BY <1>1, PortsInvariant, PTL

\* A port that allocatePort returns is nobody's: no lease has it and no open
\* socket is bound to it.
ReturnsFreePort ==
  alloc.pc = "try" /\ alloc'.pc = "idle" =>
    \E p \in Port \ leased :
      leased' = leased \cup {p} /\ \A f \in Fd : socketOf[f] # p

\* No port is given to two calls at a time.
THEOREM AllocationIsFresh == Spec => [][ReturnsFreePort]_vars
<1>1. ASSUME PortsInv, [Next]_vars  PROVE [ReturnsFreePort]_vars
  <2>1. CASE TrySucceeds
    <3>1. PICK p \in Unused(nextWorker) : leased' = leased \cup {p}
      BY <2>1 DEF TrySucceeds
    <3>2. nextWorker \in Worker
      BY <1>1 DEF PortsInv, TypeOK
    <3>3. p \in Candidates(nextWorker) /\ activeSockets[nextWorker][p] = Closed
          /\ p \in Port
      BY <3>2, CandidateHasOneWorker DEF Unused
    <3>4. p \notin leased
      <4> SUFFICES ASSUME p \in leased  PROVE FALSE
        OBVIOUS
      <4>1. PICK w \in Worker, f \in Fd : Serves(w, p, f)
        BY <1>1 DEF PortsInv, LeasesAreServed
      <4>2. p \in Candidates(w) /\ activeSockets[w][p] = f
        BY <4>1 DEF Serves
      <4>3. w = nextWorker
        BY <3>2, <3>3, <4>2, CandidateHasOneWorker
      <4> QED  BY <3>3, <4>2, <4>3, ClosedIsNone
    <3>5. \A f \in Fd : socketOf[f] # p
      BY <1>1, <3>3, <3>4, ClosedIsNone DEF PortsInv, SocketsAreLeased
    <3> QED  BY <3>1, <3>3, <3>4, <3>5 DEF ReturnsFreePort
  <2>2. CASE TryFails
    <3>1. alloc' = [alloc EXCEPT
            !.pc = IF nextWorker' = alloc.start THEN "failed" ELSE "try",
            !.refused = @ \cup {nextWorker}]
      BY <2>2 DEF TryFails
    <3>2. alloc'.pc # "idle"
      BY <1>1, <3>1 DEF PortsInv, TypeOK
    <3> QED  BY <3>2 DEF ReturnsFreePort
  <2>3. CASE ~TrySucceeds /\ ~TryFails
    <3>1. alloc' = alloc \/ alloc.pc # "try"
      BY <1>1, <2>3
      DEF Next, vars, BeginAllocate, ReturnFailure, ReleasePort, SendLookup, SendTo,
          EpollWait, Receive
    <3> QED  BY <3>1 DEF ReturnsFreePort
  <2> QED  BY <2>1, <2>2, <2>3
<1> QED  BY <1>1, PortsInvariant, PTL DEF Spec

-----------------------------------------------------------------------------
(* The search.                                                             *)

\* After a refusal the search has gone one turn further, and round when it is
\* back where it began.
LEMMA TurnsGrow ==
  ASSUME NEW first \in Worker, NEW next \in Worker
  PROVE  /\ Following(next) # first =>
              Turns(first, Following(next)) = Turns(first, next) \cup {next}
         /\ Following(next) = first => Turns(first, next) \cup {next} = Worker
         /\ Turns(first, first) = {}
<1>1. ThreadCount \in Nat /\ ThreadCount > 0 /\ first \in Int /\ next \in Int
      /\ 0 <= first /\ first < ThreadCount /\ 0 <= next /\ next < ThreadCount
  BY RangeAssumption DEF Worker
<1>2. CASE next = ThreadCount - 1
  <2>1. Following(next) = 0
    BY <1>1, <1>2 DEF Following
  <2> QED  BY <1>1, <1>2, <2>1 DEF Turns, Worker
<1>3. CASE next < ThreadCount - 1
  <2>1. Following(next) = next + 1
    BY <1>1, <1>3 DEF Following
  <2> QED  BY <1>1, <1>3, <2>1 DEF Turns, Worker
<1> QED  BY <1>1, <1>2, <1>3

\* Every step keeps the record of who has refused.
LEMMA SearchStep == PortsInv /\ SearchInv /\ [Next]_vars => SearchInv'
<1> SUFFICES ASSUME PortsInv, SearchInv, [Next]_vars  PROVE SearchInv'
  OBVIOUS
<1>0. /\ nextWorker \in Worker /\ alloc.start \in Worker
      /\ alloc = [pc |-> alloc.pc, start |-> alloc.start, refused |-> alloc.refused]
  BY DEF PortsInv, TypeOK
<1>1. CASE BeginAllocate
  <2>1. alloc'.pc = "try" /\ alloc'.start = nextWorker /\ alloc'.refused = {}
        /\ nextWorker' = nextWorker
    BY <1>1 DEF BeginAllocate
  <2> QED  BY <1>0, <2>1, TurnsGrow DEF SearchInv, FailsOnlyAfterAll
<1>2. CASE TrySucceeds \/ ReturnFailure
  BY <1>2 DEF TrySucceeds, ReturnFailure, IdleAlloc, SearchInv, FailsOnlyAfterAll
<1>3. CASE TryFails
  <2>1. /\ nextWorker' = Following(nextWorker)
        /\ alloc.pc = "try"
        /\ alloc'.start = alloc.start
        /\ alloc'.refused = alloc.refused \cup {nextWorker}
        /\ alloc'.pc = IF nextWorker' = alloc.start THEN "failed" ELSE "try"
    BY <1>0, <1>3 DEF TryFails
  <2>2. alloc.refused = Turns(alloc.start, nextWorker)
    BY <2>1 DEF SearchInv
  <2> QED  BY <1>0, <2>1, <2>2, TurnsGrow DEF SearchInv, FailsOnlyAfterAll
<1>4. ASSUME UNCHANGED <<alloc, nextWorker>>
      PROVE  SearchInv'
  BY <1>4 DEF SearchInv, FailsOnlyAfterAll
<1> QED
  BY <1>1, <1>2, <1>3, <1>4
  DEF Next, vars, ReleasePort, SendLookup, SendTo, EpollWait, Receive

\* allocatePort fails only when it has asked every worker in turn.
THEOREM SearchIsComplete == Spec => []FailsOnlyAfterAll
<1>1. Init => SearchInv
  BY DEF Init, IdleAlloc, SearchInv, FailsOnlyAfterAll
<1>2. Spec => []SearchInv
  BY <1>1, SearchStep, PortsInvariant, PTL DEF Spec
<1>3. SearchInv => FailsOnlyAfterAll
  BY DEF SearchInv
<1> QED  BY <1>2, <1>3, PTL
=============================================================================

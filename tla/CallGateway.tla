----------------------------- MODULE CallGateway -----------------------------
(***************************************************************************)
(* The life of calls in the gateway: the CallRegistry, the CallSession     *)
(* objects and the RTP ports they hold, under the threads that share them: *)
(*                                                                         *)
(*   - the SIP thread, which runs GatewayApp::handleSipMessage one message *)
(*     at a time;                                                          *)
(*   - the console thread, whose "cut <id>" command calls removeCall;      *)
(*   - the RTP workers, which look a session up by port and keep a         *)
(*     shared_ptr to it while they process a packet.                       *)
(*                                                                         *)
(* Each action is one critical section of the code (registry mutex,        *)
(* session mutex, RtpServer mutex); a handler that takes several of them   *)
(* is a sequence of actions ordered by the thread's pc.  A session is      *)
(* destroyed, and its port released, by the action that drops the last     *)
(* shared_ptr to it, as ~CallSession does.                                 *)
(***************************************************************************)
EXTENDS Naturals, FiniteSets

CONSTANTS
  CallId,    \* Call-ID values
  Session,   \* identities of CallSession objects; reused once destroyed
  Port,      \* RTP ports the workers can bind
  Worker,    \* RTP worker threads
  WorkerOf,  \* the worker whose range holds a port
  MaxCalls,  \* Config::maxCalls
  None,      \* no call, no session, no port (localRtpPort_ = 0, port -1)
  Reinvite,  \* may a peer send a new INVITE for a call that is registered?
  Operator   \* does somebody type "cut" at the console?

ASSUME CallIdAssumption == IsFiniteSet(CallId)
ASSUME NoneAssumption == None \notin CallId \cup Session \cup Port
ASSUME WorkerOfAssumption == WorkerOf \in [Port -> Worker]
ASSUME MaxCallsAssumption == MaxCalls \in Nat
ASSUME EnvironmentAssumption == Reinvite \in BOOLEAN /\ Operator \in BOOLEAN

VARIABLES
  calls,          \* CallRegistry::calls_
  portMap,        \* CallRegistry::portMap_
  callToPorts,    \* CallRegistry::callToPorts_
  activeSockets,  \* ports with an open socket, over all workers
  heap,           \* CallSession objects that exist
  localRtpPort,   \* CallSession::localRtpPort_
  sip,            \* the SIP thread inside handleSipMessage
  rtp             \* each RTP worker inside its receive loop

registryVars == <<calls, portMap, callToPorts>>
sessionVars == <<heap, localRtpPort>>
vars == <<calls, portMap, callToPorts, activeSockets, heap, localRtpPort,
          sip, rtp>>

\* Where handleSipMessage can stand between two critical sections.
SipPc == {"idle", "count", "add", "alloc", "register", "answer", "release",
          "terminate", "remove", "return"}
\* Steps of an INVITE that hold an allocated port not yet given to a session.
PortInHand == {"register", "answer", "release"}
\* Steps at which the call being handled may lack its port.
Unsettled == {"alloc", "register", "answer", "release", "remove"}

TypeOK ==
  /\ calls \in [CallId -> Session \cup {None}]
  /\ portMap \in [Port -> CallId \cup {None}]
  /\ callToPorts \in [CallId -> SUBSET Port]
  /\ activeSockets \in SUBSET Port
  /\ heap \in SUBSET Session
  /\ localRtpPort \in [Session -> Port \cup {None}]
  /\ sip \in [pc : SipPc, call : CallId \cup {None},
              sess : Session \cup {None}, port : Port \cup {None}]
  /\ sip.pc # "idle" => sip.call \in CallId
  /\ sip.pc \in PortInHand => sip.port \in Port
  /\ rtp \in [Worker -> [pc : {"idle", "lookup", "media"},
                         sess : Session \cup {None}, port : Port \cup {None}]]
  /\ \A w \in Worker : rtp[w].pc # "idle" => rtp[w].port \in Port

IdleSip == [pc |-> "idle", call |-> None, sess |-> None, port |-> None]
IdleWorker == [pc |-> "idle", sess |-> None, port |-> None]

Init ==
  /\ calls = [c \in CallId |-> None]
  /\ portMap = [p \in Port |-> None]
  /\ callToPorts = [c \in CallId |-> {}]
  /\ activeSockets = {}
  /\ heap = {}
  /\ localRtpPort = [s \in Session |-> None]
  /\ sip = IdleSip
  /\ rtp = [w \in Worker |-> IdleWorker]

-----------------------------------------------------------------------------
(* Registry and session operations.                                        *)

Registered == {c \in CallId : calls[c] # None}

\* A shared_ptr to s exists: in calls_, in handleSipMessage, or in a worker.
Referenced(s) ==
  \/ \E c \in CallId : calls[c] = s
  \/ sip.sess = s
  \/ \E w \in Worker : rtp[w].sess = s

\* CallRegistry::getCallByPort
CallByPort(p) == IF portMap[p] = None THEN None ELSE calls[portMap[p]]

\* CallRegistry::addCall
AddCall(c, s) == calls' = [calls EXCEPT ![c] = IF @ = None THEN s ELSE @]

\* CallRegistry::registerRtpPort
RegisterRtpPort(p, c) ==
  /\ portMap' = [portMap EXCEPT ![p] = c]
  /\ callToPorts' = [callToPorts EXCEPT ![c] = @ \cup {p}]

\* Mutant: the port lists are left behind.
RemoveCallOnly(c) ==
  /\ calls' = [calls EXCEPT ![c] = None]
  /\ UNCHANGED <<portMap, callToPorts>>

\* CallRegistry::removeCall
RemoveCall(c) ==
  /\ portMap' = [p \in Port |-> IF p \in callToPorts[c] THEN None ELSE portMap[p]]
  /\ callToPorts' = [callToPorts EXCEPT ![c] = {}]
  /\ calls' = [calls EXCEPT ![c] = None]

\* Mutant: localRtpPort_ is not cleared.
TerminateKeepsPort(S) ==
  /\ activeSockets' = activeSockets \ {localRtpPort[s] : s \in S}
  /\ localRtpPort' = localRtpPort

\* CallSession::terminate for every session of S: the port goes back to the
\* RtpServer and localRtpPort_ is cleared.
Terminate(S) ==
  /\ activeSockets' = activeSockets \ {localRtpPort[s] : s \in S}
  /\ localRtpPort' = [s \in Session |-> IF s \in S THEN None ELSE localRtpPort[s]]

\* Mutant: the destructor does not call terminate.
ReclaimWithoutTerminate ==
  /\ heap' = {s \in heap : Referenced(s)'}
  /\ UNCHANGED <<activeSockets, localRtpPort>>

\* ~CallSession of the sessions whose last shared_ptr this step has dropped.
Reclaim ==
  LET gone == {s \in heap : ~Referenced(s)'}
  IN  /\ heap' = heap \ gone
      /\ Terminate(gone)

-----------------------------------------------------------------------------
(* The SIP thread: handleSipMessage for a request the transaction table    *)
(* lets through.  Methods other than these three touch no call.            *)

GoTo(pc) == sip' = [sip EXCEPT !.pc = pc]

\* INVITE: getCall, then straight to the port for a call that exists.
ReceiveInvite(c) ==
  /\ sip.pc = "idle"
  /\ calls[c] # None => Reinvite
  /\ sip' = [pc |-> IF calls[c] = None THEN "count" ELSE "alloc",
             call |-> c, sess |-> calls[c], port |-> None]
  /\ UNCHANGED <<registryVars, activeSockets, sessionVars, rtp>>

\* BYE for a known call; for an unknown one only a 200 is sent.
ReceiveBye(c) ==
  /\ sip.pc = "idle"
  /\ calls[c] # None
  /\ sip' = [pc |-> "terminate", call |-> c, sess |-> calls[c], port |-> None]
  /\ UNCHANGED <<registryVars, activeSockets, sessionVars, rtp>>

\* CANCEL for a known call removes it, answered or not.
ReceiveCancel(c) ==
  /\ sip.pc = "idle"
  /\ calls[c] # None
  /\ sip' = [pc |-> "remove", call |-> c, sess |-> calls[c], port |-> None]
  /\ UNCHANGED <<registryVars, activeSockets, sessionVars, rtp>>

\* count() >= maxCalls: 486 Busy Here.
RefuseBusy ==
  /\ sip.pc = "count"
  /\ Cardinality(Registered) >= MaxCalls
  /\ GoTo("return")
  /\ UNCHANGED <<registryVars, activeSockets, sessionVars, rtp>>

\* Mutant: one call too many passes the test.
BelowOrAtLimit ==
  /\ sip.pc = "count"
  /\ Cardinality(Registered) <= MaxCalls
  /\ GoTo("add")
  /\ UNCHANGED <<registryVars, activeSockets, sessionVars, rtp>>

BelowLimit ==
  /\ sip.pc = "count"
  /\ Cardinality(Registered) < MaxCalls
  /\ GoTo("add")
  /\ UNCHANGED <<registryVars, activeSockets, sessionVars, rtp>>

\* make_shared<CallSession>, init and addCall.
CreateCall(s) ==
  /\ sip.pc = "add"
  /\ s \notin heap
  /\ heap' = heap \cup {s}
  /\ AddCall(sip.call, s)
  /\ sip' = [sip EXCEPT !.pc = "alloc", !.sess = s]
  /\ UNCHANGED <<portMap, callToPorts, activeSockets, localRtpPort, rtp>>

\* RtpServer::allocatePort; which free port is found is left open here.
AllocatePort(p) ==
  /\ sip.pc = "alloc"
  /\ p \notin activeSockets
  /\ activeSockets' = activeSockets \cup {p}
  /\ sip' = [sip EXCEPT !.pc = "register", !.port = p]
  /\ UNCHANGED <<registryVars, sessionVars, rtp>>

\* Mutant: the -1 is not tested.
AllocationUntested ==
  /\ sip.pc = "alloc"
  /\ GoTo("register")
  /\ UNCHANGED <<registryVars, activeSockets, sessionVars, rtp>>

\* allocatePort returns -1, because every port is bound or a socket cannot be
\* made: 500, and removeCall next.
AllocationFails ==
  /\ sip.pc = "alloc"
  /\ GoTo("remove")
  /\ UNCHANGED <<registryVars, activeSockets, sessionVars, rtp>>

\* Mutant: the port is not registered.
RegisterNothing ==
  /\ sip.pc = "register"
  /\ GoTo("answer")
  /\ UNCHANGED <<registryVars, activeSockets, sessionVars, rtp>>

RegisterPort ==
  /\ sip.pc = "register"
  /\ RegisterRtpPort(sip.port, sip.call)
  /\ GoTo("answer")
  /\ UNCHANGED <<calls, activeSockets, sessionVars, rtp>>

\* A codec matches: startPipeline stores the port in the session, over the one
\* it may hold already, and the 200 is sent.
StartPipeline ==
  /\ sip.pc = "answer"
  /\ localRtpPort' = [localRtpPort EXCEPT ![sip.sess] = sip.port]
  /\ GoTo("return")
  /\ UNCHANGED <<registryVars, activeSockets, heap, rtp>>

\* No codec matches: 488.
NotAcceptable ==
  /\ sip.pc = "answer"
  /\ GoTo("release")
  /\ UNCHANGED <<registryVars, activeSockets, sessionVars, rtp>>

\* Mutant: the refused call stays in the registry.
ReleaseAndReturn ==
  /\ sip.pc = "release"
  /\ activeSockets' = activeSockets \ {sip.port}
  /\ GoTo("return")
  /\ UNCHANGED <<registryVars, sessionVars, rtp>>

ReleaseOffered ==
  /\ sip.pc = "release"
  /\ activeSockets' = activeSockets \ {sip.port}
  /\ GoTo("remove")
  /\ UNCHANGED <<registryVars, sessionVars, rtp>>

\* CallSession::onSipMessage for the BYE.
TerminateSession ==
  /\ sip.pc = "terminate"
  /\ Terminate({sip.sess})
  /\ GoTo("remove")
  /\ UNCHANGED <<registryVars, heap, rtp>>

RemoveHandled ==
  /\ sip.pc = "remove"
  /\ RemoveCall(sip.call)
  /\ GoTo("return")
  /\ UNCHANGED rtp
  /\ Reclaim

\* handleSipMessage returns and its shared_ptr goes out of scope.
Return ==
  /\ sip.pc = "return"
  /\ sip' = IdleSip
  /\ UNCHANGED <<registryVars, rtp>>
  /\ Reclaim

SipStep ==
  \/ RefuseBusy
  \/ BelowLimit
  \/ \E s \in Session : CreateCall(s)
  \/ \E p \in Port : AllocatePort(p)
  \/ AllocationFails
  \/ RegisterPort
  \/ StartPipeline
  \/ NotAcceptable
  \/ ReleaseOffered
  \/ TerminateSession
  \/ RemoveHandled
  \/ Return

-----------------------------------------------------------------------------
(* The console thread and the RTP workers.                                 *)

\* "cut <id>": removeCall of any id, at any moment.
Cut(c) ==
  /\ Operator
  /\ RemoveCall(c)
  /\ UNCHANGED <<sip, rtp>>
  /\ Reclaim

\* recvfrom on a socket of this worker.
RtpReceive(w, p) ==
  /\ rtp[w].pc = "idle"
  /\ p \in activeSockets
  /\ WorkerOf[p] = w
  /\ rtp' = [rtp EXCEPT ![w] = [pc |-> "lookup", sess |-> None, port |-> p]]
  /\ UNCHANGED <<registryVars, activeSockets, sessionVars, sip>>

\* handleRtpPacket: getCallByPort takes a shared_ptr, or the packet is dropped.
RtpLookup(w) ==
  /\ rtp[w].pc = "lookup"
  /\ LET s == CallByPort(rtp[w].port)
     IN  rtp' = [rtp EXCEPT ![w] =
                   IF s = None THEN IdleWorker
                   ELSE [pc |-> "media", sess |-> s, port |-> rtp[w].port]]
  /\ UNCHANGED <<registryVars, activeSockets, sessionVars, sip>>

\* Mutant: the worker keeps the session of its last packet.
RtpDoneKeepsSession(w) ==
  /\ rtp[w].pc = "media"
  /\ rtp' = [rtp EXCEPT ![w].pc = "idle"]
  /\ UNCHANGED <<registryVars, sip>>
  /\ Reclaim

\* onRtpPacket is over and the worker's shared_ptr goes out of scope.
RtpDone(w) ==
  /\ rtp[w].pc = "media"
  /\ rtp' = [rtp EXCEPT ![w] = IdleWorker]
  /\ UNCHANGED <<registryVars, sip>>
  /\ Reclaim

RtpStep(w) == RtpLookup(w) \/ RtpDone(w)

Next ==
  \/ \E c \in CallId : ReceiveInvite(c) \/ ReceiveBye(c) \/ ReceiveCancel(c)
  \/ SipStep
  \/ \E c \in CallId : Cut(c)
  \/ \E w \in Worker, p \in Port : RtpReceive(w, p)
  \/ \E w \in Worker : RtpStep(w)

Spec == Init /\ [][Next]_vars

\* The SIP thread finishes the handler it is in and a worker finishes the packet
\* it holds; nobody has to send, call or type anything.
Fairness == WF_vars(SipStep) /\ \A w \in Worker : WF_vars(RtpStep(w))
FairSpec == Spec /\ Fairness

-----------------------------------------------------------------------------
(* Properties.                                                             *)

\* A port belongs to one session at a time and stays bound while it does:
\* releasePort is called exactly once per allocation, although terminate can
\* run from the BYE handler and again from the destructor, in another thread,
\* when the port may already serve another call.
PortExclusive ==
  /\ \A s \in heap : localRtpPort[s] # None => localRtpPort[s] \in activeSockets
  /\ \A s, t \in heap :
       s # t /\ localRtpPort[s] # None => localRtpPort[s] # localRtpPort[t]

\* The registry never holds more than max_calls calls, although count() and
\* addCall are two critical sections with the console thread between them.
CallLimit == Cardinality(Registered) <= MaxCalls

\* A call found in the registry has an RTP socket, unless the SIP thread is in
\* the middle of setting it up or taking it down.
AnsweredCallsHavePorts ==
  \A c \in Registered :
    ~(sip.call = c /\ sip.pc \in Unsettled)
      => localRtpPort[calls[c]] \in activeSockets

\* A packet that arrives on the port of such a call is handed to that call.
AnsweredCallsAreReachable ==
  \A c \in Registered :
    ~(sip.call = c /\ sip.pc \in Unsettled)
      => /\ localRtpPort[calls[c]] \in Port
         /\ CallByPort(localRtpPort[calls[c]]) = calls[c]

\* portMap_ ("rtp port -> call id") and callToPorts_ ("call id -> ports") are
\* inverses of each other and name only calls that exist.
RegistryMapsAgree ==
  \A p \in Port, c \in CallId :
    /\ portMap[p] = c <=> p \in callToPorts[c]
    /\ portMap[p] = c => c \in Registered

\* No port leaks: a bound port belongs to a session that exists or to the
\* INVITE being handled.
PortsHaveOwners ==
  \A p \in activeSockets :
    \/ \E s \in heap : localRtpPort[s] = p
    \/ sip.pc \in PortInHand /\ sip.port = p

\* A session that is no longer registered is destroyed, and with
\* PortExclusive its port is free again, whoever holds the last shared_ptr.
RemovedSessionsAreDestroyed ==
  \A s \in Session :
    (s \in heap /\ \A c \in CallId : calls[c] # s)
      ~> (s \notin heap \/ \E c \in CallId : calls[c] = s)
=============================================================================

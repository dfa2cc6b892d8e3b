--------------------------- MODULE SipTransactions ---------------------------
(***************************************************************************)
(* The transaction table of GatewayApp and the SipTransaction objects in   *)
(* it, between SIP clients that retransmit and a network that loses,       *)
(* duplicates, delays and reorders datagrams.                              *)
(*                                                                         *)
(* handleSipMessage runs to the end in one action: it holds                *)
(* transactionsMutex_ and runs in the only thread that reads the socket.   *)
(* What the handler does to a call is reduced to whether the call is in    *)
(* the registry; CallGateway models the rest.                              *)
(*                                                                         *)
(* A request stands for one client transaction, that is one Call-ID,       *)
(* branch and method: the key of transactions_.  Time is counted in ticks. *)
(***************************************************************************)
EXTENDS Integers, FiniteSets

CONSTANTS
  Request,         \* client transactions
  Method,          \* Request -> {"INVITE", "BYE", "CANCEL", "OTHER"}
  CallOf,          \* Request -> Call-ID
  MaxCalls,        \* Config::maxCalls
  TicksPerSecond,  \* resolution of the clock
  Timeout,         \* seconds a client retransmits, and an entry is kept: 32
  Cadence,         \* seconds between two cleanups: 5
  MaxDelay,        \* ticks a datagram can spend in the network
  MaxTime,         \* bound on the clock
  MaxRequests,     \* bound on the requests that are sent
  None             \* no transaction, no answer

Methods == {"INVITE", "BYE", "CANCEL", "OTHER"}

ASSUME RequestAssumption ==
  /\ Method \in [Request -> Methods]
  /\ IsFiniteSet({CallOf[r] : r \in Request})
ASSUME ClockAssumption ==
  /\ {TicksPerSecond, Timeout} \subseteq Nat \ {0}
  /\ {Cadence, MaxDelay, MaxTime, MaxRequests, MaxCalls} \subseteq Nat
\* A datagram is not delayed by more than the second that the cleanup's
\* "age > 32" on whole seconds leaves after the last retransmission.
ASSUME DelayAssumption == MaxDelay <= TicksPerSecond

VARIABLES
  now,           \* steady_clock::now()
  lastCleanup,   \* the static of cleanupTransactions
  transactions,  \* GatewayApp::transactions_: None or the SipTransaction
  calls,         \* the Call-IDs in CallRegistry
  net,           \* datagrams in flight
  sentAt,        \* when the client first sent the request, or None
  got,           \* the status code the client has last heard, or None
  handled        \* how many times the request got past the table

gatewayVars == <<lastCleanup, transactions, calls, handled>>
clientVars == <<sentAt, got>>
vars == <<now, lastCleanup, transactions, calls, net, sentAt, got, handled>>

Call == {CallOf[r] : r \in Request}
\* Status codes: provisional, success, refused for lack of capacity, refused.
Code == {100, 200, 486, 488}
Final == Code \ {100}
State == {"TRYING", "PROCEEDING", "COMPLETED", "CONFIRMED", "TERMINATED"}
Time == 0 .. MaxTime

Transaction == [state : State, last : Code, lastActive : Time]
Datagram == [kind : {"request", "ack"}, of : Request, at : Time]
              \cup [kind : {"response"}, of : Request, at : Time, code : Code]

ASSUME NoneAssumption == None \notin Time \cup Code \cup Transaction

TypeOK ==
  /\ now \in Time
  /\ lastCleanup \in Time
  /\ transactions \in [Request -> Transaction \cup {None}]
  /\ calls \in SUBSET Call
  /\ net \in SUBSET Datagram
  /\ sentAt \in [Request -> Time \cup {None}]
  /\ got \in [Request -> Code \cup {None}]
  /\ handled \in [Request -> Nat]

Init ==
  /\ now = 0
  /\ lastCleanup = 0
  /\ transactions = [r \in Request |-> None]
  /\ calls = {}
  /\ net = {}
  /\ sentAt = [r \in Request |-> None]
  /\ got = [r \in Request |-> None]
  /\ handled = [r \in Request |-> 0]

-----------------------------------------------------------------------------
(* The clients (external): RFC 3261 user agents.                           *)

RequestOf(r) == [kind |-> "request", of |-> r, at |-> now]
AckOf(r) == [kind |-> "ack", of |-> r, at |-> now]
ResponseTo(r, code) == [kind |-> "response", of |-> r, at |-> now, code |-> code]

Invites(c) == {r \in Request : CallOf[r] = c /\ Method[r] = "INVITE"}

\* A client hangs up a call that was answered, and cancels one it has heard 100
\* for and nothing more.
MaySend(r) ==
  CASE Method[r] = "BYE" -> \E i \in Invites(CallOf[r]) : got[i] = 200
    [] Method[r] = "CANCEL" ->
         \E i \in Invites(CallOf[r]) : got[i] = 100
    [] OTHER -> TRUE

Send(r) ==
  /\ sentAt[r] = None
  /\ Cardinality({q \in Request : sentAt[q] # None}) < MaxRequests
  /\ MaySend(r)
  /\ sentAt' = [sentAt EXCEPT ![r] = now]
  /\ net' = net \cup {RequestOf(r)}
  /\ UNCHANGED <<now, gatewayVars, got>>

\* Until the final answer or the end of its timer, B or F.  (A client whose
\* INVITE has been answered 100 may stop earlier: this one does not.)
Retransmit(r) ==
  /\ sentAt[r] # None
  /\ got[r] \notin Final
  /\ now - sentAt[r] < Timeout * TicksPerSecond
  /\ net' = net \cup {RequestOf(r)}
  /\ UNCHANGED <<now, gatewayVars, clientVars>>

\* An INVITE's final answer is acknowledged, every time it arrives.
ReceiveAnswer(m) ==
  /\ m \in net
  /\ m.kind = "response"
  /\ got' = [got EXCEPT ![m.of] =
               IF @ \in Final THEN @ ELSE m.code]
  /\ net' = IF Method[m.of] = "INVITE" /\ m.code \in Final
              THEN net \cup {AckOf(m.of)} ELSE net
  /\ UNCHANGED <<now, gatewayVars, sentAt>>

-----------------------------------------------------------------------------
(* SipTransaction.                                                         *)

\* SipTransaction::sendResponse: the state after a response is sent.
StateAfter(m, s, code) ==
  IF s \notin {"TRYING", "PROCEEDING"} THEN s
  ELSE IF code = 100 THEN "PROCEEDING"
  ELSE IF m = "INVITE" /\ code = 200 THEN "TERMINATED"
  ELSE "COMPLETED"

\* Mutant: only provisional responses are sent again.
ShouldResendProvisional(t) == t.state = "PROCEEDING"

\* SipTransaction::shouldResendResponse, for a request with the same key.
ShouldResendResponse(t) == t.state \in {"PROCEEDING", "COMPLETED"}

\* The transaction of a request once the handler has sent these responses.
\* A busy gateway answers 486 without a 100 before it.
Answered(r, code) ==
  LET trying == Method[r] = "INVITE" /\ code # 486
      s == IF trying THEN StateAfter("INVITE", "TRYING", 100) ELSE "TRYING"
  IN  [state |-> StateAfter(Method[r], s, code), last |-> code,
       lastActive |-> now]

ResponsesTo(r, code) ==
  {ResponseTo(r, code)}
    \cup (IF Method[r] = "INVITE" /\ code # 486 THEN {ResponseTo(r, 100)} ELSE {})

-----------------------------------------------------------------------------
(* GatewayApp.                                                             *)

Arrives(r) == \E m \in net : m.kind = "request" /\ m.of = r

\* The handler proper, for a request it takes as new, answered with code.
Handle(r, code) ==
  /\ transactions' = [transactions EXCEPT ![r] = Answered(r, code)]
  /\ net' = net \cup ResponsesTo(r, code)
  /\ handled' = [handled EXCEPT ![r] = @ + 1]
  /\ UNCHANGED <<now, lastCleanup, clientVars>>

\* A request whose key is in the table: the last response again, or nothing.
HandleKnown(r) ==
  /\ Arrives(r)
  /\ transactions[r] # None
  /\ net' = IF ShouldResendResponse(transactions[r])
              THEN net \cup {ResponseTo(r, transactions[r].last)} ELSE net
  /\ UNCHANGED <<now, gatewayVars, clientVars>>

Busy(c) == c \notin calls /\ Cardinality(calls) >= MaxCalls

\* Mutant: a copy of an INVITE is taken for a new one.
HandleInviteAgain(r, code) ==
  /\ Arrives(r)
  /\ Method[r] = "INVITE"
  /\ IF Busy(CallOf[r]) THEN code = 486 ELSE code \in {200, 488}
  /\ calls' = CASE code = 200 -> calls \cup {CallOf[r]}
                [] code = 488 -> calls \ {CallOf[r]}
                [] code = 486 -> calls
  /\ Handle(r, code)

HandleInvite(r, code) ==
  /\ Arrives(r)
  /\ transactions[r] = None
  /\ Method[r] = "INVITE"
  /\ IF Busy(CallOf[r]) THEN code = 486 ELSE code \in {200, 488}
  /\ calls' = CASE code = 200 -> calls \cup {CallOf[r]}
                [] code = 488 -> calls \ {CallOf[r]}
                [] code = 486 -> calls
  /\ Handle(r, code)

\* BYE and CANCEL: 200 first, then the call goes if there is one.
HandleHangup(r) ==
  /\ Arrives(r)
  /\ transactions[r] = None
  /\ Method[r] \in {"BYE", "CANCEL"}
  /\ calls' = calls \ {CallOf[r]}
  /\ Handle(r, 200)

\* OPTIONS, REFER and the methods that get 501.
HandleOther(r) ==
  /\ Arrives(r)
  /\ transactions[r] = None
  /\ Method[r] = "OTHER"
  /\ Handle(r, 200)
  /\ UNCHANGED calls

\* The ACK of a refusal carries the branch of its INVITE and finds the
\* transaction; the ACK of a 2xx has a branch of its own and finds nothing.
HandleAck(r) ==
  /\ \E m \in net : m.kind = "ack" /\ m.of = r
  /\ transactions[r] # None
  /\ transactions[r].last # 200
  /\ transactions' = [transactions EXCEPT
       ![r].lastActive = now,
       ![r].state = IF @ = "COMPLETED" THEN "CONFIRMED" ELSE @]
  /\ UNCHANGED <<now, lastCleanup, calls, handled, net, clientVars>>

Age(t) == (now - t.lastActive) \div TicksPerSecond

\* Mutant: an entry is dropped a second early.
ExpiredAtTimeout(t) ==
  /\ t.state \in {"COMPLETED", "CONFIRMED", "TERMINATED"}
  /\ Age(t) >= Timeout

Expired(t) ==
  \/ t.state \in {"COMPLETED", "CONFIRMED", "TERMINATED"} /\ Age(t) > Timeout
  \/ Age(t) > 2 * Timeout

CleanupIsDue == (now - lastCleanup) \div TicksPerSecond >= Cadence

\* The loop of run() calls it after every poll; it does something at most once
\* in Cadence seconds.
CleanupTransactions ==
  /\ CleanupIsDue
  /\ lastCleanup' = now
  /\ transactions' = [r \in Request |->
       IF transactions[r] # None /\ Expired(transactions[r])
         THEN None ELSE transactions[r]]
  /\ UNCHANGED <<now, calls, handled, net, clientVars>>

-----------------------------------------------------------------------------
(* The network and the clock.  A datagram is delivered any number of times *)
(* until it is lost or has grown too old.                                  *)

\* For GatewayProcess only: where safety is concerned, a datagram that nobody
\* receives is as good as lost.
Lose(m) ==
  /\ m \in net
  /\ net' = net \ {m}
  /\ UNCHANGED <<now, gatewayVars, clientVars>>

Tick ==
  /\ now < MaxTime
  /\ now' = now + 1
  /\ net' = {m \in net : now' - m.at <= MaxDelay}
  /\ UNCHANGED <<gatewayVars, clientVars>>

HandleRequest(r) ==
  HandleKnown(r) \/ (\E code \in Final : HandleInvite(r, code))
    \/ HandleHangup(r) \/ HandleOther(r)

Next ==
  \/ \E r \in Request : Send(r) \/ Retransmit(r) \/ HandleAck(r)
  \/ \E r \in Request : HandleKnown(r) \/ HandleHangup(r) \/ HandleOther(r)
  \/ \E r \in Request, code \in Final : HandleInvite(r, code)
  \/ \E m \in net : ReceiveAnswer(m)
  \/ CleanupTransactions
  \/ Tick

Spec == Init /\ [][Next]_vars

\* For the fairness of GatewayProcess: a final answer comes through.
AnswerArrives(r) ==
  \E m \in net : m.of = r /\ m.kind = "response" /\ m.code \in Final
                   /\ ReceiveAnswer(m)

-----------------------------------------------------------------------------
(* Properties.                                                             *)

\* However often a request is retransmitted, duplicated and delayed, the call
\* handling behind the table runs at most once for it: its entry outlives every
\* copy of the request.
AtMostOnce == \A r \in Request : handled[r] <= 1

Sent(method, c) ==
  \E r \in Request : CallOf[r] = c /\ Method[r] = method /\ sentAt[r] # None

\* A second INVITE with the Call-ID: it ends the call if it is refused, and sets
\* it up again if it comes after the BYE.
Reinvited(c) ==
  \E i, j \in Invites(c) : i # j /\ sentAt[i] # None /\ sentAt[j] # None

EndsOnPurpose(c) == Sent("BYE", c) \/ Sent("CANCEL", c) \/ Reinvited(c)

\* A call leaves the registry because its client has hung up, cancelled or invited
\* again, whether or not the client has heard of it: never because of a late copy of its
\* INVITE, which may come when the entry of the first is about to be cleaned up, or
\* because of what another call does.
CallsEndForAReason == [][\A c \in calls \ calls' : EndsOnPurpose(c)]_vars

\* A call whose client has heard 200, and that nobody has begun to change or end,
\* is in the registry: a late copy of its INVITE does not refuse it after all.
AnsweredCallsAreKept ==
  \A r \in Request :
    Method[r] = "INVITE" /\ got[r] = 200 /\ ~EndsOnPurpose(CallOf[r])
      => CallOf[r] \in calls

\* A call whose BYE or CANCEL has been answered is not in the registry: a late
\* copy of its INVITE does not set it up again.
EndedCallsStayEnded ==
  \A r \in Request :
    Method[r] \in {"BYE", "CANCEL"} /\ got[r] \in Final /\ ~Reinvited(CallOf[r])
      => CallOf[r] \notin calls
=============================================================================

------------------------ MODULE GatewayProcessProofs ------------------------
(***************************************************************************)
(* What the runs of SipTransactions and GatewayProcess show on a few       *)
(* requests, for any number of requests, calls, workers and lines and for  *)
(* every timer: a request is handled at most once, answered calls are kept *)
(* and ended calls stay ended, while time passes and entries are cleaned   *)
(* up; and the console executes one more line at most.                     *)
(***************************************************************************)
EXTENDS GatewayProcess, TLAPS

-----------------------------------------------------------------------------
(* Transactions: the inductive invariant.                                  *)

\* How long after it was first sent a request can still arrive.
Lifetime == (Timeout + 1) * TicksPerSecond

\* A copy of a request is from before the end of the client's timer, and young.
CopiesAreYoung ==
  \A m \in net :
    /\ m.kind = "request" =>
         /\ sentAt[m.of] # None
         /\ sentAt[m.of] <= m.at /\ m.at - sentAt[m.of] < Timeout * TicksPerSecond
    /\ m.at <= now /\ now - m.at <= MaxDelay

\* A transaction is no older than its request.
EntriesAreLater ==
  \A r \in Request : transactions[r] # None =>
    /\ sentAt[r] # None
    /\ sentAt[r] <= transactions[r].lastActive
    /\ transactions[r].lastActive <= now

\* An entry goes when no copy of its request can arrive any more.
EntriesOutliveCopies ==
  \A r \in Request : handled[r] # 0 /\ transactions[r] = None =>
    sentAt[r] # None /\ now - sentAt[r] >= Lifetime

\* Whatever has been heard of a request is from its one handling.
AnswersAreFromHandling ==
  \A r \in Request :
    (\/ transactions[r] # None
     \/ got[r] # None
     \/ \E m \in net : m.kind = "response" /\ m.of = r)
      => handled[r] # 0

\* Nothing is sent in the future.
SentBefore == \A r \in Request : sentAt[r] # None => sentAt[r] <= now

\* An entry outlives the copies of its request, so the request is handled once.
TimingInv ==
  /\ SentBefore
  /\ CopiesAreYoung /\ EntriesAreLater /\ EntriesOutliveCopies
  /\ AnswersAreFromHandling
  /\ \A r \in Request : handled[r] # 0 => sentAt[r] # None
  /\ AtMostOnce

\* The gateway has said 200 to r.
Accepts(r) ==
  \/ got[r] = 200
  \/ transactions[r] # None /\ transactions[r].last = 200
  \/ \E m \in net : m.kind = "response" /\ m.of = r /\ m.code = 200

AcceptedCallsAreKept ==
  \A r \in Request :
    Method[r] = "INVITE" /\ Accepts(r) /\ ~EndsOnPurpose(CallOf[r]) => CallOf[r] \in calls

\* A call is hung up only after one of its INVITEs has been handled, ...
HangupFollowsInvite ==
  \A r \in Request :
    Method[r] \in {"BYE", "CANCEL"} /\ sentAt[r] # None =>
      \E i \in Invites(CallOf[r]) : handled[i] # 0

\* ... and then it is gone.
HungUpCallsAreGone ==
  \A r \in Request :
    Method[r] \in {"BYE", "CANCEL"} /\ handled[r] # 0 /\ ~Reinvited(CallOf[r])
      => CallOf[r] \notin calls

SipInv == TypeOK /\ TimingInv /\ HangupFollowsInvite /\ HungUpCallsAreGone

-----------------------------------------------------------------------------
(* Threads: the inductive invariant.                                       *)

ThreadTypes ==
  /\ ThreadsOK
  /\ lateLines \in Nat
  /\ stdin \in [typed : Nat, closed : BOOLEAN]

\* Once running_ is reset the console can leave getline with a line only once.
LateInv ==
  /\ OneMoreCommand
  /\ running \/ consolePc = "read" => lateLines = 0

ThreadsInv == ThreadTypes /\ LateInv

-----------------------------------------------------------------------------
(* Facts about constants, datagrams and entries.                           *)

\* The clock counts in whole ticks, and a datagram is late by a second at most.
LEMMA ClockConstants ==
  /\ TicksPerSecond \in Nat /\ TicksPerSecond > 0
  /\ MaxDelay \in Nat /\ MaxDelay <= TicksPerSecond
  /\ Timeout * TicksPerSecond \in Nat /\ Timeout * TicksPerSecond > 0
  /\ Lifetime = Timeout * TicksPerSecond + TicksPerSecond
  /\ Time \subseteq Nat
<1>1. /\ TicksPerSecond \in Nat /\ TicksPerSecond > 0 /\ Timeout \in Nat /\ Timeout > 0
      /\ MaxDelay \in Nat /\ MaxDelay <= TicksPerSecond
  BY ClockAssumption, DelayAssumption
<1>2. \A a \in Nat, b \in Nat : a > 0 /\ b > 0 => a * b \in Nat /\ a * b > 0
  OBVIOUS
<1>3. Lifetime = Timeout * TicksPerSecond + TicksPerSecond
  BY <1>1 DEF Lifetime
<1>4. Time \subseteq Nat
  BY DEF Time
<1> QED  BY <1>1, <1>2, <1>3, <1>4

\* What a datagram consists of.
LEMMA DatagramParts ==
  ASSUME NEW m \in Datagram
  PROVE  /\ m.of \in Request /\ m.at \in Time
         /\ m.kind \in {"request", "ack", "response"}
         /\ m.kind = "response" => m.code \in Code
<1>1. CASE m \in [kind : {"request", "ack"}, of : Request, at : Time]
  BY <1>1
<1>2. CASE m \in [kind : {"response"}, of : Request, at : Time, code : Code]
  BY <1>2
<1> QED  BY <1>1, <1>2 DEF Datagram

\* What is sent is a datagram of this moment.
LEMMA SentIsDatagram ==
  ASSUME now \in Time, NEW r \in Request
  PROVE  /\ RequestOf(r) \in Datagram /\ AckOf(r) \in Datagram
         /\ \A code \in Code : ResponseTo(r, code) \in Datagram
         /\ \A code \in Final : ResponsesTo(r, code) \subseteq Datagram
<1>1. RequestOf(r) \in Datagram /\ AckOf(r) \in Datagram
  BY DEF RequestOf, AckOf, Datagram
<1>2. \A code \in Code : ResponseTo(r, code) \in Datagram
  BY DEF ResponseTo, Datagram
<1>3. \A code \in Final : code \in Code /\ 100 \in Code
  BY DEF Final, Code
<1> QED  BY <1>1, <1>2, <1>3 DEF ResponsesTo

\* A transaction that has been answered is an entry of this moment.
LEMMA AnsweredIsEntry ==
  ASSUME now \in Time, NEW r \in Request, NEW code \in Final
  PROVE  /\ Answered(r, code) \in Transaction /\ Answered(r, code) # None
         /\ Answered(r, code).lastActive = now
         /\ Answered(r, code).last = code
<1>1. \A m, s, c : s \in State => StateAfter(m, s, c) \in State
  BY DEF StateAfter, State
<1>2. "TRYING" \in State /\ code \in Code
  BY DEF State, Final
<1>3. Answered(r, code) \in Transaction
  BY <1>1, <1>2 DEF Answered, Transaction
<1>4. Answered(r, code) # None
  BY <1>3, NoneAssumption
<1> QED  BY <1>3, <1>4 DEF Answered

\* What is in the table, what has been sent and what has been heard.
LEMMA TableTypes ==
  ASSUME TypeOK, NEW r \in Request
  PROVE  /\ transactions[r] # None =>
              /\ transactions[r] \in Transaction
              /\ transactions[r].state \in State
              /\ transactions[r].last \in Code
              /\ transactions[r].lastActive \in Time
         /\ sentAt[r] # None => sentAt[r] \in Time
         /\ got[r] # None => got[r] \in Code
         /\ handled[r] \in Nat
         /\ now \in Time
<1>1. transactions[r] # None => transactions[r] \in Transaction
  BY DEF TypeOK
<1>2. \A t \in Transaction : t.state \in State /\ t.last \in Code /\ t.lastActive \in Time
  BY DEF Transaction
<1>3. /\ sentAt[r] # None => sentAt[r] \in Time
      /\ got[r] # None => got[r] \in Code
      /\ handled[r] \in Nat
      /\ now \in Time
  BY DEF TypeOK
<1> QED  BY <1>1, <1>2, <1>3

\* An entry is dropped only more than Timeout whole seconds after its last use.
LEMMA ExpiredIsOld ==
  ASSUME NEW t, now \in Nat, t.lastActive \in Nat, t.lastActive <= now, Expired(t)
  PROVE  now - t.lastActive >= Lifetime
<1> DEFINE age == now - t.lastActive
           tps == TicksPerSecond
<1>1. age \in Nat /\ tps \in Nat /\ tps > 0 /\ Timeout \in Nat
  BY ClockAssumption
<1>2. age \div tps \in Nat /\ age \div tps >= Timeout + 1
  <2>1. age \div tps \in Nat
    BY <1>1
  <2> HIDE DEF age, tps
  <2>2. Age(t) = age \div tps
    BY DEF Age, age, tps
  <2> QED  BY <1>1, <2>1, <2>2 DEF Expired
<1> HIDE DEF age, tps
<1>3. tps * (age \div tps) <= age
  BY <1>1
<1>4. (Timeout + 1) * tps <= tps * (age \div tps)
  <2> DEFINE q == age \div tps
  <2>1. q \in Nat /\ q >= Timeout + 1
    BY <1>2
  <2> HIDE DEF q
  <2>2. q - (Timeout + 1) \in Nat
    BY <1>1, <2>1
  <2>3. tps * (q - (Timeout + 1)) \in Nat
    BY <1>1, <2>2
  <2>4. tps * (q - (Timeout + 1)) = tps * q - (Timeout + 1) * tps
    BY <1>1, <2>1
  <2>5. tps * q \in Nat /\ (Timeout + 1) * tps \in Nat
    BY <1>1, <2>1
  <2>6. (Timeout + 1) * tps <= tps * q
    BY <2>3, <2>4, <2>5
  <2> QED  BY <2>6 DEF q
<1>5. tps * (age \div tps) \in Nat /\ (Timeout + 1) * tps \in Nat
  BY <1>1, <1>2
<1> QED  BY <1>1, <1>3, <1>4, <1>5 DEF Lifetime, age, tps

-----------------------------------------------------------------------------
(* Every step of the clients, the network, the gateway and the clock; in a *)
(* process calls are also cut by the console and dropped at the end.       *)

CallsEnd ==
  /\ calls' \subseteq calls
  /\ UNCHANGED <<now, lastCleanup, transactions, net, sentAt, got, handled>>

SipStep ==
  \/ \E r \in Request : Send(r) \/ Retransmit(r) \/ HandleAck(r)
  \/ \E r \in Request : HandleKnown(r) \/ HandleHangup(r) \/ HandleOther(r)
  \/ \E r \in Request, code \in Final : HandleInvite(r, code)
  \/ \E m \in net : ReceiveAnswer(m) \/ Lose(m)
  \/ CleanupTransactions \/ Tick \/ CallsEnd

\* The table, the counters and the network keep their types when a request is
\* handled as new.
LEMMA HandleKeepsTypes ==
  ASSUME TypeOK, calls' \in SUBSET Call, NEW r \in Request, NEW code \in Final,
         Handle(r, code)
  PROVE  TypeOK'
<1>1. Answered(r, code) \in Transaction /\ ResponsesTo(r, code) \subseteq Datagram
  BY AnsweredIsEntry, SentIsDatagram DEF TypeOK
<1>2. transactions' \in [Request -> Transaction \cup {None}]
  BY <1>1 DEF TypeOK, Handle
<1>3. net' \in SUBSET Datagram
  BY <1>1 DEF TypeOK, Handle
<1>4. handled' \in [Request -> Nat]
  BY DEF TypeOK, Handle
<1>5. UNCHANGED <<now, lastCleanup, sentAt, got>>
  BY DEF Handle, clientVars
<1> QED  BY <1>2, <1>3, <1>4, <1>5 DEF TypeOK

\* The entry of a transaction after an ACK.
LEMMA AckedEntry ==
  ASSUME TypeOK, NEW r \in Request, HandleAck(r)
  PROVE  /\ transactions' \in [Request -> Transaction \cup {None}]
         /\ transactions[r] # None /\ transactions'[r] # None
         /\ transactions'[r].last = transactions[r].last
         /\ transactions'[r].lastActive = now
         /\ \A q \in Request : q # r => transactions'[q] = transactions[q]
<1> DEFINE t == transactions[r]
           s == IF t.state = "COMPLETED" THEN "CONFIRMED" ELSE t.state
           u == [state |-> s, last |-> t.last, lastActive |-> now]
<1>1. t # None /\ t \in Transaction /\ t.state \in State /\ t.last \in Code
      /\ now \in Time
  BY TableTypes DEF HandleAck
<1>2. s \in State
  BY <1>1 DEF State
<1>3. u \in Transaction /\ u.last = t.last /\ u.lastActive = now
  BY <1>1, <1>2 DEF Transaction
<1>4. u # None
  BY <1>3, NoneAssumption
<1>5. transactions' = [transactions EXCEPT ![r] = u]
  <2>1. [[t EXCEPT !.lastActive = now] EXCEPT
           !.state = IF @ = "COMPLETED" THEN "CONFIRMED" ELSE @] = u
    <3> HIDE DEF t, u
    <3>1. t = [state |-> t.state, last |-> t.last, lastActive |-> t.lastActive]
      BY <1>1 DEF Transaction
    <3>2. [t EXCEPT !.lastActive = now] =
            [state |-> t.state, last |-> t.last, lastActive |-> now]
      BY <3>1
    <3>3. ASSUME NEW v, v = [state |-> t.state, last |-> t.last, lastActive |-> now]
          PROVE  [v EXCEPT !.state = IF @ = "COMPLETED" THEN "CONFIRMED" ELSE @] =
                   [state |-> s, last |-> t.last, lastActive |-> now]
      <4>1. v.state = t.state
        BY <3>3
      <4> QED  BY <3>3, <4>1
    <3> QED  BY <3>2, <3>3 DEF u
  <2>2. transactions \in [Request -> Transaction \cup {None}]
    BY DEF TypeOK
  <2> DEFINE young == [t EXCEPT !.lastActive = now]
             mid == [transactions EXCEPT ![r] = young]
  <2>3. mid[r] = young /\ mid = [transactions EXCEPT ![r].lastActive = now]
    BY <2>2
  <2>4. transactions' = [mid EXCEPT ![r] =
           [mid[r] EXCEPT !.state = IF @ = "COMPLETED" THEN "CONFIRMED" ELSE @]]
    BY <2>3 DEF HandleAck
  <2>5. transactions' = [mid EXCEPT ![r] = u]
    BY <2>1, <2>3, <2>4
  <2> HIDE DEF u, young
  <2> QED  BY <2>2, <2>5
<1> HIDE DEF u
<1>6. transactions \in [Request -> Transaction \cup {None}]
  BY DEF TypeOK
<1> QED  BY <1>1, <1>3, <1>4, <1>5, <1>6

\* Every step keeps the types.
LEMMA SipStepKeepsTypes ==
  ASSUME TypeOK, SipStep
  PROVE  TypeOK'
<1>1. ASSUME NEW r \in Request, Send(r)  PROVE TypeOK'
  <2>1. now \in Time /\ RequestOf(r) \in Datagram
    BY SentIsDatagram DEF TypeOK
  <2> QED  BY <1>1, <2>1 DEF Send, TypeOK, gatewayVars
<1>2. ASSUME NEW r \in Request, Retransmit(r)  PROVE TypeOK'
  <2>1. RequestOf(r) \in Datagram
    BY SentIsDatagram DEF TypeOK
  <2> QED  BY <1>2, <2>1 DEF Retransmit, TypeOK, gatewayVars, clientVars
<1>3. ASSUME NEW r \in Request, HandleAck(r)  PROVE TypeOK'
  <2>1. transactions' \in [Request -> Transaction \cup {None}]
    BY <1>3, AckedEntry
  <2> QED  BY <1>3, <2>1 DEF HandleAck, TypeOK, clientVars
<1>4. ASSUME NEW r \in Request, HandleKnown(r)  PROVE TypeOK'
  <2>1. transactions[r].last \in Code /\ now \in Time
    BY <1>4, TableTypes DEF HandleKnown
  <2>2. ResponseTo(r, transactions[r].last) \in Datagram
    BY <2>1, SentIsDatagram
  <2> QED  BY <1>4, <2>2 DEF HandleKnown, TypeOK, gatewayVars, clientVars
<1>5. ASSUME NEW r \in Request, HandleHangup(r)  PROVE TypeOK'
  <2>1. calls' \in SUBSET Call /\ 200 \in Final /\ Handle(r, 200)
    BY <1>5 DEF HandleHangup, TypeOK, Final, Code
  <2> QED  BY <2>1, HandleKeepsTypes
<1>6. ASSUME NEW r \in Request, HandleOther(r)  PROVE TypeOK'
  <2>1. calls' \in SUBSET Call /\ 200 \in Final /\ Handle(r, 200)
    BY <1>6 DEF HandleOther, TypeOK, Final, Code
  <2> QED  BY <2>1, HandleKeepsTypes
<1>7. ASSUME NEW r \in Request, NEW code \in Final, HandleInvite(r, code)  PROVE TypeOK'
  <2>1. CallOf[r] \in Call
    BY DEF Call
  <2>2. code \in {200, 488, 486}
    BY <1>7 DEF HandleInvite
  <2>3. calls' \in SUBSET Call /\ Handle(r, code)
    BY <1>7, <2>1, <2>2 DEF HandleInvite, TypeOK
  <2> QED  BY <2>3, HandleKeepsTypes
<1>8. ASSUME NEW m \in net, ReceiveAnswer(m)  PROVE TypeOK'
  <2>1. m \in Datagram
    BY DEF TypeOK
  <2>2. m.of \in Request /\ m.code \in Code
    BY <1>8, <2>1, DatagramParts DEF ReceiveAnswer
  <2>3. AckOf(m.of) \in Datagram
    BY <2>2, SentIsDatagram DEF TypeOK
  <2>4. got' \in [Request -> Code \cup {None}]
    BY <1>8, <2>2 DEF ReceiveAnswer, TypeOK
  <2>5. net' \in SUBSET Datagram
    BY <1>8, <2>3 DEF ReceiveAnswer, TypeOK
  <2> QED  BY <1>8, <2>4, <2>5 DEF ReceiveAnswer, TypeOK, gatewayVars
<1>9. ASSUME NEW m \in net, Lose(m)  PROVE TypeOK'
  BY <1>9 DEF Lose, TypeOK, gatewayVars, clientVars
<1>10. CASE CleanupTransactions
  BY <1>10 DEF CleanupTransactions, TypeOK, clientVars
<1>11. CASE Tick
  <2>1. now' \in Time
    BY <1>11, ClockAssumption DEF Tick, TypeOK, Time
  <2> QED  BY <1>11, <2>1 DEF Tick, TypeOK, gatewayVars, clientVars
<1>12. CASE CallsEnd
  BY <1>12 DEF CallsEnd, TypeOK
<1> QED
  BY <1>1, <1>2, <1>3, <1>4, <1>5, <1>6, <1>7, <1>8, <1>9, <1>10, <1>11, <1>12
  DEF SipStep

-----------------------------------------------------------------------------
(* Every step keeps the timing.                                            *)

\* A request that arrives and is not in the table has not been handled.
LEMMA NewIsUnhandled ==
  ASSUME TypeOK, TimingInv, NEW r \in Request, Arrives(r)
  PROVE  /\ transactions[r] = None => handled[r] = 0
         /\ sentAt[r] # None /\ sentAt[r] <= now
<1>1. PICK m \in net : m.kind = "request" /\ m.of = r
  BY DEF Arrives
<1>2. m.at \in Nat /\ now \in Nat
  BY DatagramParts, ClockConstants DEF TypeOK
<1>3. /\ sentAt[r] # None /\ sentAt[r] <= m.at
      /\ m.at - sentAt[r] < Timeout * TicksPerSecond
      /\ m.at <= now /\ now - m.at <= MaxDelay
  BY <1>1 DEF TimingInv, CopiesAreYoung
<1>4. sentAt[r] \in Nat
  BY <1>3, TableTypes, ClockConstants
<1>5. now - sentAt[r] < Lifetime
  BY <1>2, <1>3, <1>4, ClockConstants
<1>6. ~(now - sentAt[r] >= Lifetime)
  BY <1>2, <1>4, <1>5, ClockConstants
<1>7. transactions[r] = None => handled[r] = 0
  BY <1>6 DEF TimingInv, EntriesOutliveCopies
<1> QED  BY <1>2, <1>3, <1>4, <1>7

\* A request that is handled as new was not handled before, and has an entry.
LEMMA HandleKeepsTiming ==
  ASSUME TypeOK, TimingInv, NEW r \in Request, NEW code \in Final,
         Arrives(r), transactions[r] = None, Handle(r, code)
  PROVE  TimingInv'
<1>1. handled[r] = 0 /\ sentAt[r] # None /\ sentAt[r] <= now
  BY NewIsUnhandled
<1>2. /\ Answered(r, code) # None /\ Answered(r, code).lastActive = now
      /\ now \in Time /\ now \in Nat
  BY AnsweredIsEntry, ClockConstants DEF TypeOK
<1>3. /\ transactions' = [transactions EXCEPT ![r] = Answered(r, code)]
      /\ net' = net \cup ResponsesTo(r, code)
      /\ handled' = [handled EXCEPT ![r] = @ + 1]
      /\ UNCHANGED <<now, sentAt, got>>
  BY DEF Handle, clientVars
<1>4. /\ transactions'[r] # None /\ transactions'[r].lastActive = now
      /\ \A q \in Request : q # r => transactions'[q] = transactions[q]
  BY <1>2, <1>3 DEF TypeOK
<1>5. handled'[r] = 1 /\ \A q \in Request : q # r => handled'[q] = handled[q]
  BY <1>1, <1>3 DEF TypeOK
<1>6. \A m \in ResponsesTo(r, code) : m.kind = "response" /\ m.of = r /\ m.at = now
  BY DEF ResponsesTo, ResponseTo
<1>7. CopiesAreYoung'
  <2> SUFFICES ASSUME NEW m \in net'
      PROVE  /\ m.kind = "request" =>
                  /\ sentAt[m.of] # None
                  /\ sentAt[m.of] <= m.at /\ m.at - sentAt[m.of] < Timeout * TicksPerSecond
             /\ m.at <= now /\ now - m.at <= MaxDelay
    BY <1>3 DEF CopiesAreYoung
  <2>1. CASE m \in net
    BY <2>1 DEF TimingInv, CopiesAreYoung
  <2>2. CASE m \in ResponsesTo(r, code)
    BY <1>2, <1>6, <2>2, ClockConstants
  <2> QED  BY <1>3, <2>1, <2>2
<1>8. EntriesAreLater'
  BY <1>1, <1>2, <1>3, <1>4 DEF TimingInv, EntriesAreLater
<1>9. EntriesOutliveCopies'
  BY <1>3, <1>4, <1>5 DEF TimingInv, EntriesOutliveCopies
<1>10. AnswersAreFromHandling'
  BY <1>3, <1>4, <1>5, <1>6 DEF TimingInv, AnswersAreFromHandling
<1>11. \A q \in Request : handled'[q] # 0 => sentAt'[q] # None
  BY <1>1, <1>3, <1>5 DEF TimingInv
<1>12. AtMostOnce'
  BY <1>5 DEF TimingInv, AtMostOnce
<1>13. SentBefore'
  BY <1>3 DEF TimingInv, SentBefore
<1> QED  BY <1>13, <1>7, <1>8, <1>9, <1>10, <1>11, <1>12 DEF TimingInv

\* A datagram of this moment that is no request leaves the copies as they are.
LEMMA CopiesKept ==
  ASSUME TypeOK, CopiesAreYoung, UNCHANGED <<now, sentAt>>,
         \A m \in net' : m \in net \/ (m.kind # "request" /\ m.at = now)
  PROVE  CopiesAreYoung'
<1>1. now \in Nat
  BY ClockConstants DEF TypeOK
<1> QED  BY <1>1, ClockConstants DEF CopiesAreYoung

\* Every step keeps the timing.
LEMMA SipStepKeepsTiming ==
  ASSUME TypeOK, TimingInv, SipStep
  PROVE  TimingInv'
<1>0. now \in Nat /\ now \in Time
  BY ClockConstants DEF TypeOK
<1>1. ASSUME NEW r \in Request, Send(r)  PROVE TimingInv'
  <2>1. /\ sentAt[r] = None
        /\ sentAt' = [sentAt EXCEPT ![r] = now]
        /\ net' = net \cup {RequestOf(r)}
        /\ UNCHANGED <<now, transactions, handled, got>>
    BY <1>1 DEF Send, gatewayVars
  <2>2. sentAt'[r] = now /\ now # None
        /\ \A q \in Request : q # r => sentAt'[q] = sentAt[q]
    BY <1>0, <2>1, NoneAssumption DEF TypeOK
  <2>3. CopiesAreYoung'
    <3> SUFFICES ASSUME NEW m \in net'
        PROVE  /\ m.kind = "request" =>
                    /\ sentAt'[m.of] # None
                    /\ sentAt'[m.of] <= m.at
                    /\ m.at - sentAt'[m.of] < Timeout * TicksPerSecond
               /\ m.at <= now /\ now - m.at <= MaxDelay
      BY <2>1 DEF CopiesAreYoung
    <3>1. CASE m = RequestOf(r)
      <4>1. m.at = now /\ m.of = r
        BY <3>1 DEF RequestOf
      <4> QED  BY <1>0, <2>2, <4>1, ClockConstants
    <3>2. CASE m \in net
      <4>1. m.of \in Request /\ (m.kind = "request" => m.of # r)
        BY <2>1, <3>2, DatagramParts DEF TypeOK, TimingInv, CopiesAreYoung
      <4> QED  BY <2>2, <3>2, <4>1 DEF TimingInv, CopiesAreYoung
    <3> QED  BY <2>1, <3>1, <3>2
  <2>4. EntriesAreLater' /\ EntriesOutliveCopies'
    BY <2>1, <2>2 DEF TimingInv, EntriesAreLater, EntriesOutliveCopies
  <2>5. \A m \in net' : m.kind = "response" => m \in net
    BY <2>1 DEF RequestOf
  <2>6. AnswersAreFromHandling'
    BY <2>1, <2>5 DEF TimingInv, AnswersAreFromHandling
  <2>7. \A q \in Request : handled'[q] # 0 => sentAt'[q] # None
    BY <2>1, <2>2 DEF TimingInv
  <2>8. SentBefore'
    BY <1>0, <2>1, <2>2 DEF TimingInv, SentBefore
  <2> QED  BY <2>1, <2>3, <2>4, <2>6, <2>7, <2>8 DEF TimingInv, AtMostOnce
<1>2. ASSUME NEW r \in Request, Retransmit(r)  PROVE TimingInv'
  <2>1. /\ sentAt[r] # None
        /\ now - sentAt[r] < Timeout * TicksPerSecond
        /\ net' = net \cup {RequestOf(r)}
        /\ UNCHANGED <<now, transactions, handled, sentAt, got>>
    BY <1>2 DEF Retransmit, gatewayVars, clientVars
  <2>2. sentAt[r] <= now
    BY <2>1 DEF TimingInv, SentBefore
  <2>3. CopiesAreYoung'
    <3> SUFFICES ASSUME NEW m \in net'
        PROVE  /\ m.kind = "request" =>
                    /\ sentAt[m.of] # None
                    /\ sentAt[m.of] <= m.at
                    /\ m.at - sentAt[m.of] < Timeout * TicksPerSecond
               /\ m.at <= now /\ now - m.at <= MaxDelay
      BY <2>1 DEF CopiesAreYoung
    <3>1. CASE m = RequestOf(r)
      <4>1. m.at = now /\ m.of = r
        BY <3>1 DEF RequestOf
      <4> QED  BY <1>0, <2>1, <2>2, <4>1, ClockConstants
    <3>2. CASE m \in net
      BY <3>2 DEF TimingInv, CopiesAreYoung
    <3> QED  BY <2>1, <3>1, <3>2
  <2>4. \A m \in net' : m.kind = "response" => m \in net
    BY <2>1 DEF RequestOf
  <2> QED
    BY <2>1, <2>3, <2>4
    DEF TimingInv, EntriesAreLater, EntriesOutliveCopies, AnswersAreFromHandling,
        SentBefore, AtMostOnce
<1>3. ASSUME NEW r \in Request, HandleAck(r)  PROVE TimingInv'
  <2>1. /\ transactions[r] # None /\ transactions'[r] # None
        /\ transactions'[r].lastActive = now
        /\ \A q \in Request : q # r => transactions'[q] = transactions[q]
    BY <1>3, AckedEntry
  <2>2. UNCHANGED <<now, handled, net, sentAt, got>>
    BY <1>3 DEF HandleAck, clientVars
  <2>3. transactions[r].lastActive \in Nat /\ sentAt[r] \in Nat
    BY <2>1, TableTypes, ClockConstants DEF TimingInv, EntriesAreLater
  <2>4. sentAt[r] # None /\ sentAt[r] <= now
    BY <1>0, <2>1, <2>3 DEF TimingInv, EntriesAreLater
  <2>5. EntriesAreLater'
    BY <1>0, <2>1, <2>2, <2>4 DEF TimingInv, EntriesAreLater
  <2>6. EntriesOutliveCopies' /\ AnswersAreFromHandling'
    BY <2>1, <2>2 DEF TimingInv, EntriesOutliveCopies, AnswersAreFromHandling
  <2> QED  BY <2>2, <2>5, <2>6 DEF TimingInv, CopiesAreYoung, SentBefore, AtMostOnce
<1>4. ASSUME NEW r \in Request, HandleKnown(r)  PROVE TimingInv'
  <2>1. /\ transactions[r] # None
        /\ net' \subseteq net \cup {ResponseTo(r, transactions[r].last)}
        /\ UNCHANGED <<now, transactions, handled, sentAt, got>>
    BY <1>4 DEF HandleKnown, gatewayVars, clientVars
  <2>2. \A m \in net' : m \in net \/ (m.kind = "response" /\ m.at = now /\ m.of = r)
    BY <2>1 DEF ResponseTo
  <2>3. CopiesAreYoung'
    BY <2>1, <2>2, CopiesKept DEF TimingInv
  <2>4. AnswersAreFromHandling'
    BY <2>1, <2>2 DEF TimingInv, AnswersAreFromHandling
  <2> QED
    BY <2>1, <2>3, <2>4 DEF TimingInv, EntriesAreLater, EntriesOutliveCopies, SentBefore, AtMostOnce
<1>5. ASSUME NEW r \in Request, HandleHangup(r) \/ HandleOther(r)  PROVE TimingInv'
  <2>1. 200 \in Final /\ Arrives(r) /\ transactions[r] = None /\ Handle(r, 200)
    BY <1>5 DEF HandleHangup, HandleOther, Final, Code
  <2> QED  BY <2>1, HandleKeepsTiming
<1>6. ASSUME NEW r \in Request, NEW code \in Final, HandleInvite(r, code)
      PROVE  TimingInv'
  <2>1. Arrives(r) /\ transactions[r] = None /\ Handle(r, code)
    BY <1>6 DEF HandleInvite
  <2> QED  BY <2>1, HandleKeepsTiming
<1>7. ASSUME NEW m \in net, ReceiveAnswer(m)  PROVE TimingInv'
  <2>1. /\ m.kind = "response"
        /\ got' = [got EXCEPT ![m.of] = IF @ \in Final THEN @ ELSE m.code]
        /\ net' \subseteq net \cup {AckOf(m.of)}
        /\ UNCHANGED <<now, transactions, handled, sentAt>>
    BY <1>7 DEF ReceiveAnswer, gatewayVars
  <2>2. m.of \in Request /\ handled[m.of] # 0
    BY <2>1, DatagramParts DEF TypeOK, TimingInv, AnswersAreFromHandling
  <2>3. \A q \in Request : q # m.of => got'[q] = got[q]
    BY <2>1 DEF TypeOK
  <2>4. \A n \in net' : n \in net \/ (n.kind = "ack" /\ n.at = now)
    BY <2>1 DEF AckOf
  <2>5. CopiesAreYoung'
    BY <2>1, <2>4, CopiesKept DEF TimingInv
  <2>6. AnswersAreFromHandling'
    BY <2>1, <2>2, <2>3, <2>4 DEF TimingInv, AnswersAreFromHandling
  <2> QED
    BY <2>1, <2>5, <2>6 DEF TimingInv, EntriesAreLater, EntriesOutliveCopies, SentBefore, AtMostOnce
<1>8. ASSUME NEW m \in net, Lose(m)  PROVE TimingInv'
  <2>1. net' \subseteq net /\ UNCHANGED <<now, transactions, handled, sentAt, got>>
    BY <1>8 DEF Lose, gatewayVars, clientVars
  <2> QED
    BY <2>1
    DEF TimingInv, CopiesAreYoung, EntriesAreLater, EntriesOutliveCopies,
        AnswersAreFromHandling, SentBefore, AtMostOnce
<1>9. CASE CleanupTransactions
  <2>1. /\ UNCHANGED <<now, handled, net, sentAt, got>>
        /\ transactions' = [r \in Request |->
             IF transactions[r] # None /\ Expired(transactions[r])
               THEN None ELSE transactions[r]]
    BY <1>9 DEF CleanupTransactions, clientVars
  <2>2. \A r \in Request : transactions'[r] # None => transactions'[r] = transactions[r]
    BY <2>1
  <2>3. EntriesOutliveCopies'
    <3> SUFFICES ASSUME NEW r \in Request, handled[r] # 0, transactions'[r] = None
                 PROVE  sentAt[r] # None /\ now - sentAt[r] >= Lifetime
      BY <2>1 DEF EntriesOutliveCopies
    <3>1. CASE transactions[r] = None
      BY <3>1 DEF TimingInv, EntriesOutliveCopies
    <3>2. CASE transactions[r] # None
      <4>1. Expired(transactions[r])
        BY <2>1, <3>2
      <4>2. transactions[r].lastActive \in Nat /\ transactions[r].lastActive <= now
            /\ sentAt[r] # None /\ sentAt[r] <= transactions[r].lastActive
            /\ sentAt[r] \in Nat
        BY <3>2, TableTypes, ClockConstants DEF TimingInv, EntriesAreLater
      <4>3. now - transactions[r].lastActive >= Lifetime
        BY <1>0, <4>1, <4>2, ExpiredIsOld
      <4> QED  BY <1>0, <4>2, <4>3, ClockConstants
    <3> QED  BY <3>1, <3>2
  <2> QED
    BY <2>1, <2>2, <2>3
    DEF TimingInv, CopiesAreYoung, EntriesAreLater, AnswersAreFromHandling, SentBefore, AtMostOnce
<1>10. CASE Tick
  <2>1. /\ now' = now + 1
        /\ net' = {m \in net : now' - m.at <= MaxDelay}
        /\ UNCHANGED <<transactions, handled, sentAt, got>>
    BY <1>10 DEF Tick, gatewayVars, clientVars
  <2>2. CopiesAreYoung'
    <3> SUFFICES ASSUME NEW m \in net'
        PROVE  /\ m.kind = "request" =>
                    /\ sentAt[m.of] # None
                    /\ sentAt[m.of] <= m.at
                    /\ m.at - sentAt[m.of] < Timeout * TicksPerSecond
               /\ m.at <= now' /\ now' - m.at <= MaxDelay
      BY <2>1 DEF CopiesAreYoung
    <3>1. m \in net /\ now' - m.at <= MaxDelay
      BY <2>1
    <3>2. m.at \in Nat
      BY <3>1, DatagramParts, ClockConstants DEF TypeOK
    <3>3. m.at <= now /\ (m.kind = "request" =>
                    /\ sentAt[m.of] # None
                    /\ sentAt[m.of] <= m.at
                    /\ m.at - sentAt[m.of] < Timeout * TicksPerSecond)
      BY <3>1 DEF TimingInv, CopiesAreYoung
    <3>4. m.at <= now'
      BY <1>0, <2>1, <3>2, <3>3
    <3> QED  BY <3>1, <3>3, <3>4
  <2>3. EntriesAreLater'
    <3> SUFFICES ASSUME NEW r \in Request, transactions[r] # None
        PROVE  /\ sentAt[r] # None
               /\ sentAt[r] <= transactions[r].lastActive
               /\ transactions[r].lastActive <= now'
      BY <2>1 DEF EntriesAreLater
    <3>1. transactions[r].lastActive \in Nat
      BY TableTypes, ClockConstants
    <3> QED  BY <1>0, <2>1, <3>1 DEF TimingInv, EntriesAreLater
  <2>4. EntriesOutliveCopies'
    <3> SUFFICES ASSUME NEW r \in Request, handled[r] # 0, transactions[r] = None
                 PROVE  sentAt[r] # None /\ now' - sentAt[r] >= Lifetime
      BY <2>1 DEF EntriesOutliveCopies
    <3>1. sentAt[r] # None /\ now - sentAt[r] >= Lifetime
      BY DEF TimingInv, EntriesOutliveCopies
    <3>2. sentAt[r] \in Nat
      BY <3>1, TableTypes, ClockConstants
    <3> QED  BY <1>0, <2>1, <3>1, <3>2, ClockConstants
  <2>5. SentBefore'
    <3> SUFFICES ASSUME NEW r \in Request, sentAt[r] # None
                 PROVE  sentAt[r] <= now'
      BY <2>1 DEF SentBefore
    <3>1. sentAt[r] \in Nat /\ sentAt[r] <= now
      BY TableTypes, ClockConstants DEF TimingInv, SentBefore
    <3> QED  BY <1>0, <2>1, <3>1
  <2> QED
    BY <2>1, <2>2, <2>3, <2>4, <2>5 DEF TimingInv, AnswersAreFromHandling, AtMostOnce
<1>11. CASE CallsEnd
  BY <1>11
  DEF CallsEnd, TimingInv, CopiesAreYoung, EntriesAreLater, EntriesOutliveCopies,
      AnswersAreFromHandling, SentBefore, AtMostOnce
<1> QED
  BY <1>1, <1>2, <1>3, <1>4, <1>5, <1>6, <1>7, <1>8, <1>9, <1>10, <1>11 DEF SipStep

-----------------------------------------------------------------------------
(* Calls that end.                                                         *)

\* What a step can do to the counters, the calls and the clients: requests once
\* sent or handled stay so, and only a handler adds a call.
LEMMA StepFrame ==
  ASSUME TypeOK, SipStep
  PROVE  /\ \A r \in Request : handled[r] # 0 => handled'[r] # 0
         /\ \A r \in Request : sentAt[r] # None => sentAt'[r] # None
         /\ UNCHANGED sentAt \/ \E q \in Request : Send(q)
         /\ \/ UNCHANGED handled /\ calls' \subseteq calls
            \/ \E q \in Request : HandleHangup(q) \/ HandleOther(q)
            \/ \E q \in Request, code \in Final : HandleInvite(q, code)
<1>1. ASSUME NEW q \in Request, Send(q)
      PROVE  /\ UNCHANGED <<handled, calls>>
             /\ \A r \in Request : sentAt[r] # None => sentAt'[r] # None
  BY <1>1 DEF Send, gatewayVars, TypeOK
<1>2. ASSUME NEW q \in Request, NEW code, Handle(q, code)
      PROVE  /\ UNCHANGED sentAt
             /\ \A r \in Request : handled[r] # 0 => handled'[r] # 0
  BY <1>2 DEF Handle, clientVars, TypeOK
<1>3. ASSUME NEW q \in Request, HandleHangup(q) \/ HandleOther(q)
      PROVE  /\ UNCHANGED sentAt
             /\ \A r \in Request : handled[r] # 0 => handled'[r] # 0
  BY <1>2, <1>3 DEF HandleHangup, HandleOther
<1>4. ASSUME NEW q \in Request, NEW code \in Final, HandleInvite(q, code)
      PROVE  /\ UNCHANGED sentAt
             /\ \A r \in Request : handled[r] # 0 => handled'[r] # 0
  BY <1>2, <1>4 DEF HandleInvite
<1>5. ASSUME NEW q \in Request, Retransmit(q) \/ HandleAck(q) \/ HandleKnown(q)
      PROVE  UNCHANGED <<sentAt, handled, calls>>
  BY <1>5 DEF Retransmit, HandleAck, HandleKnown, gatewayVars, clientVars
<1>6. ASSUME NEW m \in net, ReceiveAnswer(m) \/ Lose(m)
      PROVE  UNCHANGED <<sentAt, handled, calls>>
  BY <1>6 DEF ReceiveAnswer, Lose, gatewayVars, clientVars
<1>7. ASSUME CleanupTransactions \/ Tick \/ CallsEnd
      PROVE  UNCHANGED <<sentAt, handled>> /\ calls' \subseteq calls
  BY <1>7 DEF CleanupTransactions, Tick, CallsEnd, gatewayVars, clientVars
<1> QED  BY <1>1, <1>3, <1>4, <1>5, <1>6, <1>7 DEF SipStep

\* A request that may hang up a call follows the answer to an INVITE.
LEMMA SipStepKeepsHangups ==
  ASSUME TypeOK, TimingInv, HangupFollowsInvite, SipStep
  PROVE  HangupFollowsInvite'
<1> SUFFICES ASSUME NEW r \in Request, Method[r] \in {"BYE", "CANCEL"}, sentAt'[r] # None
             PROVE  \E i \in Invites(CallOf[r]) : handled'[i] # 0
  BY DEF HangupFollowsInvite, Invites
<1>1. Invites(CallOf[r]) \subseteq Request
  BY DEF Invites
<1>2. CASE sentAt[r] # None
  BY <1>1, <1>2, StepFrame DEF HangupFollowsInvite
<1>3. CASE sentAt[r] = None
  <2>1. Send(r)
    <3>1. PICK q \in Request : Send(q)
      BY <1>3, StepFrame
    <3>2. q = r
      BY <1>3, <3>1 DEF Send, TypeOK
    <3> QED  BY <3>1, <3>2
  <2>2. \E i \in Invites(CallOf[r]) : got[i] = 200 \/ got[i] = 100
    BY <2>1 DEF Send, MaySend
  <2>3. 200 # None /\ 100 # None
    BY NoneAssumption DEF Code
  <2>4. \E i \in Invites(CallOf[r]) : handled[i] # 0
    BY <1>1, <2>2, <2>3 DEF TimingInv, AnswersAreFromHandling
  <2> QED  BY <1>1, <2>4, StepFrame
<1> QED  BY <1>2, <1>3

\* What a re-INVITE is does not change once it is sent.
LEMMA ReinvitedStays ==
  ASSUME TypeOK, SipStep, NEW c, Reinvited(c)
  PROVE  Reinvited(c)'
<1>1. PICK i \in Invites(c), j \in Invites(c) :
        i # j /\ sentAt[i] # None /\ sentAt[j] # None
  BY DEF Reinvited
<1>2. sentAt'[i] # None /\ sentAt'[j] # None
  BY <1>1, StepFrame DEF Invites
<1> QED  BY <1>1, <1>2 DEF Reinvited, Invites

\* No INVITE sets a call up again that has been hung up.
LEMMA SipStepKeepsEnds ==
  ASSUME TypeOK, TimingInv, HangupFollowsInvite, HungUpCallsAreGone, SipStep
  PROVE  HungUpCallsAreGone'
<1> SUFFICES ASSUME NEW r \in Request, Method[r] \in {"BYE", "CANCEL"},
                    handled'[r] # 0, ~Reinvited(CallOf[r])'
             PROVE  CallOf[r] \notin calls'
  BY DEF HungUpCallsAreGone, Reinvited, Invites
<1>1. ~Reinvited(CallOf[r])
  BY ReinvitedStays
<1>2. handled[r] # 0 => CallOf[r] \notin calls
  BY <1>1 DEF HungUpCallsAreGone
<1>3. CASE UNCHANGED handled /\ calls' \subseteq calls
  BY <1>2, <1>3
<1>4. ASSUME NEW q \in Request, HandleHangup(q)
      PROVE  CallOf[r] \notin calls'
  <2>1. calls' = calls \ {CallOf[q]} /\ handled' = [handled EXCEPT ![q] = @ + 1]
    BY <1>4 DEF HandleHangup, Handle
  <2>2. q # r => handled'[r] = handled[r]
    BY <2>1 DEF TypeOK
  <2> QED  BY <1>2, <2>1, <2>2
<1>5. ASSUME NEW q \in Request, HandleOther(q)
      PROVE  CallOf[r] \notin calls'
  <2>1. q # r /\ calls' = calls /\ handled' = [handled EXCEPT ![q] = @ + 1]
    BY <1>5 DEF HandleOther, Handle
  <2>2. handled'[r] = handled[r]
    BY <2>1 DEF TypeOK
  <2> QED  BY <1>2, <2>1, <2>2
<1>6. ASSUME NEW q \in Request, NEW code \in Final, HandleInvite(q, code)
      PROVE  CallOf[r] \notin calls'
  <2>1. /\ Arrives(q) /\ transactions[q] = None /\ Method[q] = "INVITE" /\ q # r
        /\ handled' = [handled EXCEPT ![q] = @ + 1]
    BY <1>6 DEF HandleInvite, Handle
  <2>2. handled[r] # 0
    BY <2>1 DEF TypeOK
  <2>3. code \in {200, 488, 486}
    BY <1>6 DEF HandleInvite
  <2>4. calls' \subseteq calls \cup {CallOf[q]}
    BY <1>6, <2>3 DEF HandleInvite
  <2>5. handled[q] = 0 /\ sentAt[q] # None
    BY <2>1, NewIsUnhandled
  <2>6. PICK i \in Invites(CallOf[r]) : handled[i] # 0
    BY <2>2 DEF TimingInv, HangupFollowsInvite
  <2>7. sentAt[i] # None /\ i # q
    BY <2>5, <2>6 DEF TimingInv, Invites
  <2>8. CallOf[q] # CallOf[r]
    BY <1>1, <2>1, <2>5, <2>6, <2>7 DEF Reinvited, Invites
  <2> QED  BY <1>2, <2>2, <2>4, <2>8
<1> QED  BY <1>3, <1>4, <1>5, <1>6, StepFrame

\* The invariant of the transactions is inductive, for the gateway alone and for
\* the process around it.
LEMMA SipStepKeepsInv ==
  ASSUME SipInv, SipStep
  PROVE  SipInv'
BY SipStepKeepsTypes, SipStepKeepsTiming, SipStepKeepsHangups, SipStepKeepsEnds DEF SipInv

\* It holds of an empty table.
LEMMA InitialSip == Init => SipInv
<1> SUFFICES ASSUME Init  PROVE SipInv
  OBVIOUS
<1>1. TypeOK
  BY ClockAssumption DEF Init, TypeOK, Time
<1>2. TimingInv
  BY DEF Init, TimingInv, SentBefore, CopiesAreYoung, EntriesAreLater,
         EntriesOutliveCopies, AnswersAreFromHandling, AtMostOnce
<1>3. HangupFollowsInvite /\ HungUpCallsAreGone
  BY DEF Init, HangupFollowsInvite, HungUpCallsAreGone
<1> QED  BY <1>1, <1>2, <1>3 DEF SipInv

\* A step of the gateway alone is one of these.
LEMMA NextIsSipStep == Next => SipStep
BY DEF Next, SipStep

\* Nothing happens to it when nothing happens.
LEMMA StutterKeepsInv ==
  ASSUME SipInv, UNCHANGED vars
  PROVE  SipInv'
<1>1. CallsEnd
  BY DEF CallsEnd, vars
<1> QED  BY <1>1, SipStepKeepsInv DEF SipStep

\* The invariant holds throughout.
LEMMA SipInvariant == Spec => []SipInv
<1>1. SipInv /\ [Next]_vars => SipInv'
  BY NextIsSipStep, SipStepKeepsInv, StutterKeepsInv
<1> QED  BY <1>1, InitialSip, PTL DEF Spec

\* Table, network, clients and clock stay within their types.
THEOREM SipTypes == Spec => []TypeOK
<1>1. SipInv => TypeOK
  BY DEF SipInv
<1> QED  BY <1>1, SipInvariant, PTL

\* The call handling runs at most once for a request, for every timer and every
\* delay up to a second.
THEOREM RequestsAreHandledOnce == Spec => []AtMostOnce
<1>1. SipInv => AtMostOnce
  BY DEF SipInv, TimingInv
<1> QED  BY <1>1, SipInvariant, PTL

\* What has been heard of a request is from its handling.
LEMMA FinalMeansHandled ==
  ASSUME TimingInv, NEW r \in Request, got[r] \in Final
  PROVE  handled[r] # 0
<1>1. got[r] # None
  BY NoneAssumption DEF Final
<1> QED  BY <1>1 DEF TimingInv, AnswersAreFromHandling

\* A late copy of an INVITE does not set up again a call that has been ended.
THEOREM EndedCallsAreGone == Spec => []EndedCallsStayEnded
<1>1. ASSUME SipInv  PROVE EndedCallsStayEnded
  BY <1>1, FinalMeansHandled DEF SipInv, HungUpCallsAreGone, EndedCallsStayEnded
<1> QED  BY <1>1, SipInvariant, PTL

-----------------------------------------------------------------------------
(* Calls that stay.                                                        *)

\* A call whose end has begun does not go back.
LEMMA EndStays ==
  ASSUME TypeOK, SipStep, NEW c, EndsOnPurpose(c)
  PROVE  EndsOnPurpose(c)'
<1>1. ASSUME NEW method, Sent(method, c)  PROVE Sent(method, c)'
  BY <1>1, StepFrame DEF Sent
<1> QED  BY <1>1, ReinvitedStays DEF EndsOnPurpose

\* When a request is handled nothing is said of another one.
LEMMA HandleSpeaksOfOne ==
  ASSUME TypeOK, NEW q \in Request, NEW code \in Final, Handle(q, code),
         NEW r \in Request, r # q, Accepts(r)'
  PROVE  Accepts(r)
<1>1. got' = got /\ transactions'[r] = transactions[r]
  BY DEF Handle, clientVars, TypeOK
<1>2. \A m \in net' : m \in net \/ m.of = q
  BY DEF Handle, ResponsesTo, ResponseTo
<1> QED  BY <1>1, <1>2 DEF Accepts

\* A request that is refused is not accepted.
LEMMA RefusalIsNone ==
  ASSUME TypeOK, TimingInv, NEW r \in Request, NEW code \in Final, code # 200,
         Arrives(r), transactions[r] = None, Handle(r, code)
  PROVE  ~Accepts(r)'
<1>1. handled[r] = 0
  BY NewIsUnhandled
<1>2. got[r] = None /\ \A m \in net : m.kind = "response" => m.of # r
  BY <1>1 DEF TimingInv, AnswersAreFromHandling
<1>3. got'[r] # 200
  BY <1>2, NoneAssumption DEF Handle, clientVars, Code
<1>4. transactions'[r] = Answered(r, code) /\ Answered(r, code).last = code
  BY AnsweredIsEntry DEF Handle, TypeOK
<1>5. \A m \in net' : m \in net \/ m.code \in {code, 100}
  BY DEF Handle, ResponsesTo, ResponseTo
<1> QED  BY <1>2, <1>3, <1>4, <1>5 DEF Accepts

\* Apart from the handlers nobody accepts a request: an answer is passed on, sent
\* again, lost or forgotten.
LEMMA OthersPassAnswersOn ==
  ASSUME TypeOK, NEW r \in Request, Accepts(r)',
         \/ \E q \in Request : Send(q) \/ Retransmit(q) \/ HandleAck(q) \/ HandleKnown(q)
         \/ \E m \in net : ReceiveAnswer(m)
         \/ CleanupTransactions \/ Tick \/ UNCHANGED vars
  PROVE  Accepts(r) /\ UNCHANGED calls
<1>1. ASSUME NEW q \in Request, Send(q) \/ Retransmit(q)
      PROVE  Accepts(r) /\ UNCHANGED calls
  <2>1. UNCHANGED <<transactions, calls, got>> /\ net' = net \cup {RequestOf(q)}
    BY <1>1 DEF Send, Retransmit, gatewayVars, clientVars
  <2>2. RequestOf(q).kind # "response"
    BY DEF RequestOf
  <2> QED  BY <2>1, <2>2 DEF Accepts
<1>2. ASSUME NEW q \in Request, HandleAck(q)
      PROVE  Accepts(r) /\ UNCHANGED calls
  <2>1. UNCHANGED <<calls, net, got>>
    BY <1>2 DEF HandleAck, clientVars
  <2>2. transactions'[r] # None =>
          transactions[r] # None /\ transactions'[r].last = transactions[r].last
    BY <1>2, AckedEntry
  <2> QED  BY <2>1, <2>2 DEF Accepts
<1>3. ASSUME NEW q \in Request, HandleKnown(q)
      PROVE  Accepts(r) /\ UNCHANGED calls
  <2>1. /\ UNCHANGED <<transactions, calls, got>> /\ transactions[q] # None
        /\ net' \subseteq net \cup {ResponseTo(q, transactions[q].last)}
    BY <1>3 DEF HandleKnown, gatewayVars, clientVars
  <2>2. \A m \in net' : m \in net \/ (m.of = q /\ m.code = transactions[q].last)
    BY <2>1 DEF ResponseTo
  <2> QED  BY <2>1, <2>2 DEF Accepts
<1>4. ASSUME NEW m \in net, ReceiveAnswer(m)
      PROVE  Accepts(r) /\ UNCHANGED calls
  <2>1. /\ UNCHANGED <<transactions, calls>> /\ m.kind = "response"
        /\ got' = [got EXCEPT ![m.of] = IF @ \in Final THEN @ ELSE m.code]
        /\ net' \subseteq net \cup {AckOf(m.of)}
    BY <1>4 DEF ReceiveAnswer, gatewayVars
  <2>2. AckOf(m.of).kind # "response"
    BY DEF AckOf
  <2>3. got'[r] = got[r] \/ (m.of = r /\ got'[r] = m.code)
    BY <2>1 DEF TypeOK
  <2> QED  BY <2>1, <2>2, <2>3 DEF Accepts
<1>5. ASSUME CleanupTransactions
      PROVE  Accepts(r) /\ UNCHANGED calls
  <2>1. /\ UNCHANGED <<calls, net, got>>
        /\ transactions'[r] # None => transactions'[r] = transactions[r]
    BY <1>5 DEF CleanupTransactions, clientVars
  <2> QED  BY <2>1 DEF Accepts
<1>6. ASSUME Tick
      PROVE  Accepts(r) /\ UNCHANGED calls
  <2>1. UNCHANGED <<transactions, calls, got>> /\ net' \subseteq net
    BY <1>6 DEF Tick, gatewayVars, clientVars
  <2> QED  BY <2>1 DEF Accepts
<1>7. ASSUME UNCHANGED vars
      PROVE  Accepts(r) /\ UNCHANGED calls
  BY <1>7 DEF vars, Accepts
<1> QED  BY <1>1, <1>2, <1>3, <1>4, <1>5, <1>6, <1>7

\* No step of the gateway takes an accepted call away before its end has begun.
LEMMA NextKeepsAccepted ==
  ASSUME SipInv, AcceptedCallsAreKept, [Next]_vars
  PROVE  AcceptedCallsAreKept'
<1> SUFFICES ASSUME NEW r \in Request, Method[r] = "INVITE", Accepts(r)',
                    ~EndsOnPurpose(CallOf[r])'
             PROVE  CallOf[r] \in calls'
  BY DEF AcceptedCallsAreKept, EndsOnPurpose, Reinvited, Invites, Sent
<1>1. TypeOK /\ TimingInv
  BY DEF SipInv
<1>2. SipStep
  BY NextIsSipStep DEF SipStep, CallsEnd, vars
<1>3. ~EndsOnPurpose(CallOf[r])
  BY <1>1, <1>2, EndStays
<1>4. Accepts(r) => CallOf[r] \in calls
  BY <1>3 DEF AcceptedCallsAreKept
<1>5. ASSUME NEW q \in Request, HandleHangup(q)
      PROVE  CallOf[r] \in calls'
  <2>1. /\ Arrives(q) /\ Method[q] \in {"BYE", "CANCEL"} /\ 200 \in Final
        /\ Handle(q, 200) /\ calls' = calls \ {CallOf[q]}
    BY <1>5 DEF HandleHangup, Final, Code
  <2>2. Accepts(r)
    BY <1>1, <2>1, HandleSpeaksOfOne
  <2>3. sentAt[q] # None
    BY <1>1, <2>1, NewIsUnhandled
  <2>4. CallOf[q] # CallOf[r]
    BY <1>3, <2>1, <2>3 DEF EndsOnPurpose, Sent
  <2> QED  BY <1>4, <2>1, <2>2, <2>4
<1>6. ASSUME NEW q \in Request, HandleOther(q)
      PROVE  CallOf[r] \in calls'
  <2>1. q # r /\ 200 \in Final /\ Handle(q, 200) /\ calls' = calls
    BY <1>6 DEF HandleOther, Final, Code
  <2> QED  BY <1>1, <1>4, <2>1, HandleSpeaksOfOne
<1>7. ASSUME NEW q \in Request, NEW code \in Final, HandleInvite(q, code)
      PROVE  CallOf[r] \in calls'
  <2>1. /\ Arrives(q) /\ transactions[q] = None /\ Method[q] = "INVITE"
        /\ Handle(q, code) /\ code \in {200, 488, 486}
        /\ calls' = CASE code = 200 -> calls \cup {CallOf[q]}
                      [] code = 488 -> calls \ {CallOf[q]}
                      [] code = 486 -> calls
    BY <1>7 DEF HandleInvite
  <2>2. CASE q = r
    <3>1. code = 200
      BY <1>1, <2>1, <2>2, RefusalIsNone
    <3> QED  BY <2>1, <2>2, <3>1
  <2>3. CASE q # r
    <3>1. Accepts(r)
      BY <1>1, <2>1, <2>3, HandleSpeaksOfOne
    <3>2. handled[r] # 0
      <4>1. 200 # None
        BY NoneAssumption DEF Code
      <4> QED  BY <1>1, <3>1, <4>1 DEF Accepts, TimingInv, AnswersAreFromHandling
    <3>3. sentAt[r] # None /\ sentAt[q] # None
      BY <1>1, <2>1, <3>2, NewIsUnhandled DEF TimingInv
    <3>4. CallOf[q] # CallOf[r]
      BY <1>3, <2>1, <2>3, <3>3 DEF EndsOnPurpose, Reinvited, Invites
    <3> QED  BY <1>4, <2>1, <3>1, <3>4
  <2> QED  BY <2>2, <2>3
<1>8. CASE \/ \E q \in Request :
                Send(q) \/ Retransmit(q) \/ HandleAck(q) \/ HandleKnown(q)
           \/ \E m \in net : ReceiveAnswer(m)
           \/ CleanupTransactions \/ Tick \/ UNCHANGED vars
  BY <1>1, <1>4, <1>8, OthersPassAnswersOn
<1> QED  BY <1>5, <1>6, <1>7, <1>8 DEF Next

\* A late copy of an INVITE does not refuse a call that has been answered.
THEOREM AnsweredCallsStay == Spec => []AnsweredCallsAreKept
<1>1. Init => AcceptedCallsAreKept
  <2>1. 200 # None
    BY NoneAssumption DEF Code
  <2> QED  BY <2>1 DEF Init, AcceptedCallsAreKept, Accepts
<1>2. Spec => []AcceptedCallsAreKept
  BY <1>1, NextKeepsAccepted, SipInvariant, PTL DEF Spec
<1>3. AcceptedCallsAreKept => AnsweredCallsAreKept
  BY DEF AcceptedCallsAreKept, Accepts, EndsOnPurpose, AnsweredCallsAreKept
<1> QED  BY <1>2, <1>3, PTL

-----------------------------------------------------------------------------
(* The process.                                                            *)

\* What the process does to requests and calls are steps of the gateway, or its
\* calls end.
LEMMA ProcessIsSipStep ==
  ASSUME TypeOK, ProcessNext
  PROVE  SipStep \/ UNCHANGED vars
<1>1. ASSUME NEW r \in Request, HandleRequest(r)  PROVE SipStep
  BY <1>1 DEF HandleRequest, SipStep
<1>2. CASE MainStep
  <2>1. CASE DestroyRegistry
    BY <2>1 DEF DestroyRegistry, SipStep, CallsEnd, clientVars
  <2>2. CASE CleanUp
    BY <2>2 DEF CleanUp, SipStep
  <2>3. ASSUME NEW r \in Request, PollRequest(r) \/ PollAck(r)  PROVE SipStep
    BY <1>1, <2>3 DEF PollRequest, PollAck, SipStep
  <2> QED
    BY <1>2, <2>1, <2>2, <2>3
    DEF MainStep, TestExit, PollEnds, LeaveRun, JoinConsole, JoinWorkers
<1>3. CASE ConsoleStep
  <2>1. CASE Command
    BY <2>1 DEF Command, SipStep, CallsEnd, clientVars
  <2> QED
    BY <1>3, <2>1 DEF ConsoleStep, ConsoleTest, ReadLine, ReadEnd, ExitCommand, Raise
<1>4. ASSUME NEW w \in Worker, WorkerStep(w)  PROVE UNCHANGED vars
  BY <1>4 DEF WorkerStep, WorkerReceives, WorkerHandles, WorkerEnds, WorkerAt
<1>5. CASE Signal \/ SignalInLogger \/ TypeLine \/ CloseInput \/ \E r \in Request : Deliver(r)
  BY <1>5 DEF Signal, SignalInLogger, TypeLine, CloseInput, Deliver
<1>6. CASE ClientStep \/ ProcessTick
  BY <1>6 DEF ClientStep, ProcessTick, SipStep
<1> QED  BY <1>2, <1>3, <1>4, <1>5, <1>6 DEF ProcessNext

\* The transactions of a process that may end at any moment keep their invariant.
LEMMA ProcessSipInvariant == ProcessSpec => []SipInv
<1>1. ProcessInit => SipInv
  BY InitialSip DEF ProcessInit
<1>2. SipInv /\ [ProcessNext]_allVars => SipInv'
  <2>1. ASSUME SipInv, ProcessNext  PROVE SipInv'
    BY <2>1, ProcessIsSipStep, SipStepKeepsInv, StutterKeepsInv DEF SipInv
  <2>2. ASSUME SipInv, UNCHANGED allVars  PROVE SipInv'
    BY <2>2, StutterKeepsInv DEF allVars
  <2> QED  BY <2>1, <2>2
<1> QED  BY <1>1, <1>2, PTL DEF ProcessSpec

\* A request is handled at most once, and an ended call stays ended, also while time
\* passes, the loop cleans up what has expired, the console cuts calls and the process
\* ends.
THEOREM ProcessHandlesOnce == ProcessSpec => [](AtMostOnce /\ EndedCallsStayEnded)
<1>1. ASSUME SipInv  PROVE AtMostOnce /\ EndedCallsStayEnded
  BY <1>1, FinalMeansHandled
  DEF SipInv, TimingInv, HungUpCallsAreGone, EndedCallsStayEnded
<1> QED  BY <1>1, ProcessSipInvariant, PTL

-----------------------------------------------------------------------------
(* Who ends a call.                                                        *)

\* A call that is registered has an INVITE that was handled.
CallsAreInvited == \A c \in calls : \E i \in Invites(c) : handled[i] # 0

\* Only an INVITE registers a call.
LEMMA SipStepKeepsInvited ==
  ASSUME TypeOK, CallsAreInvited, SipStep
  PROVE  CallsAreInvited'
<1> SUFFICES ASSUME NEW c \in calls'  PROVE \E i \in Invites(c) : handled'[i] # 0
  BY DEF CallsAreInvited, Invites
<1>1. ASSUME c \in calls  PROVE \E i \in Invites(c) : handled'[i] # 0
  <2>1. PICK i \in Invites(c) : handled[i] # 0
    BY <1>1 DEF CallsAreInvited
  <2>2. handled'[i] # 0
    BY <2>1, StepFrame DEF Invites
  <2> QED  BY <2>1, <2>2
<1>2. ASSUME NEW q \in Request, NEW code \in Final, HandleInvite(q, code), c \notin calls
      PROVE  \E i \in Invites(c) : handled'[i] # 0
  <2>1. /\ Method[q] = "INVITE" /\ code \in {200, 488, 486}
        /\ handled' = [handled EXCEPT ![q] = @ + 1]
    BY <1>2 DEF HandleInvite, Handle
  <2>2. calls' \subseteq calls \cup {CallOf[q]}
    BY <1>2, <2>1 DEF HandleInvite
  <2>3. q \in Invites(c)
    BY <1>2, <2>1, <2>2 DEF Invites
  <2>4. handled'[q] # 0
    BY <2>1 DEF TypeOK
  <2> QED  BY <2>3, <2>4
<1>3. ASSUME NEW q \in Request, HandleHangup(q) \/ HandleOther(q)
      PROVE  calls' \subseteq calls
  BY <1>3 DEF HandleHangup, HandleOther
<1> QED  BY <1>1, <1>2, <1>3, StepFrame

\* A handler that takes a call away has its BYE or CANCEL, or a second INVITE.
LEMMA HandlersEndOnPurpose ==
  ASSUME SipInv, CallsAreInvited, NEW r \in Request, HandleRequest(r),
         NEW c \in calls, c \notin calls'
  PROVE  EndsOnPurpose(c)
<1>1. TypeOK /\ TimingInv
  BY DEF SipInv
<1>2. CASE HandleHangup(r)
  <2>1. Arrives(r) /\ Method[r] \in {"BYE", "CANCEL"} /\ calls' = calls \ {CallOf[r]}
    BY <1>2 DEF HandleHangup
  <2>2. sentAt[r] # None /\ CallOf[r] = c
    BY <1>1, <2>1, NewIsUnhandled
  <2> QED  BY <2>1, <2>2 DEF Sent, EndsOnPurpose
<1>3. ASSUME NEW code \in Final, HandleInvite(r, code)
      PROVE  Reinvited(c)
  <2>1. /\ Arrives(r) /\ transactions[r] = None /\ Method[r] = "INVITE"
        /\ code \in {200, 488, 486}
    BY <1>3 DEF HandleInvite
  <2>2. calls \ {CallOf[r]} \subseteq calls'
    BY <1>3, <2>1 DEF HandleInvite
  <2>3. r \in Invites(c) /\ handled[r] = 0 /\ sentAt[r] # None
    BY <1>1, <2>1, <2>2, NewIsUnhandled DEF Invites
  <2>4. PICK i \in Invites(c) : handled[i] # 0
    BY DEF CallsAreInvited
  <2>5. i # r /\ sentAt[i] # None
    BY <1>1, <2>3, <2>4 DEF TimingInv, Invites
  <2> QED  BY <2>3, <2>4, <2>5 DEF Reinvited
<1>4. CASE HandleKnown(r) \/ HandleOther(r)
  BY <1>4 DEF HandleKnown, HandleOther, gatewayVars
<1> QED  BY <1>2, <1>3, <1>4 DEF HandleRequest, EndsOnPurpose

\* Nor does any other thread.
LEMMA ProcessEndsOnPurpose ==
  ASSUME SipInv, CallsAreInvited, ProcessNext
  PROVE  CallsEndOnPurpose
<1> SUFFICES ASSUME NEW c \in calls, c \notin calls', ~Command, ~DestroyRegistry
             PROVE  EndsOnPurpose(c)
  BY DEF CallsEndOnPurpose
<1>1. ASSUME NEW r \in Request, HandleRequest(r)
      PROVE  EndsOnPurpose(c)
  BY <1>1, HandlersEndOnPurpose
<1>2. ASSUME UNCHANGED calls
      PROVE  FALSE
  BY <1>2
<1>3. CASE MainStep
  <2>1. ASSUME NEW r \in Request, PollRequest(r) \/ PollAck(r)
        PROVE  HandleRequest(r) \/ UNCHANGED calls
    BY <2>1 DEF PollRequest, PollAck, HandleAck
  <2>2. CASE TestExit \/ PollEnds \/ CleanUp \/ LeaveRun \/ JoinConsole \/ JoinWorkers
    BY <2>2
    DEF TestExit, PollEnds, CleanUp, CleanupTransactions, LeaveRun, JoinConsole,
        JoinWorkers, vars, gatewayVars
  <2> QED  BY <1>1, <1>3, <2>1, <2>2 DEF MainStep
<1>4. CASE ConsoleStep
  BY <1>4 DEF ConsoleStep, ConsoleTest, ReadLine, ReadEnd, ExitCommand, Raise, vars,
              gatewayVars
<1>5. ASSUME NEW w \in Worker, WorkerStep(w)  PROVE UNCHANGED calls
  BY <1>5 DEF WorkerStep, WorkerReceives, WorkerHandles, WorkerEnds, WorkerAt, vars, gatewayVars
<1>6. CASE Signal \/ SignalInLogger \/ TypeLine \/ CloseInput \/ \E r \in Request : Deliver(r)
  BY <1>6 DEF Signal, SignalInLogger, TypeLine, CloseInput, Deliver, vars, gatewayVars
<1>7. CASE ClientStep \/ ProcessTick
  BY <1>7 DEF ClientStep, ProcessTick, Tick, Send, Retransmit, ReceiveAnswer, Lose,
              gatewayVars
<1> QED  BY <1>2, <1>3, <1>4, <1>5, <1>6, <1>7 DEF ProcessNext

\* For any number of requests and calls and for every timer, a call leaves the registry
\* only because its client has hung up, cancelled or invited again.
THEOREM OnlyClientsEndCalls == Spec => CallsEndForAReason
<1> DEFINE Purpose == \A c \in calls \ calls' : EndsOnPurpose(c)
<1>1. Init => CallsAreInvited
  BY DEF Init, CallsAreInvited
<1>2. SipInv /\ CallsAreInvited /\ [Next]_vars => CallsAreInvited'
  <2>1. ASSUME SipInv, CallsAreInvited, Next  PROVE CallsAreInvited'
    BY <2>1, NextIsSipStep, SipStepKeepsInvited DEF SipInv
  <2>2. ASSUME CallsAreInvited, UNCHANGED vars  PROVE CallsAreInvited'
    BY <2>2 DEF CallsAreInvited, Invites, vars, gatewayVars
  <2> QED  BY <2>1, <2>2
<1>3. SipInv /\ CallsAreInvited /\ [Next]_vars => [Purpose]_vars
  <2>1. ASSUME SipInv, CallsAreInvited, Next  PROVE Purpose
    <3> SUFFICES ASSUME NEW c \in calls, c \notin calls'  PROVE EndsOnPurpose(c)
      OBVIOUS
    <3>1. ASSUME NEW r \in Request, HandleRequest(r)  PROVE EndsOnPurpose(c)
      BY <2>1, <3>1, HandlersEndOnPurpose
    <3>2. \/ \E r \in Request : HandleRequest(r)
          \/ \E r \in Request : Send(r) \/ Retransmit(r) \/ HandleAck(r)
          \/ \E m \in net : ReceiveAnswer(m)
          \/ CleanupTransactions \/ Tick
      BY <2>1 DEF Next, HandleRequest
    <3>3. ASSUME ~\E r \in Request : HandleRequest(r)  PROVE UNCHANGED calls
      BY <3>2, <3>3
      DEF Send, Retransmit, HandleAck, ReceiveAnswer, CleanupTransactions, Tick,
          gatewayVars
    <3> QED  BY <3>1, <3>3
  <2> QED  BY <2>1
<1>4. Spec => [][Purpose]_vars
  BY <1>1, <1>2, <1>3, SipInvariant, PTL DEF Spec
<1> QED  BY <1>4 DEF CallsEndForAReason

\* However the threads interleave while time passes and the loop cleans up, a call leaves
\* the registry only because somebody wants it to: its client, the console, or main at
\* its end.
THEOREM CallsLeaveOnPurpose == ProcessSpec => [][CallsEndOnPurpose]_allVars
<1>1. ProcessInit => CallsAreInvited
  BY DEF ProcessInit, Init, CallsAreInvited
<1>2. SipInv /\ CallsAreInvited /\ [ProcessNext]_allVars => CallsAreInvited'
  <2>1. ASSUME SipInv, CallsAreInvited, ProcessNext  PROVE CallsAreInvited'
    <3>1. CASE SipStep
      BY <2>1, <3>1, SipStepKeepsInvited DEF SipInv
    <3>2. CASE UNCHANGED vars
      BY <2>1, <3>2 DEF CallsAreInvited, Invites, vars, gatewayVars
    <3> QED  BY <2>1, <3>1, <3>2, ProcessIsSipStep DEF SipInv
  <2>2. ASSUME CallsAreInvited, UNCHANGED allVars  PROVE CallsAreInvited'
    BY <2>2 DEF CallsAreInvited, Invites, allVars, vars, gatewayVars
  <2> QED  BY <2>1, <2>2
<1>3. SipInv /\ CallsAreInvited /\ [ProcessNext]_allVars => [CallsEndOnPurpose]_allVars
  BY ProcessEndsOnPurpose
<1> QED  BY <1>1, <1>2, <1>3, ProcessSipInvariant, PTL DEF ProcessSpec

-----------------------------------------------------------------------------
(* The threads.                                                            *)

\* What has been typed and not read.
LEMMA InputTypes ==
  ASSUME ThreadTypes
  PROVE  /\ stdin.typed \in Nat /\ stdin.closed \in BOOLEAN
         /\ stdin = [typed |-> stdin.typed, closed |-> stdin.closed]
         /\ stdin.typed <= MaxLines
BY DEF ThreadTypes, ThreadsOK

\* A copy that is in the receive buffer of the socket is not lost before it is read.
SocketInv == \A r \in socket : Arrives(r)

\* The network keeps what it has delivered.
LEMMA CopiesStay ==
  ASSUME NEW r, Arrives(r), net \subseteq net'
  PROVE  Arrives(r)'
BY DEF Arrives

\* Every step keeps the delivered copies.
LEMMA ProcessKeepsSocket ==
  ASSUME SocketInv, [ProcessNext]_allVars
  PROVE  SocketInv'
<1>1. ASSUME socket' \subseteq socket, net \subseteq net'  PROVE SocketInv'
  BY <1>1, CopiesStay DEF SocketInv
<1>2. ASSUME NEW r, NEW code, Handle(r, code)  PROVE net \subseteq net'
  BY <1>2 DEF Handle
<1>3. ASSUME NEW r \in Request, HandleRequest(r)  PROVE net \subseteq net'
  BY <1>2, <1>3 DEF HandleRequest, HandleKnown, HandleInvite, HandleHangup, HandleOther
<1>4. CASE MainStep
  <2>1. ASSUME NEW r \in Request, PollRequest(r)  PROVE SocketInv'
    BY <1>1, <1>3, <2>1 DEF PollRequest
  <2>2. ASSUME NEW r \in Request, PollAck(r)  PROVE SocketInv'
    BY <1>1, <2>2 DEF PollAck, HandleAck
  <2>3. CASE CleanUp
    BY <1>1, <2>3 DEF CleanUp, CleanupTransactions, vars
  <2>4. CASE DestroyRegistry
    BY <1>1, <2>4 DEF DestroyRegistry
  <2> QED
    BY <1>1, <1>4, <2>1, <2>2, <2>3, <2>4
    DEF MainStep, TestExit, PollEnds, LeaveRun, JoinConsole, JoinWorkers, vars
<1>5. CASE ConsoleStep
  BY <1>1, <1>5
  DEF ConsoleStep, ConsoleTest, ReadLine, ReadEnd, Command, ExitCommand, Raise,
      ConsoleAt, vars
<1>6. ASSUME NEW w \in Worker, WorkerStep(w)  PROVE SocketInv'
  BY <1>1, <1>6
  DEF WorkerStep, WorkerReceives, WorkerHandles, WorkerEnds, WorkerAt, vars
<1>7. CASE Signal \/ SignalInLogger \/ TypeLine \/ CloseInput
  BY <1>1, <1>7 DEF Signal, SignalInLogger, TypeLine, CloseInput, vars
<1>8. CASE ClientStep
  <2>1. socket' = socket
    BY <1>8 DEF ClientStep, processVars
  <2>2. ASSUME NEW r \in Request, Send(r) \/ Retransmit(r)  PROVE SocketInv'
    BY <1>1, <2>1, <2>2 DEF Send, Retransmit
  <2>3. ASSUME NEW m \in net, ReceiveAnswer(m)  PROVE SocketInv'
    BY <1>1, <2>1, <2>3 DEF ReceiveAnswer
  <2>4. ASSUME NEW m \in net, Lose(m), ~(m.kind = "request" /\ m.of \in socket)
        PROVE  SocketInv'
    BY <2>1, <2>4 DEF Lose, SocketInv, Arrives
  <2> QED  BY <1>8, <2>2, <2>3, <2>4 DEF ClientStep
<1>9. ASSUME NEW r \in Request, Deliver(r)  PROVE SocketInv'
  BY <1>9 DEF Deliver, SocketInv, Arrives, vars
<1>10. CASE ProcessTick
  BY <1>10 DEF ProcessTick, SocketInv, Arrives
<1>11. CASE UNCHANGED allVars
  BY <1>1, <1>11 DEF allVars, vars, processVars
<1> QED
  BY <1>4, <1>5, <1>6, <1>7, <1>8, <1>9, <1>10, <1>11 DEF ProcessNext

\* The main thread: its step, and what it leaves to the others.
LEMMA MainKeepsThreads ==
  ASSUME ThreadsInv, SocketInv', MainStep
  PROVE  ThreadsInv'
<1>1. UNCHANGED <<consolePc, workerPc, exitFlag, stdin, lateLines>>
  BY DEF MainStep, TestExit, PollRequest, PollAck, PollEnds, CleanUp, LeaveRun,
         JoinConsole, DestroyRegistry, JoinWorkers, MainAt, inputVars
<1>2. /\ mainPc' \in InRun \cup {"leave", "join console", "destroy registry",
                                 "stop workers", "exited"}
      /\ mainPc' \in InRun => mainPc \in InRun /\ running' = running
      /\ running' = running \/ running' = FALSE
  BY DEF MainStep, TestExit, PollRequest, PollAck, PollEnds, CleanUp, LeaveRun,
         JoinConsole, DestroyRegistry, JoinWorkers, MainAt, InRun
<1>3. ThreadsOK'
  <2>1. ASSUME mainPc' \in InRun  PROVE running'
    <3>1. mainPc \in InRun /\ running' = running
      BY <1>2, <2>1
    <3>2. running
      BY <3>1 DEF ThreadsInv, ThreadTypes, ThreadsOK
    <3> QED  BY <3>1, <3>2
  <2>2. running' \in BOOLEAN
    BY <1>2 DEF ThreadsInv, ThreadTypes, ThreadsOK
  <2>3. mainPc' \in InRun \cup {"leave", "join console", "destroy registry",
                                "stop workers", "exited", "stuck"}
    BY <1>2
  <2> QED  BY <1>1, <2>1, <2>2, <2>3 DEF ThreadsInv, ThreadTypes, ThreadsOK, SocketInv
<1>4. ThreadTypes'
  BY <1>1, <1>3 DEF ThreadsInv, ThreadTypes
<1>5. LateInv'
  <2>1. running' => running
    BY <1>2
  <2> QED  BY <1>1, <2>1 DEF ThreadsInv, LateInv, OneMoreCommand
<1> QED  BY <1>4, <1>5 DEF ThreadsInv

\* The console reads one line at most after running_ has been reset.
LEMMA ConsoleKeepsThreads ==
  ASSUME ThreadsInv, SocketInv', ConsoleStep
  PROVE  ThreadsInv'
<1>1. UNCHANGED <<mainPc, workerPc, running, socket>>
  BY DEF ConsoleStep, ConsoleTest, ReadLine, ReadEnd, Command, ExitCommand, Raise,
         ConsoleAt, inputVars
<1>2. /\ consolePc' \in {"test", "read", "command", "raise", "done"}
      /\ exitFlag' \in {exitFlag, TRUE}
      /\ consolePc' = "read" => running /\ lateLines' = lateLines
  BY DEF ConsoleStep, ConsoleTest, ReadLine, ReadEnd, Command, ExitCommand, Raise,
         ConsoleAt, inputVars
<1>3. \/ UNCHANGED <<stdin, lateLines>>
      \/ /\ consolePc = "read" /\ consolePc' = "command" /\ stdin.typed > 0
         /\ stdin' = [stdin EXCEPT !.typed = @ - 1]
         /\ lateLines' = IF running THEN lateLines ELSE lateLines + 1
  BY DEF ConsoleStep, ConsoleTest, ReadLine, ReadEnd, Command, ExitCommand, Raise,
         ConsoleAt, inputVars
<1>4. stdin' \in [typed : Nat, closed : BOOLEAN] /\ stdin'.typed <= MaxLines
  <2>1. CASE stdin' = stdin
    BY <2>1, InputTypes DEF ThreadsInv
  <2>2. CASE stdin.typed > 0 /\ stdin' = [stdin EXCEPT !.typed = @ - 1]
    <3>1. stdin' = [typed |-> stdin.typed - 1, closed |-> stdin.closed]
      BY <2>2, InputTypes DEF ThreadsInv
    <3> QED  BY <2>2, <3>1, InputTypes, ProcessAssumption DEF ThreadsInv
  <2> QED  BY <1>3, <2>1, <2>2
<1>5. ThreadsOK'
  BY <1>1, <1>2, <1>4 DEF ThreadsInv, ThreadTypes, ThreadsOK, SocketInv
<1>6. LateInv' /\ lateLines' \in Nat
  <2>1. CASE lateLines' = lateLines
    BY <1>1, <1>2, <2>1 DEF ThreadsInv, ThreadTypes, LateInv, OneMoreCommand
  <2>2. CASE /\ consolePc = "read" /\ consolePc' = "command"
             /\ lateLines' = IF running THEN lateLines ELSE lateLines + 1
    <3>1. lateLines = 0
      BY <2>2 DEF ThreadsInv, LateInv
    <3>2. (running => lateLines' = 0) /\ lateLines' \in {0, 1}
      BY <2>2, <3>1
    <3> QED  BY <1>1, <2>2, <3>2 DEF LateInv, OneMoreCommand
  <2> QED  BY <1>3, <2>1, <2>2
<1> QED  BY <1>1, <1>4, <1>5, <1>6 DEF ThreadsInv, ThreadTypes

\* A worker touches nothing but its own counter.
LEMMA WorkerKeepsThreads ==
  ASSUME ThreadsInv, SocketInv', NEW w \in Worker, WorkerStep(w)
  PROVE  ThreadsInv'
<1>1. UNCHANGED <<mainPc, consolePc, running, exitFlag, socket, stdin, lateLines>>
  BY DEF WorkerStep, WorkerReceives, WorkerHandles, WorkerEnds, WorkerAt, inputVars
<1>2. \E pc \in {"wait", "packet", "done"} : workerPc' = [workerPc EXCEPT ![w] = pc]
  BY DEF WorkerStep, WorkerReceives, WorkerHandles, WorkerEnds, WorkerAt
<1>3. workerPc' \in [Worker -> {"wait", "packet", "done", "stuck"}]
  BY <1>2 DEF ThreadsInv, ThreadTypes, ThreadsOK
<1>4. ThreadTypes'
  BY <1>1, <1>3 DEF ThreadsInv, ThreadTypes, ThreadsOK, SocketInv
<1>5. LateInv'
  BY <1>1 DEF ThreadsInv, LateInv, OneMoreCommand
<1> QED  BY <1>4, <1>5 DEF ThreadsInv

\* A signal can only stop a thread for good.
LEMMA SignalKeepsThreads ==
  ASSUME ThreadsInv, SocketInv', Signal \/ SignalInLogger
  PROVE  ThreadsInv'
<1>1. CASE Signal
  <2>1. UNCHANGED <<mainPc, consolePc, workerPc, running, socket, stdin, lateLines>>
        /\ exitFlag' = TRUE
    BY <1>1 DEF Signal, threadVars, inputVars
  <2> QED
    BY <2>1
    DEF ThreadsInv, ThreadTypes, ThreadsOK, SocketInv, LateInv, OneMoreCommand
<1>2. CASE SignalInLogger
  <2>1. UNCHANGED <<running, exitFlag, socket, stdin, lateLines>>
    BY <1>2 DEF SignalInLogger, inputVars
  <2>2. \/ /\ mainPc \in {"poll", "leave"} /\ mainPc' = "stuck"
           /\ UNCHANGED <<consolePc, workerPc>>
        \/ /\ consolePc \in {"command", "raise"} /\ consolePc' = "stuck"
           /\ UNCHANGED <<mainPc, workerPc>>
        \/ \E w \in Worker :
             /\ workerPc[w] = "packet" /\ workerPc' = [workerPc EXCEPT ![w] = "stuck"]
             /\ UNCHANGED <<mainPc, consolePc>>
    BY <1>2 DEF SignalInLogger
  <2>3. workerPc' \in [Worker -> {"wait", "packet", "done", "stuck"}]
    BY <2>2 DEF ThreadsInv, ThreadTypes, ThreadsOK
  <2>4. ThreadTypes'
    BY <2>1, <2>2, <2>3 DEF ThreadsInv, ThreadTypes, ThreadsOK, SocketInv, InRun
  <2>5. LateInv'
    BY <2>1, <2>2 DEF ThreadsInv, LateInv, OneMoreCommand
  <2> QED  BY <2>4, <2>5 DEF ThreadsInv
<1> QED  BY <1>1, <1>2

\* What is typed, sent and delivered around the process leaves its threads alone.
LEMMA OutsideKeepsThreads ==
  ASSUME ThreadsInv, SocketInv',
         \/ TypeLine \/ CloseInput \/ ClientStep \/ ProcessTick
         \/ \E r \in Request : Deliver(r)
         \/ UNCHANGED allVars
  PROVE  ThreadsInv'
<1>1. UNCHANGED <<mainPc, consolePc, workerPc, running, exitFlag, lateLines>>
  BY DEF TypeLine, CloseInput, ClientStep, ProcessTick, Deliver, allVars, processVars,
         threadVars, inputVars
<1>2. \/ stdin' = stdin
      \/ stdin.typed < MaxLines /\ stdin' = [stdin EXCEPT !.typed = @ + 1]
      \/ stdin' = [stdin EXCEPT !.closed = TRUE]
  BY DEF TypeLine, CloseInput, ClientStep, ProcessTick, Deliver, allVars, processVars,
         inputVars
<1>3. stdin' \in [typed : Nat, closed : BOOLEAN] /\ stdin'.typed <= MaxLines
  <2>1. CASE stdin' = stdin
    BY <2>1, InputTypes DEF ThreadsInv
  <2>2. CASE stdin.typed < MaxLines /\ stdin' = [stdin EXCEPT !.typed = @ + 1]
    <3>1. stdin' = [typed |-> stdin.typed + 1, closed |-> stdin.closed]
      BY <2>2, InputTypes DEF ThreadsInv
    <3> QED  BY <2>2, <3>1, InputTypes, ProcessAssumption DEF ThreadsInv
  <2>3. CASE stdin' = [stdin EXCEPT !.closed = TRUE]
    <3>1. stdin' = [typed |-> stdin.typed, closed |-> TRUE]
      BY <2>3, InputTypes DEF ThreadsInv
    <3> QED  BY <2>3, <3>1, InputTypes DEF ThreadsInv
  <2> QED  BY <1>2, <2>1, <2>2, <2>3
<1> QED
  BY <1>1, <1>3
  DEF ThreadsInv, ThreadTypes, ThreadsOK, SocketInv, LateInv, OneMoreCommand

\* Every step keeps the invariant of the threads.
LEMMA ThreadsInvariant == ProcessSpec => []ThreadsInv
<1>1. ProcessInit => ThreadsInv /\ SocketInv
  <2> SUFFICES ASSUME ProcessInit  PROVE ThreadsInv /\ SocketInv
    OBVIOUS
  <2>1. stdin \in [typed : Nat, closed : BOOLEAN] /\ stdin.typed <= MaxLines
    BY ProcessAssumption DEF ProcessInit
  <2>2. ThreadsOK /\ SocketInv
    BY <2>1 DEF ProcessInit, ThreadsOK, SocketInv, InRun
  <2>3. LateInv /\ lateLines \in Nat
    BY DEF ProcessInit, LateInv, OneMoreCommand
  <2> QED  BY <2>1, <2>2, <2>3 DEF ThreadsInv, ThreadTypes
<1>2. ThreadsInv /\ SocketInv /\ [ProcessNext]_allVars => ThreadsInv' /\ SocketInv'
  BY ProcessKeepsSocket, MainKeepsThreads, ConsoleKeepsThreads, WorkerKeepsThreads,
     SignalKeepsThreads, OutsideKeepsThreads DEF ProcessNext
<1> QED  BY <1>1, <1>2, PTL DEF ProcessSpec

\* Program counters, flags and input stay within their types.
THEOREM ThreadsAreTyped == ProcessSpec => []ThreadsOK
<1>1. ThreadsInv => ThreadsOK
  BY DEF ThreadsInv, ThreadTypes
<1> QED  BY <1>1, ThreadsInvariant, PTL

\* However running_ is reset, the console executes at most one line after it.
THEOREM ConsoleStopsAfterOneLine == ProcessSpec => []OneMoreCommand
<1>1. ThreadsInv => OneMoreCommand
  BY DEF ThreadsInv, LateInv
<1> QED  BY <1>1, ThreadsInvariant, PTL
=============================================================================

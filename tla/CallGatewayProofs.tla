-------------------------- MODULE CallGatewayProofs --------------------------
(***************************************************************************)
(* Theorems about CallGateway.                                             *)
(***************************************************************************)
EXTENDS CallGateway, FiniteSetTheorems, TLAPS

-----------------------------------------------------------------------------
(* The inductive invariants.                                               *)

\* Steps at which the handler works on sip.sess.
InCall == {"alloc", "register", "answer", "release", "terminate", "remove"}

\* What a shared_ptr points to exists, and a destroyed session held no port.
References ==
  /\ \A c \in CallId : calls[c] # None => calls[c] \in heap
  /\ sip.sess # None => sip.sess \in heap
  /\ \A w \in Worker : rtp[w].sess # None => rtp[w].sess \in heap
  /\ \A s \in Session \ heap : localRtpPort[s] = None

\* A session is registered under one id, the handled one under the handled id.
OneIdPerSession ==
  /\ \A c, d \in CallId : calls[c] = calls[d] /\ calls[c] # None => c = d
  /\ \A c \in CallId : sip.sess # None /\ calls[c] = sip.sess => c = sip.call

\* What the handler knows of the call it handles; the console may have removed
\* the call since, but nobody may have put another session in its place.
HandlerKnows ==
  /\ sip.pc \in InCall => sip.sess # None /\ calls[sip.call] \in {None, sip.sess}
  /\ sip.pc \in {"count", "add"} => calls[sip.call] = None /\ sip.sess = None
  /\ sip.pc = "add" => Cardinality(Registered) < MaxCalls

\* The port the handler holds is bound and in no session yet.
PortInHandIsFree ==
  sip.pc \in PortInHand =>
    /\ sip.port \in activeSockets
    /\ \A s \in heap : localRtpPort[s] # sip.port

IInv ==
  /\ TypeOK
  /\ References
  /\ OneIdPerSession
  /\ HandlerKnows
  /\ PortInHandIsFree
  /\ PortExclusive
  /\ CallLimit
  /\ AnsweredCallsHavePorts

\* Without re-INVITEs the session that is about to get a port has none.
NoPortYet ==
  sip.pc \in {"alloc", "register", "answer"} => localRtpPort[sip.sess] = None

LeaseInv == NoPortYet /\ PortsHaveOwners

\* Without a console nobody removes the call the handler works on.
HandledStays == sip.pc \in InCall => calls[sip.call] = sip.sess

\* The registration of the port in hand.
PortInHandEntry ==
  /\ sip.pc = "register" => portMap[sip.port] = None
  /\ sip.pc \in {"answer", "release"} => portMap[sip.port] = sip.call

\* A registered port is bound, except while its call is being removed, and a
\* session that holds it is the one registered under that id.
EntriesAreCurrent ==
  /\ \A p \in Port : portMap[p] # None =>
       p \in activeSockets \/ (sip.pc = "remove" /\ portMap[p] = sip.call)
  /\ \A p \in Port, s \in heap :
       portMap[p] # None /\ localRtpPort[s] = p => calls[portMap[p]] = s

MapInv ==
  /\ HandledStays
  /\ PortInHandEntry
  /\ EntriesAreCurrent
  /\ RegistryMapsAgree
  /\ AnsweredCallsAreReachable

-----------------------------------------------------------------------------
USE NoneAssumption, EnvironmentAssumption

\* Every variable has its type at the start.
LEMMA TypeInit == Init => TypeOK
BY DEF Init, TypeOK, IdleSip, IdleWorker, SipPc, PortInHand

\* Every step keeps the types.
LEMMA TypeStep == TypeOK /\ [Next]_vars => TypeOK'
<1> SUFFICES ASSUME TypeOK, [Next]_vars PROVE TypeOK'
  OBVIOUS
<1> USE DEF TypeOK, SipPc, PortInHand, registryVars, sessionVars, GoTo
<1>1. ASSUME NEW c \in CallId, ReceiveInvite(c) PROVE TypeOK'
  BY <1>1 DEF ReceiveInvite
<1>2. ASSUME NEW c \in CallId, ReceiveBye(c) PROVE TypeOK'
  BY <1>2 DEF ReceiveBye
<1>3. ASSUME NEW c \in CallId, ReceiveCancel(c) PROVE TypeOK'
  BY <1>3 DEF ReceiveCancel
<1>4. CASE RefuseBusy
  BY <1>4 DEF RefuseBusy
<1>5. CASE BelowLimit
  BY <1>5 DEF BelowLimit
<1>6. ASSUME NEW s \in Session, CreateCall(s) PROVE TypeOK'
  BY <1>6 DEF CreateCall, AddCall
<1>7. ASSUME NEW p \in Port, AllocatePort(p) PROVE TypeOK'
  BY <1>7 DEF AllocatePort
<1>8. CASE AllocationFails
  BY <1>8 DEF AllocationFails
<1>9. CASE RegisterPort
  BY <1>9 DEF RegisterPort, RegisterRtpPort
<1>10. CASE StartPipeline
  BY <1>10 DEF StartPipeline
<1>11. CASE NotAcceptable
  BY <1>11 DEF NotAcceptable
<1>12. CASE ReleaseOffered
  BY <1>12 DEF ReleaseOffered
<1>13. CASE TerminateSession
  BY <1>13 DEF TerminateSession, Terminate
<1>14. CASE RemoveHandled
  BY <1>14 DEF RemoveHandled, RemoveCall, Reclaim, Terminate
<1>15. CASE Return
  BY <1>15 DEF Return, Reclaim, Terminate, IdleSip
<1>16. ASSUME NEW c \in CallId, Cut(c) PROVE TypeOK'
  BY <1>16 DEF Cut, RemoveCall, Reclaim, Terminate
<1>17. ASSUME NEW w \in Worker, NEW p \in Port, RtpReceive(w, p) PROVE TypeOK'
  BY <1>17 DEF RtpReceive
<1>18. ASSUME NEW w \in Worker, RtpLookup(w) PROVE TypeOK'
  BY <1>18 DEF RtpLookup, CallByPort, IdleWorker
<1>19. ASSUME NEW w \in Worker, RtpDone(w) PROVE TypeOK'
  BY <1>19 DEF RtpDone, Reclaim, Terminate, IdleWorker
<1>20. CASE UNCHANGED vars
  BY <1>20 DEF vars
<1> QED
  BY <1>1, <1>2, <1>3, <1>4, <1>5, <1>6, <1>7, <1>8, <1>9, <1>10, <1>11, <1>12,
     <1>13, <1>14, <1>15, <1>16, <1>17, <1>18, <1>19, <1>20
     DEF Next, SipStep, RtpStep

\* Every variable keeps its type.
THEOREM TypeCorrect == Spec => []TypeOK
BY TypeInit, TypeStep, PTL DEF Spec

-----------------------------------------------------------------------------
(* The invariant, one lemma per conjunct.                                  *)

\* A session is destroyed only when nothing refers to it.
LEMMA ReferencesStep ==
  ASSUME TypeOK, TypeOK', References, [Next]_vars
  PROVE  References'
<1> USE DEF TypeOK, SipPc, PortInHand, InCall, registryVars, sessionVars,
      GoTo, References
<1>1. ASSUME NEW c \in CallId, ReceiveInvite(c) PROVE References'
  BY <1>1 DEF ReceiveInvite
<1>2. ASSUME NEW c \in CallId, ReceiveBye(c) PROVE References'
  BY <1>2 DEF ReceiveBye
<1>3. ASSUME NEW c \in CallId, ReceiveCancel(c) PROVE References'
  BY <1>3 DEF ReceiveCancel
<1>4. CASE RefuseBusy
  BY <1>4 DEF RefuseBusy
<1>5. CASE BelowLimit
  BY <1>5 DEF BelowLimit
<1>6. ASSUME NEW s \in Session, CreateCall(s) PROVE References'
  BY <1>6 DEF CreateCall, AddCall
<1>7. ASSUME NEW p \in Port, AllocatePort(p) PROVE References'
  BY <1>7 DEF AllocatePort
<1>8. CASE AllocationFails
  BY <1>8 DEF AllocationFails
<1>9. CASE RegisterPort
  BY <1>9 DEF RegisterPort, RegisterRtpPort
<1>10. CASE StartPipeline
  BY <1>10 DEF StartPipeline
<1>11. CASE NotAcceptable
  BY <1>11 DEF NotAcceptable
<1>12. CASE ReleaseOffered
  BY <1>12 DEF ReleaseOffered
<1>13. CASE TerminateSession
  BY <1>13 DEF TerminateSession, Terminate
<1>14. CASE RemoveHandled
  BY <1>14 DEF RemoveHandled, RemoveCall, Reclaim, Terminate, Referenced
<1>15. CASE Return
  BY <1>15 DEF Return, Reclaim, Terminate, IdleSip, Referenced
<1>16. ASSUME NEW c \in CallId, Cut(c) PROVE References'
  BY <1>16 DEF Cut, RemoveCall, Reclaim, Terminate, Referenced
<1>17. ASSUME NEW w \in Worker, NEW p \in Port, RtpReceive(w, p) PROVE
            References'
  BY <1>17 DEF RtpReceive
<1>18. ASSUME NEW w \in Worker, RtpLookup(w) PROVE References'
  BY <1>18 DEF RtpLookup, CallByPort, IdleWorker
<1>19. ASSUME NEW w \in Worker, RtpDone(w) PROVE References'
  BY <1>19 DEF RtpDone, Reclaim, Terminate, IdleWorker, Referenced
<1>20. CASE UNCHANGED vars
  BY <1>20 DEF vars
<1> QED
  BY <1>1, <1>2, <1>3, <1>4, <1>5, <1>6, <1>7, <1>8, <1>9, <1>10, <1>11,
     <1>12, <1>13, <1>14, <1>15, <1>16, <1>17, <1>18, <1>19, <1>20 DEF Next,
     SipStep, RtpStep

\* An id is given to a fresh session, and the handler stays on its own call.
LEMMA OneIdStep ==
  ASSUME TypeOK, TypeOK', References, OneIdPerSession, HandlerKnows,
         [Next]_vars
  PROVE  OneIdPerSession'
<1> USE DEF TypeOK, SipPc, PortInHand, InCall, registryVars, sessionVars,
      GoTo, References, OneIdPerSession, HandlerKnows
<1>1. ASSUME NEW c \in CallId, ReceiveInvite(c) PROVE OneIdPerSession'
  BY <1>1 DEF ReceiveInvite
<1>2. ASSUME NEW c \in CallId, ReceiveBye(c) PROVE OneIdPerSession'
  BY <1>2 DEF ReceiveBye
<1>3. ASSUME NEW c \in CallId, ReceiveCancel(c) PROVE OneIdPerSession'
  BY <1>3 DEF ReceiveCancel
<1>4. CASE RefuseBusy
  BY <1>4 DEF RefuseBusy
<1>5. CASE BelowLimit
  BY <1>5 DEF BelowLimit
<1>6. ASSUME NEW s \in Session, CreateCall(s) PROVE OneIdPerSession'
  BY <1>6 DEF CreateCall, AddCall
<1>7. ASSUME NEW p \in Port, AllocatePort(p) PROVE OneIdPerSession'
  BY <1>7 DEF AllocatePort
<1>8. CASE AllocationFails
  BY <1>8 DEF AllocationFails
<1>9. CASE RegisterPort
  BY <1>9 DEF RegisterPort, RegisterRtpPort
<1>10. CASE StartPipeline
  BY <1>10 DEF StartPipeline
<1>11. CASE NotAcceptable
  BY <1>11 DEF NotAcceptable
<1>12. CASE ReleaseOffered
  BY <1>12 DEF ReleaseOffered
<1>13. CASE TerminateSession
  BY <1>13 DEF TerminateSession, Terminate
<1>14. CASE RemoveHandled
  BY <1>14 DEF RemoveHandled, RemoveCall, Reclaim, Terminate, Referenced
<1>15. CASE Return
  BY <1>15 DEF Return, Reclaim, Terminate, IdleSip, Referenced
<1>16. ASSUME NEW c \in CallId, Cut(c) PROVE OneIdPerSession'
  BY <1>16 DEF Cut, RemoveCall, Reclaim, Terminate, Referenced
<1>17. ASSUME NEW w \in Worker, NEW p \in Port, RtpReceive(w, p) PROVE
            OneIdPerSession'
  BY <1>17 DEF RtpReceive
<1>18. ASSUME NEW w \in Worker, RtpLookup(w) PROVE OneIdPerSession'
  BY <1>18 DEF RtpLookup, CallByPort, IdleWorker
<1>19. ASSUME NEW w \in Worker, RtpDone(w) PROVE OneIdPerSession'
  BY <1>19 DEF RtpDone, Reclaim, Terminate, IdleWorker, Referenced
<1>20. CASE UNCHANGED vars
  BY <1>20 DEF vars
<1> QED
  BY <1>1, <1>2, <1>3, <1>4, <1>5, <1>6, <1>7, <1>8, <1>9, <1>10, <1>11,
     <1>12, <1>13, <1>14, <1>15, <1>16, <1>17, <1>18, <1>19, <1>20 DEF Next,
     SipStep, RtpStep

\* The registered calls are finitely many, so that they can be counted.
LEMMA RegisteredIsFinite ==
  /\ IsFiniteSet(Registered) /\ Cardinality(Registered) \in Nat
  /\ IsFiniteSet(Registered') /\ Cardinality(Registered') \in Nat
<1>1. \A S \in SUBSET CallId : IsFiniteSet(S) /\ Cardinality(S) \in Nat
  BY CallIdAssumption, FS_Subset, FS_CardinalityType
<1> QED
  BY <1>1 DEF Registered

\* Which calls are registered depends on calls_ alone.
LEMMA SameCalls == calls' = calls => Registered' = Registered
BY DEF Registered

\* Removing a call never makes the registry larger.
LEMMA RemovalShrinks ==
  ASSUME TypeOK, NEW c \in CallId, RemoveCall(c)
  PROVE  Cardinality(Registered') <= Cardinality(Registered)
<1>1. Registered' \subseteq Registered
  BY DEF RemoveCall, Registered, TypeOK
<1> QED
  BY <1>1, RegisteredIsFinite, FS_Subset

\* What the handler read from the registry stays true but for removals.
LEMMA HandlerStep ==
  ASSUME TypeOK, TypeOK', HandlerKnows, [Next]_vars
  PROVE  HandlerKnows'
<1> USE DEF TypeOK, SipPc, PortInHand, InCall, registryVars, sessionVars,
      GoTo, HandlerKnows
<1> USE SameCalls
<1>1. ASSUME NEW c \in CallId, ReceiveInvite(c) PROVE HandlerKnows'
  BY <1>1 DEF ReceiveInvite
<1>2. ASSUME NEW c \in CallId, ReceiveBye(c) PROVE HandlerKnows'
  BY <1>2 DEF ReceiveBye
<1>3. ASSUME NEW c \in CallId, ReceiveCancel(c) PROVE HandlerKnows'
  BY <1>3 DEF ReceiveCancel
<1>4. CASE RefuseBusy
  BY <1>4 DEF RefuseBusy
<1>5. CASE BelowLimit
  BY <1>5 DEF BelowLimit
<1>6. ASSUME NEW s \in Session, CreateCall(s) PROVE HandlerKnows'
  BY <1>6 DEF CreateCall, AddCall
<1>7. ASSUME NEW p \in Port, AllocatePort(p) PROVE HandlerKnows'
  BY <1>7 DEF AllocatePort
<1>8. CASE AllocationFails
  BY <1>8 DEF AllocationFails
<1>9. CASE RegisterPort
  BY <1>9 DEF RegisterPort, RegisterRtpPort
<1>10. CASE StartPipeline
  BY <1>10 DEF StartPipeline
<1>11. CASE NotAcceptable
  BY <1>11 DEF NotAcceptable
<1>12. CASE ReleaseOffered
  BY <1>12 DEF ReleaseOffered
<1>13. CASE TerminateSession
  BY <1>13 DEF TerminateSession, Terminate
<1>14. CASE RemoveHandled
  BY <1>14 DEF RemoveHandled, RemoveCall, Reclaim, Terminate, Referenced
<1>15. CASE Return
  BY <1>15 DEF Return, Reclaim, Terminate, IdleSip, Referenced
<1>16. ASSUME NEW c \in CallId, Cut(c) PROVE HandlerKnows'
  <2>1. Cardinality(Registered') <= Cardinality(Registered)
    BY <1>16, RemovalShrinks DEF Cut
  <2> QED
    BY <1>16, <2>1, RegisteredIsFinite, MaxCallsAssumption
       DEF Cut, RemoveCall
<1>17. ASSUME NEW w \in Worker, NEW p \in Port, RtpReceive(w, p) PROVE
            HandlerKnows'
  BY <1>17 DEF RtpReceive
<1>18. ASSUME NEW w \in Worker, RtpLookup(w) PROVE HandlerKnows'
  BY <1>18 DEF RtpLookup, CallByPort, IdleWorker
<1>19. ASSUME NEW w \in Worker, RtpDone(w) PROVE HandlerKnows'
  BY <1>19 DEF RtpDone, Reclaim, Terminate, IdleWorker, Referenced
<1>20. CASE UNCHANGED vars
  BY <1>20 DEF vars
<1> QED
  BY <1>1, <1>2, <1>3, <1>4, <1>5, <1>6, <1>7, <1>8, <1>9, <1>10, <1>11,
     <1>12, <1>13, <1>14, <1>15, <1>16, <1>17, <1>18, <1>19, <1>20 DEF Next,
     SipStep, RtpStep

\* Nobody else can get or release the port the handler holds.
LEMMA PortInHandStep ==
  ASSUME TypeOK, TypeOK', References, PortInHandIsFree, PortExclusive,
         [Next]_vars
  PROVE  PortInHandIsFree'
<1> USE DEF TypeOK, SipPc, PortInHand, InCall, registryVars, sessionVars,
      GoTo, References, PortInHandIsFree, PortExclusive
<1>1. ASSUME NEW c \in CallId, ReceiveInvite(c) PROVE PortInHandIsFree'
  BY <1>1 DEF ReceiveInvite
<1>2. ASSUME NEW c \in CallId, ReceiveBye(c) PROVE PortInHandIsFree'
  BY <1>2 DEF ReceiveBye
<1>3. ASSUME NEW c \in CallId, ReceiveCancel(c) PROVE PortInHandIsFree'
  BY <1>3 DEF ReceiveCancel
<1>4. CASE RefuseBusy
  BY <1>4 DEF RefuseBusy
<1>5. CASE BelowLimit
  BY <1>5 DEF BelowLimit
<1>6. ASSUME NEW s \in Session, CreateCall(s) PROVE PortInHandIsFree'
  BY <1>6 DEF CreateCall, AddCall
<1>7. ASSUME NEW p \in Port, AllocatePort(p) PROVE PortInHandIsFree'
  BY <1>7 DEF AllocatePort
<1>8. CASE AllocationFails
  BY <1>8 DEF AllocationFails
<1>9. CASE RegisterPort
  BY <1>9 DEF RegisterPort, RegisterRtpPort
<1>10. CASE StartPipeline
  BY <1>10 DEF StartPipeline
<1>11. CASE NotAcceptable
  BY <1>11 DEF NotAcceptable
<1>12. CASE ReleaseOffered
  BY <1>12 DEF ReleaseOffered
<1>13. CASE TerminateSession
  BY <1>13 DEF TerminateSession, Terminate
<1>14. CASE RemoveHandled
  BY <1>14 DEF RemoveHandled, RemoveCall, Reclaim, Terminate, Referenced
<1>15. CASE Return
  BY <1>15 DEF Return, Reclaim, Terminate, IdleSip, Referenced
<1>16. ASSUME NEW c \in CallId, Cut(c) PROVE PortInHandIsFree'
  BY <1>16 DEF Cut, RemoveCall, Reclaim, Terminate, Referenced
<1>17. ASSUME NEW w \in Worker, NEW p \in Port, RtpReceive(w, p) PROVE
            PortInHandIsFree'
  BY <1>17 DEF RtpReceive
<1>18. ASSUME NEW w \in Worker, RtpLookup(w) PROVE PortInHandIsFree'
  BY <1>18 DEF RtpLookup, CallByPort, IdleWorker
<1>19. ASSUME NEW w \in Worker, RtpDone(w) PROVE PortInHandIsFree'
  BY <1>19 DEF RtpDone, Reclaim, Terminate, IdleWorker, Referenced
<1>20. CASE UNCHANGED vars
  BY <1>20 DEF vars
<1> QED
  BY <1>1, <1>2, <1>3, <1>4, <1>5, <1>6, <1>7, <1>8, <1>9, <1>10, <1>11,
     <1>12, <1>13, <1>14, <1>15, <1>16, <1>17, <1>18, <1>19, <1>20 DEF Next,
     SipStep, RtpStep

\* A session gives its port back when it is terminated, and only once.
LEMMA ExclusiveStep ==
  ASSUME TypeOK, TypeOK', References, HandlerKnows, PortInHandIsFree,
         PortExclusive, [Next]_vars
  PROVE  PortExclusive'
<1> USE DEF TypeOK, SipPc, PortInHand, InCall, registryVars, sessionVars,
      GoTo, References, HandlerKnows, PortInHandIsFree, PortExclusive
<1>1. ASSUME NEW c \in CallId, ReceiveInvite(c) PROVE PortExclusive'
  BY <1>1 DEF ReceiveInvite
<1>2. ASSUME NEW c \in CallId, ReceiveBye(c) PROVE PortExclusive'
  BY <1>2 DEF ReceiveBye
<1>3. ASSUME NEW c \in CallId, ReceiveCancel(c) PROVE PortExclusive'
  BY <1>3 DEF ReceiveCancel
<1>4. CASE RefuseBusy
  BY <1>4 DEF RefuseBusy
<1>5. CASE BelowLimit
  BY <1>5 DEF BelowLimit
<1>6. ASSUME NEW s \in Session, CreateCall(s) PROVE PortExclusive'
  BY <1>6 DEF CreateCall, AddCall
<1>7. ASSUME NEW p \in Port, AllocatePort(p) PROVE PortExclusive'
  BY <1>7 DEF AllocatePort
<1>8. CASE AllocationFails
  BY <1>8 DEF AllocationFails
<1>9. CASE RegisterPort
  BY <1>9 DEF RegisterPort, RegisterRtpPort
<1>10. CASE StartPipeline
  BY <1>10 DEF StartPipeline
<1>11. CASE NotAcceptable
  BY <1>11 DEF NotAcceptable
<1>12. CASE ReleaseOffered
  BY <1>12 DEF ReleaseOffered
<1>13. CASE TerminateSession
  BY <1>13 DEF TerminateSession, Terminate
<1>14. CASE RemoveHandled
  BY <1>14 DEF RemoveHandled, RemoveCall, Reclaim, Terminate, Referenced
<1>15. CASE Return
  BY <1>15 DEF Return, Reclaim, Terminate, IdleSip, Referenced
<1>16. ASSUME NEW c \in CallId, Cut(c) PROVE PortExclusive'
  BY <1>16 DEF Cut, RemoveCall, Reclaim, Terminate, Referenced
<1>17. ASSUME NEW w \in Worker, NEW p \in Port, RtpReceive(w, p) PROVE
            PortExclusive'
  BY <1>17 DEF RtpReceive
<1>18. ASSUME NEW w \in Worker, RtpLookup(w) PROVE PortExclusive'
  BY <1>18 DEF RtpLookup, CallByPort, IdleWorker
<1>19. ASSUME NEW w \in Worker, RtpDone(w) PROVE PortExclusive'
  BY <1>19 DEF RtpDone, Reclaim, Terminate, IdleWorker, Referenced
<1>20. CASE UNCHANGED vars
  BY <1>20 DEF vars
<1> QED
  BY <1>1, <1>2, <1>3, <1>4, <1>5, <1>6, <1>7, <1>8, <1>9, <1>10, <1>11,
     <1>12, <1>13, <1>14, <1>15, <1>16, <1>17, <1>18, <1>19, <1>20 DEF Next,
     SipStep, RtpStep

\* Only the SIP thread adds calls, so its test of the limit does not go stale.
LEMMA LimitStep ==
  ASSUME TypeOK, TypeOK', HandlerKnows, CallLimit, [Next]_vars
  PROVE  CallLimit'
<1> USE DEF TypeOK, SipPc, PortInHand, InCall, registryVars, sessionVars,
      GoTo, HandlerKnows, CallLimit
<1> USE SameCalls
<1>1. ASSUME NEW c \in CallId, ReceiveInvite(c) PROVE CallLimit'
  BY <1>1 DEF ReceiveInvite
<1>2. ASSUME NEW c \in CallId, ReceiveBye(c) PROVE CallLimit'
  BY <1>2 DEF ReceiveBye
<1>3. ASSUME NEW c \in CallId, ReceiveCancel(c) PROVE CallLimit'
  BY <1>3 DEF ReceiveCancel
<1>4. CASE RefuseBusy
  BY <1>4 DEF RefuseBusy
<1>5. CASE BelowLimit
  BY <1>5 DEF BelowLimit
<1>6. ASSUME NEW s \in Session, CreateCall(s) PROVE CallLimit'
  <2>1. Registered' = Registered \cup {sip.call} /\ sip.call \notin Registered
    BY <1>6 DEF CreateCall, AddCall, Registered
  <2>2. Cardinality(Registered') = Cardinality(Registered) + 1
    BY <2>1, RegisteredIsFinite, FS_AddElement
  <2> QED
    BY <1>6, <2>2, RegisteredIsFinite, MaxCallsAssumption DEF CreateCall
<1>7. ASSUME NEW p \in Port, AllocatePort(p) PROVE CallLimit'
  BY <1>7 DEF AllocatePort
<1>8. CASE AllocationFails
  BY <1>8 DEF AllocationFails
<1>9. CASE RegisterPort
  BY <1>9 DEF RegisterPort, RegisterRtpPort
<1>10. CASE StartPipeline
  BY <1>10 DEF StartPipeline
<1>11. CASE NotAcceptable
  BY <1>11 DEF NotAcceptable
<1>12. CASE ReleaseOffered
  BY <1>12 DEF ReleaseOffered
<1>13. CASE TerminateSession
  BY <1>13 DEF TerminateSession, Terminate
<1>14. CASE RemoveHandled
  <2>1. Cardinality(Registered') <= Cardinality(Registered)
    BY <1>14, RemovalShrinks DEF RemoveHandled
  <2> QED
    BY <2>1, RegisteredIsFinite, MaxCallsAssumption
<1>15. CASE Return
  BY <1>15 DEF Return, Reclaim, Terminate, IdleSip, Referenced
<1>16. ASSUME NEW c \in CallId, Cut(c) PROVE CallLimit'
  <2>1. Cardinality(Registered') <= Cardinality(Registered)
    BY <1>16, RemovalShrinks DEF Cut
  <2> QED
    BY <2>1, RegisteredIsFinite, MaxCallsAssumption
<1>17. ASSUME NEW w \in Worker, NEW p \in Port, RtpReceive(w, p) PROVE
            CallLimit'
  BY <1>17 DEF RtpReceive
<1>18. ASSUME NEW w \in Worker, RtpLookup(w) PROVE CallLimit'
  BY <1>18 DEF RtpLookup, CallByPort, IdleWorker
<1>19. ASSUME NEW w \in Worker, RtpDone(w) PROVE CallLimit'
  BY <1>19 DEF RtpDone, Reclaim, Terminate, IdleWorker, Referenced
<1>20. CASE UNCHANGED vars
  BY <1>20 DEF vars
<1> QED
  BY <1>1, <1>2, <1>3, <1>4, <1>5, <1>6, <1>7, <1>8, <1>9, <1>10, <1>11,
     <1>12, <1>13, <1>14, <1>15, <1>16, <1>17, <1>18, <1>19, <1>20 DEF Next,
     SipStep, RtpStep

\* A settled call keeps its port until it is removed.
LEMMA AnsweredStep ==
  ASSUME TypeOK, TypeOK', References, OneIdPerSession, HandlerKnows,
         PortInHandIsFree, PortExclusive, AnsweredCallsHavePorts,
         [Next]_vars
  PROVE  AnsweredCallsHavePorts'
<1> USE DEF TypeOK, SipPc, PortInHand, InCall, registryVars, sessionVars,
      GoTo, References, OneIdPerSession, HandlerKnows, PortInHandIsFree,
      PortExclusive, AnsweredCallsHavePorts, Registered, Unsettled
<1>1. ASSUME NEW c \in CallId, ReceiveInvite(c) PROVE
            AnsweredCallsHavePorts'
  BY <1>1 DEF ReceiveInvite
<1>2. ASSUME NEW c \in CallId, ReceiveBye(c) PROVE AnsweredCallsHavePorts'
  BY <1>2 DEF ReceiveBye
<1>3. ASSUME NEW c \in CallId, ReceiveCancel(c) PROVE
            AnsweredCallsHavePorts'
  BY <1>3 DEF ReceiveCancel
<1>4. CASE RefuseBusy
  BY <1>4 DEF RefuseBusy
<1>5. CASE BelowLimit
  BY <1>5 DEF BelowLimit
<1>6. ASSUME NEW s \in Session, CreateCall(s) PROVE AnsweredCallsHavePorts'
  BY <1>6 DEF CreateCall, AddCall
<1>7. ASSUME NEW p \in Port, AllocatePort(p) PROVE AnsweredCallsHavePorts'
  BY <1>7 DEF AllocatePort
<1>8. CASE AllocationFails
  BY <1>8 DEF AllocationFails
<1>9. CASE RegisterPort
  BY <1>9 DEF RegisterPort, RegisterRtpPort
<1>10. CASE StartPipeline
  BY <1>10 DEF StartPipeline
<1>11. CASE NotAcceptable
  BY <1>11 DEF NotAcceptable
<1>12. CASE ReleaseOffered
  BY <1>12 DEF ReleaseOffered
<1>13. CASE TerminateSession
  BY <1>13 DEF TerminateSession, Terminate
<1>14. CASE RemoveHandled
  BY <1>14 DEF RemoveHandled, RemoveCall, Reclaim, Terminate, Referenced
<1>15. CASE Return
  BY <1>15 DEF Return, Reclaim, Terminate, IdleSip, Referenced
<1>16. ASSUME NEW c \in CallId, Cut(c) PROVE AnsweredCallsHavePorts'
  BY <1>16 DEF Cut, RemoveCall, Reclaim, Terminate, Referenced
<1>17. ASSUME NEW w \in Worker, NEW p \in Port, RtpReceive(w, p) PROVE
            AnsweredCallsHavePorts'
  BY <1>17 DEF RtpReceive
<1>18. ASSUME NEW w \in Worker, RtpLookup(w) PROVE AnsweredCallsHavePorts'
  BY <1>18 DEF RtpLookup, CallByPort, IdleWorker
<1>19. ASSUME NEW w \in Worker, RtpDone(w) PROVE AnsweredCallsHavePorts'
  BY <1>19 DEF RtpDone, Reclaim, Terminate, IdleWorker, Referenced
<1>20. CASE UNCHANGED vars
  BY <1>20 DEF vars
<1> QED
  BY <1>1, <1>2, <1>3, <1>4, <1>5, <1>6, <1>7, <1>8, <1>9, <1>10, <1>11,
     <1>12, <1>13, <1>14, <1>15, <1>16, <1>17, <1>18, <1>19, <1>20 DEF Next,
     SipStep, RtpStep

\* The inductive invariant holds before the first message.
LEMMA InvInit == Init => IInv
<1> SUFFICES ASSUME Init PROVE IInv
  OBVIOUS
<1>1. Registered = {}
  BY DEF Init, Registered
<1>2. CallLimit
  BY <1>1, FS_EmptySet, MaxCallsAssumption DEF CallLimit
<1>3. AnsweredCallsHavePorts
  BY <1>1 DEF AnsweredCallsHavePorts
<1> QED
  BY <1>2, <1>3, TypeInit
     DEF Init, IInv, References, OneIdPerSession, HandlerKnows,
         PortInHandIsFree, PortExclusive, IdleSip, IdleWorker, InCall, PortInHand

\* Every step keeps the inductive invariant, one lemma for each part of it.
LEMMA InvStep == IInv /\ [Next]_vars => IInv'
BY TypeStep, ReferencesStep, OneIdStep, HandlerStep, PortInHandStep,
   ExclusiveStep, LimitStep, AnsweredStep DEF IInv

\* The inductive invariant holds throughout.
LEMMA Inductive == Spec => []IInv
BY InvInit, InvStep, PTL DEF Spec

\* releasePort is called once per allocation: no two sessions ever hold the same
\* port, and a port that a session holds is bound.
THEOREM PortsAreExclusive == Spec => []PortExclusive
BY Inductive, PTL DEF IInv

\* The registry never exceeds max_calls, console or not.
THEOREM LimitHolds == Spec => []CallLimit
BY Inductive, PTL DEF IInv

\* Every call at rest in the registry has a bound RTP port.
THEOREM AnsweredCallsKeepPorts == Spec => []AnsweredCallsHavePorts
BY Inductive, PTL DEF IInv

-----------------------------------------------------------------------------
(* Without re-INVITEs no port is lost.                                     *)

\* Destroying sessions orphans no port: theirs are released in the same step.
LEMMA ReclaimKeepsOwners ==
  ASSUME TypeOK, TypeOK', References, PortsHaveOwners, Reclaim
  PROVE  \A p \in activeSockets' :
           \/ \E s \in heap' : localRtpPort'[s] = p
           \/ sip.pc \in PortInHand /\ sip.port = p
<1> SUFFICES ASSUME NEW p \in activeSockets',
                    ~(sip.pc \in PortInHand /\ sip.port = p)
             PROVE  \E s \in heap' : localRtpPort'[s] = p
  OBVIOUS
<1>1. p \in activeSockets
  BY DEF Reclaim, Terminate
<1>2. PICK s \in heap : localRtpPort[s] = p
  BY <1>1 DEF PortsHaveOwners
<1>3. s \in heap' /\ localRtpPort'[s] = p
  BY <1>2 DEF Reclaim, Terminate, TypeOK
<1> QED
  BY <1>3

\* A port moves from the RtpServer to the handler, to a session, and back.
LEMMA LeaseStep ==
  ASSUME IInv, IInv', ~Reinvite, LeaseInv, [Next]_vars
  PROVE  LeaseInv'
<1> USE DEF TypeOK, SipPc, PortInHand, InCall, registryVars, sessionVars,
      GoTo, IInv, References, HandlerKnows, LeaseInv, NoPortYet,
      PortsHaveOwners
<1>1. ASSUME NEW c \in CallId, ReceiveInvite(c) PROVE LeaseInv'
  BY <1>1 DEF ReceiveInvite
<1>2. ASSUME NEW c \in CallId, ReceiveBye(c) PROVE LeaseInv'
  BY <1>2 DEF ReceiveBye
<1>3. ASSUME NEW c \in CallId, ReceiveCancel(c) PROVE LeaseInv'
  BY <1>3 DEF ReceiveCancel
<1>4. CASE RefuseBusy
  BY <1>4 DEF RefuseBusy
<1>5. CASE BelowLimit
  BY <1>5 DEF BelowLimit
<1>6. ASSUME NEW s \in Session, CreateCall(s) PROVE LeaseInv'
  BY <1>6 DEF CreateCall, AddCall
<1>7. ASSUME NEW p \in Port, AllocatePort(p) PROVE LeaseInv'
  BY <1>7 DEF AllocatePort
<1>8. CASE AllocationFails
  BY <1>8 DEF AllocationFails
<1>9. CASE RegisterPort
  BY <1>9 DEF RegisterPort, RegisterRtpPort
<1>10. CASE StartPipeline
  BY <1>10 DEF StartPipeline
<1>11. CASE NotAcceptable
  BY <1>11 DEF NotAcceptable
<1>12. CASE ReleaseOffered
  BY <1>12 DEF ReleaseOffered
<1>13. CASE TerminateSession
  BY <1>13 DEF TerminateSession, Terminate
<1>14. CASE RemoveHandled
  <2>1. NoPortYet'
    BY <1>14 DEF RemoveHandled, RemoveCall, Reclaim, Terminate, Referenced
  <2>2. PortsHaveOwners'
    BY <1>14, ReclaimKeepsOwners DEF RemoveHandled, RemoveCall
  <2> QED
    BY <2>1, <2>2
<1>15. CASE Return
  <2>1. NoPortYet'
    BY <1>15 DEF Return, IdleSip, Reclaim, Terminate, Referenced
  <2>2. PortsHaveOwners'
    BY <1>15, ReclaimKeepsOwners DEF Return, IdleSip
  <2> QED
    BY <2>1, <2>2
<1>16. ASSUME NEW c \in CallId, Cut(c) PROVE LeaseInv'
  <2>1. NoPortYet'
    BY <1>16 DEF Cut, RemoveCall, Reclaim, Terminate, Referenced
  <2>2. PortsHaveOwners'
    BY <1>16, ReclaimKeepsOwners DEF Cut, RemoveCall
  <2> QED
    BY <2>1, <2>2
<1>17. ASSUME NEW w \in Worker, NEW p \in Port, RtpReceive(w, p) PROVE
            LeaseInv'
  BY <1>17 DEF RtpReceive
<1>18. ASSUME NEW w \in Worker, RtpLookup(w) PROVE LeaseInv'
  BY <1>18 DEF RtpLookup, CallByPort, IdleWorker
<1>19. ASSUME NEW w \in Worker, RtpDone(w) PROVE LeaseInv'
  <2>1. NoPortYet'
    BY <1>19 DEF RtpDone, IdleWorker, Reclaim, Terminate, Referenced
  <2>2. PortsHaveOwners'
    BY <1>19, ReclaimKeepsOwners DEF RtpDone, IdleWorker
  <2> QED
    BY <2>1, <2>2
<1>20. CASE UNCHANGED vars
  BY <1>20 DEF vars
<1> QED
  BY <1>1, <1>2, <1>3, <1>4, <1>5, <1>6, <1>7, <1>8, <1>9, <1>10, <1>11,
     <1>12, <1>13, <1>14, <1>15, <1>16, <1>17, <1>18, <1>19, <1>20 DEF Next,
     SipStep, RtpStep

\* Without re-INVITEs no port leaks, even if the console cuts calls at will: a
\* bound port belongs to a session that exists or to the INVITE being handled.
THEOREM NoPortLeaks ==
  ASSUME ~Reinvite
  PROVE  Spec => []PortsHaveOwners
<1>1. Init => LeaseInv
  BY DEF Init, LeaseInv, NoPortYet, PortsHaveOwners, IdleSip
<1>2. IInv /\ IInv' /\ LeaseInv /\ [Next]_vars => LeaseInv'
  BY LeaseStep
<1>3. LeaseInv => PortsHaveOwners
  BY DEF LeaseInv
<1> QED
  BY <1>1, <1>2, <1>3, Inductive, PTL DEF Spec

-----------------------------------------------------------------------------
(* Without a console the registry's maps agree.                            *)

\* An entry of portMap_ is made, used and erased with its call.
LEMMA MapStep ==
  ASSUME IInv, IInv', ~Operator, MapInv, [Next]_vars
  PROVE  MapInv'
<1> USE DEF TypeOK, SipPc, PortInHand, InCall, registryVars, sessionVars,
      GoTo, IInv, References, OneIdPerSession, HandlerKnows,
      PortInHandIsFree, PortExclusive, AnsweredCallsHavePorts, MapInv,
      HandledStays, PortInHandEntry, EntriesAreCurrent, RegistryMapsAgree,
      AnsweredCallsAreReachable, Registered, Unsettled, CallByPort
<1>1. ASSUME NEW c \in CallId, ReceiveInvite(c) PROVE MapInv'
  BY <1>1 DEF ReceiveInvite
<1>2. ASSUME NEW c \in CallId, ReceiveBye(c) PROVE MapInv'
  BY <1>2 DEF ReceiveBye
<1>3. ASSUME NEW c \in CallId, ReceiveCancel(c) PROVE MapInv'
  BY <1>3 DEF ReceiveCancel
<1>4. CASE RefuseBusy
  BY <1>4 DEF RefuseBusy
<1>5. CASE BelowLimit
  BY <1>5 DEF BelowLimit
<1>6. ASSUME NEW s \in Session, CreateCall(s) PROVE MapInv'
  <2>1. HandledStays'
    BY <1>6 DEF CreateCall, AddCall
  <2>2. PortInHandEntry'
    BY <1>6 DEF CreateCall, AddCall
  <2>3. EntriesAreCurrent'
    BY <1>6 DEF CreateCall, AddCall
  <2>4. RegistryMapsAgree'
    BY <1>6 DEF CreateCall, AddCall
  <2>5. AnsweredCallsAreReachable'
    <3> SUFFICES ASSUME NEW c \in CallId, calls'[c] # None,
                        ~(sip'.call = c /\ sip'.pc \in Unsettled)
                 PROVE  /\ localRtpPort'[calls'[c]] \in Port
                        /\ portMap'[localRtpPort'[calls'[c]]] = c
      BY NoneAssumption
    <3>1. c # sip.call /\ calls'[c] = calls[c]
      BY <1>6 DEF CreateCall, AddCall
    <3>2. localRtpPort[calls[c]] \in Port /\ portMap[localRtpPort[calls[c]]] = c
      BY <3>1
    <3>3. calls[c] \in heap'
      BY <1>6, <3>1
    <3> QED
      BY <1>6, <3>1, <3>2, <3>3 DEF CreateCall
  <2> QED
    BY <2>1, <2>2, <2>3, <2>4, <2>5
<1>7. ASSUME NEW p \in Port, AllocatePort(p) PROVE MapInv'
  BY <1>7 DEF AllocatePort
<1>8. CASE AllocationFails
  BY <1>8 DEF AllocationFails
<1>9. CASE RegisterPort
  BY <1>9 DEF RegisterPort, RegisterRtpPort
<1>10. CASE StartPipeline
  BY <1>10 DEF StartPipeline
<1>11. CASE NotAcceptable
  BY <1>11 DEF NotAcceptable
<1>12. CASE ReleaseOffered
  BY <1>12 DEF ReleaseOffered
<1>13. CASE TerminateSession
  BY <1>13 DEF TerminateSession, Terminate
<1>14. CASE RemoveHandled
  <2>1. HandledStays'
    BY <1>14 DEF RemoveHandled, RemoveCall, Reclaim, Terminate, Referenced
  <2>2. PortInHandEntry'
    BY <1>14 DEF RemoveHandled, RemoveCall, Reclaim, Terminate, Referenced
  <2>3. EntriesAreCurrent'
    BY <1>14 DEF RemoveHandled, RemoveCall, Reclaim, Terminate, Referenced
  <2>4. RegistryMapsAgree'
    BY <1>14 DEF RemoveHandled, RemoveCall, Reclaim, Terminate, Referenced
  <2>5. AnsweredCallsAreReachable'
    <3> SUFFICES ASSUME NEW c \in CallId, calls'[c] # None,
                        ~(sip'.call = c /\ sip'.pc \in Unsettled)
                 PROVE  /\ localRtpPort'[calls'[c]] \in Port
                        /\ portMap'[localRtpPort'[calls'[c]]] = c
      BY NoneAssumption
    <3>1. c # sip.call /\ calls'[c] = calls[c]
      BY <1>14 DEF RemoveHandled, RemoveCall
    <3>2. localRtpPort[calls[c]] \in Port /\ portMap[localRtpPort[calls[c]]] = c
      BY <3>1
    <3>3. calls[c] \in heap'
      BY <1>14, <3>1
    <3> QED
      BY <1>14, <3>1, <3>2, <3>3 DEF RemoveHandled, RemoveCall, Reclaim, Terminate, Referenced
  <2> QED
    BY <2>1, <2>2, <2>3, <2>4, <2>5
<1>15. CASE Return
  BY <1>15 DEF Return, Reclaim, Terminate, IdleSip, Referenced
<1>16. ASSUME NEW c \in CallId, Cut(c) PROVE MapInv'
  BY <1>16 DEF Cut, RemoveCall, Reclaim, Terminate, Referenced
<1>17. ASSUME NEW w \in Worker, NEW p \in Port, RtpReceive(w, p) PROVE
            MapInv'
  BY <1>17 DEF RtpReceive
<1>18. ASSUME NEW w \in Worker, RtpLookup(w) PROVE MapInv'
  BY <1>18 DEF RtpLookup, CallByPort, IdleWorker
<1>19. ASSUME NEW w \in Worker, RtpDone(w) PROVE MapInv'
  BY <1>19 DEF RtpDone, Reclaim, Terminate, IdleWorker, Referenced
<1>20. CASE UNCHANGED vars
  BY <1>20 DEF vars
<1> QED
  BY <1>1, <1>2, <1>3, <1>4, <1>5, <1>6, <1>7, <1>8, <1>9, <1>10, <1>11,
     <1>12, <1>13, <1>14, <1>15, <1>16, <1>17, <1>18, <1>19, <1>20 DEF Next,
     SipStep, RtpStep

\* Without a console the invariant of the port maps holds throughout.
LEMMA MapsInductive ==
  ASSUME ~Operator
  PROVE  Spec => []MapInv
<1>1. Init => MapInv
  BY DEF Init, MapInv, HandledStays, PortInHandEntry, EntriesAreCurrent,
         RegistryMapsAgree, AnsweredCallsAreReachable, Registered, InCall,
         IdleSip
<1>2. IInv /\ IInv' /\ MapInv /\ [Next]_vars => MapInv'
  BY MapStep
<1> QED
  BY <1>1, <1>2, Inductive, PTL DEF Spec

\* As long as nobody cuts calls at the console, portMap_ and callToPorts_ are
\* inverses of each other and name only registered calls.
THEOREM MapsAgree ==
  ASSUME ~Operator
  PROVE  Spec => []RegistryMapsAgree
BY MapsInductive, PTL DEF MapInv

\* Under the same condition a packet on the port of a settled call reaches it.
THEOREM CallsAreReachable ==
  ASSUME ~Operator
  PROVE  Spec => []AnsweredCallsAreReachable
BY MapsInductive, PTL DEF MapInv
=============================================================================

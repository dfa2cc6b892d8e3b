--------------------------- MODULE BotClientProofs ---------------------------
(***************************************************************************)
(* The lives of VoiceBotClient and GrpcBridgeStage, for any number of      *)
(* pipelines and however reader, worker and SIP thread interleave: a       *)
(* reader that calls back finds its stage, a stop finds a reader that      *)
(* ends, and std::terminate needs a bot that closes its stream first.      *)
(***************************************************************************)
EXTENDS BotClient, TLAPS

Destroying(a) == pc[a] \in {"destroy", "destroyed"}

\* An actor has told the reader of g to end and waits for it.
Stopping(g) == \E a \in Actor : pc[a] \in {"stop", "destroyed"} /\ target[a] = g

\* Where each actor can be, and what the session holds there.
PlaceInv ==
  /\ pc["worker"] \in {"idle", "destroy", "destroyed"}
  /\ copied # None => pc["worker"] = "idle"
  /\ pc["sip"] # "client" => botClient = pipeline
  /\ pc["sip"] = "client" =>
       pipeline \in Gen /\ reader[pipeline] = "none" /\ botClient # pipeline /\ copied # pipeline
  /\ pc["sip"] = "connect" => pipeline \in Gen /\ reader[pipeline] = "none"
  /\ pc["sip"] \in {"stage", "stop", "drop"} => pipeline \in Gen
  /\ pc["sip"] \in {"destroy", "destroyed"} /\ pipeline # None => reader[pipeline] = "none"
  /\ pc["sip"] = "stop" => target["sip"] = botClient

\* The callback is set by the stage's constructor.
StageInv == \A g \in Gen : reader[g] = "callback" => hasStage[g]

\* What is being destroyed is held by nobody, but for a copied pipeline that has no
\* stage, and destroyed by one actor.
TargetInv ==
  /\ \A a \in Actor : target[a] # None <=> pc[a] \in {"stop", "destroy", "destroyed"}
  /\ \A a \in Actor : Destroying(a) =>
       /\ target[a] \notin {pipeline, botClient}
       /\ target[a] = copied => ~hasStage[copied]
  /\ target["sip"] # None => target["sip"] # target["worker"]

\* running_, the reader and the stream of a client.
ReaderInv ==
  /\ \A g \in Gen : running[g] => reader[g] \in {"read", "callback"}
  /\ \A g \in Gen : reader[g] \in {"read", "callback"} /\ ~running[g] => Stopping(g)
  /\ \A g \in Gen : Stopping(g) =>
       ~running[g] /\ stream[g] # "open" /\ reader[g] \in {"read", "callback", "ended"}

BotInv == TypeOK /\ PlaceInv /\ StageInv /\ TargetInv /\ ReaderInv

\* Without re-INVITEs a reader is at work only for the pipeline of the session.
OneReaderInv ==
  \A g \in Gen : reader[g] \in {"read", "callback"} =>
    /\ pipeline = g
    /\ pc["sip"] \in {"stage", "idle", "stop"}

\* A bot that keeps its stream open leaves every reader to be ended by a stop.
StreamInv ==
  \A g \in Gen : /\ running[g] => stream[g] = "open"
                 /\ reader[g] = "ended" => Stopping(g)

LEMMA BotStarts == Init => BotInv /\ OneReaderInv /\ StreamInv
<1> SUFFICES ASSUME Init  PROVE BotInv /\ OneReaderInv /\ StreamInv
  OBVIOUS
<1> USE DEF Init, Actor, None
<1>1. TypeOK
  BY DEF TypeOK
<1>2. PlaceInv /\ StageInv /\ TargetInv
  BY DEF PlaceInv, StageInv, TargetInv, Destroying
<1>3. ReaderInv /\ OneReaderInv /\ StreamInv
  BY DEF ReaderInv, Stopping, OneReaderInv, StreamInv
<1> QED  BY <1>1, <1>2, <1>3 DEF BotInv

\* Numbers of pipelines are not None.
LEMMA GenIsSome == None \notin Gen
BY PipelinesAssumption DEF Gen, None

\* An actor goes on, or begins to destroy a client that has just lost its last owner.
LEMMA ContinueEffect ==
  ASSUME NEW a, NEW next, Continue(a, next)
  PROVE  \/ pc' = [pc EXCEPT ![a] = next] /\ target' = target
         \/ \E g \in Gen : /\ ClientLives(g) /\ ~ClientLives(g)'
                         /\ pc' = [pc EXCEPT ![a] = "destroy"]
                         /\ target' = [target EXCEPT ![a] = g]
<1> DEFINE gone == {g \in Gen : ClientLives(g) /\ ~ClientLives(g)'}
<1>1. CASE gone = {}
  BY <1>1 DEF Continue
<1>2. CASE gone # {}
  <2>1. pc' = [pc EXCEPT ![a] = "destroy"] /\ target' \in {[target EXCEPT ![a] = g] : g \in gone}
    BY <1>2 DEF Continue
  <2>2. PICK g \in gone : target' = [target EXCEPT ![a] = g]
    BY <2>1
  <2> QED  BY <2>1, <2>2
<1> QED  BY <1>1, <1>2

-----------------------------------------------------------------------------
(* Every step keeps the invariant.                                         *)

\* A pipeline is started with a number that nobody holds ...
LEMMA StartPipelineKeeps ==
  ASSUME BotInv, NEW g \in Gen, StartPipeline(g)
  PROVE  BotInv'
<1>1. TypeOK'
  BY GenIsSome DEF BotInv, TypeOK, PlaceInv, StartPipeline, Unused, objects, client,
         control, Actor
<1>2. PlaceInv'
  BY GenIsSome DEF BotInv, TypeOK, PlaceInv, StartPipeline, Unused, objects, client,
         control, Actor
<1>3. StageInv'
  BY GenIsSome DEF BotInv, TypeOK, PlaceInv, StageInv, StartPipeline, Unused, objects,
         client, control, Actor
<1>4. TargetInv'
  BY GenIsSome DEF BotInv, TypeOK, PlaceInv, StageInv, TargetInv, Destroying,
         StartPipeline, Unused, objects, client, control, Actor
<1>5. ReaderInv'
  BY GenIsSome DEF BotInv, TypeOK, PlaceInv, TargetInv, ReaderInv, Stopping, Destroying,
         StartPipeline, Unused, objects, client, control, Actor
<1> QED  BY <1>1, <1>2, <1>3, <1>4, <1>5 DEF BotInv

\* ... gets its client, which may end the life of the one before ...
LEMMA CreateClientKeeps == ASSUME BotInv, CreateClient  PROVE BotInv'
<1>1. TypeOK'
  BY ContinueEffect, GenIsSome DEF BotInv, TypeOK, PlaceInv, CreateClient, ClientLives,
         StageLives, objects, client, control, Actor
<1>2. PlaceInv'
  BY ContinueEffect, GenIsSome DEF BotInv, TypeOK, PlaceInv, CreateClient, ClientLives,
         StageLives, objects, client, control, Actor
<1>3. StageInv'
  BY ContinueEffect, GenIsSome DEF BotInv, TypeOK, PlaceInv, StageInv, CreateClient,
         ClientLives, StageLives, objects, client, control, Actor
<1>4. TargetInv'
  BY ContinueEffect, GenIsSome DEF BotInv, TypeOK, PlaceInv, StageInv, TargetInv,
         Destroying, CreateClient, ClientLives, StageLives, objects, client, control,
         Actor
<1>5. ReaderInv'
  BY ContinueEffect, GenIsSome DEF BotInv, TypeOK, PlaceInv, TargetInv, ReaderInv,
         Stopping, Destroying, CreateClient, ClientLives, StageLives, objects, client,
         control, Actor
<1> QED  BY <1>1, <1>2, <1>3, <1>4, <1>5 DEF BotInv

\* ... whose reader starts ...
LEMMA ConnectKeeps == ASSUME BotInv, Connect  PROVE BotInv'
<1>1. TypeOK'
  BY GenIsSome DEF BotInv, TypeOK, PlaceInv, Connect, objects, client, control, Actor
<1>2. PlaceInv'
  BY GenIsSome DEF BotInv, TypeOK, PlaceInv, Connect, objects, client, control, Actor
<1>3. StageInv'
  BY GenIsSome DEF BotInv, TypeOK, PlaceInv, StageInv, Connect, objects, client,
         control, Actor
<1>4. TargetInv'
  BY GenIsSome DEF BotInv, TypeOK, PlaceInv, StageInv, TargetInv, Destroying, Connect,
         objects, client, control, Actor
<1>5. ReaderInv'
  BY GenIsSome DEF BotInv, TypeOK, PlaceInv, TargetInv, ReaderInv, Stopping, Destroying,
         Connect, objects, client, control, Actor
<1> QED  BY <1>1, <1>2, <1>3, <1>4, <1>5 DEF BotInv

\* ... unless there is no stream ...
LEMMA ConnectFailsKeeps == ASSUME BotInv, ConnectFails  PROVE BotInv'
<1>1. TypeOK'
  BY GenIsSome DEF BotInv, TypeOK, PlaceInv, ConnectFails, objects, client, Actor
<1>2. PlaceInv'
  BY GenIsSome DEF BotInv, TypeOK, PlaceInv, ConnectFails, objects, client, Actor
<1>3. StageInv'
  BY DEF BotInv, StageInv, ConnectFails, objects, client
<1>4. TargetInv'
  BY GenIsSome DEF BotInv, TypeOK, PlaceInv, TargetInv, Destroying, ConnectFails,
         objects, client, Actor
<1>5. ReaderInv'
  BY DEF BotInv, TypeOK, ReaderInv, Stopping, ConnectFails, objects, client, Actor
<1> QED  BY <1>1, <1>2, <1>3, <1>4, <1>5 DEF BotInv

\* ... and its stage.
LEMMA AddStageKeeps == ASSUME BotInv, AddStage  PROVE BotInv'
<1>1. TypeOK'
  BY GenIsSome DEF BotInv, TypeOK, PlaceInv, AddStage, objects, client, control, Actor
<1>2. PlaceInv'
  BY GenIsSome DEF BotInv, TypeOK, PlaceInv, AddStage, objects, client, control, Actor
<1>3. StageInv'
  BY GenIsSome DEF BotInv, TypeOK, PlaceInv, StageInv, AddStage, objects, client,
         control, Actor
<1>4. TargetInv'
  BY GenIsSome DEF BotInv, TypeOK, PlaceInv, StageInv, TargetInv, Destroying, AddStage,
         objects, client, control, Actor
<1>5. ReaderInv'
  BY GenIsSome DEF BotInv, TypeOK, PlaceInv, TargetInv, ReaderInv, Stopping, Destroying,
         AddStage, objects, client, control, Actor
<1> QED  BY <1>1, <1>2, <1>3, <1>4, <1>5 DEF BotInv

\* terminate tells the reader to end ...
LEMMA TerminateKeeps == ASSUME BotInv, Terminate  PROVE BotInv'
<1>1. TypeOK'
  <2>0. botClient \in Gen
    BY GenIsSome DEF BotInv, TypeOK, Terminate, PlaceInv
  <2>1. CASE running[botClient]
    <3>1. StopReader(botClient) /\ UNCHANGED <<objects, aborted>>
      BY <2>1 DEF BotInv, TypeOK, Terminate
    <3>2. running' \in [Gen -> BOOLEAN]
      BY <3>1 DEF BotInv, TypeOK, StopReader
    <3>3. stream' \in [Gen -> {"open", "closed", "cancelled"}] /\ reader' = reader
      BY <3>1 DEF BotInv, TypeOK, StopReader
    <3>4. /\ pc' \in [Actor -> {"idle", "client", "connect", "stage", "stop",
                           "drop", "destroy", "destroyed"}]
          /\ target' \in [Actor -> Gen \cup {None}]
          /\ \A b \in Actor : pc'[b] \in {"stop", "destroy", "destroyed"} => target'[b] \in Gen
          /\ pc'["sip"] = "idle" => pc["sip"] = "idle"
      BY <2>0, <2>1 DEF BotInv, TypeOK, Terminate, Actor
    <3> QED  BY <3>1, <3>2, <3>3, <3>4 DEF BotInv, TypeOK, objects
  <2>2. CASE ~running[botClient]
    BY <2>0, <2>2, GenIsSome DEF BotInv, TypeOK, PlaceInv, Terminate, StopReader,
           objects, client, control, Actor
  <2> QED  BY <2>1, <2>2
<1>2. PlaceInv'
  BY GenIsSome DEF BotInv, TypeOK, PlaceInv, Terminate, StopReader, objects, client,
         control, Actor
<1>3. StageInv'
  BY GenIsSome DEF BotInv, TypeOK, PlaceInv, StageInv, Terminate, StopReader, objects,
         client, control, Actor
<1>4. TargetInv'
  BY GenIsSome DEF BotInv, TypeOK, PlaceInv, StageInv, TargetInv, Destroying, Terminate,
         StopReader, objects, client, control, Actor
<1>5. ReaderInv'
  BY GenIsSome DEF BotInv, TypeOK, PlaceInv, TargetInv, ReaderInv, Stopping, Destroying,
         Terminate, StopReader, objects, client, control, Actor
<1> QED  BY <1>1, <1>2, <1>3, <1>4, <1>5 DEF BotInv

\* ... waits for it ...
LEMMA JoinKeeps ==
  ASSUME BotInv, NEW a \in Actor, Join(a)
  PROVE  BotInv'
<1>1. TypeOK'
  BY GenIsSome DEF BotInv, TypeOK, PlaceInv, Join, After, objects, client, control,
         Actor
<1>2. PlaceInv'
  BY GenIsSome DEF BotInv, TypeOK, PlaceInv, Join, After, objects, client, control,
         Actor
<1>3. StageInv'
  BY GenIsSome DEF BotInv, TypeOK, PlaceInv, StageInv, Join, After, objects, client,
         control, Actor
<1>4. TargetInv'
  BY GenIsSome DEF BotInv, TypeOK, PlaceInv, StageInv, TargetInv, Destroying, Join,
         After, objects, client, control, Actor
<1>5. ReaderInv'
  BY GenIsSome DEF BotInv, TypeOK, PlaceInv, TargetInv, ReaderInv, Stopping, Destroying,
         Join, After, objects, client, control, Actor
<1> QED  BY <1>1, <1>2, <1>3, <1>4, <1>5 DEF BotInv

\* ... and drops client and pipeline.
LEMMA DropKeeps == ASSUME BotInv, Drop  PROVE BotInv'
<1>1. TypeOK'
  BY ContinueEffect, GenIsSome DEF BotInv, TypeOK, PlaceInv, Drop, ClientLives,
         StageLives, objects, client, control, Actor
<1>2. PlaceInv'
  BY ContinueEffect, GenIsSome DEF BotInv, TypeOK, PlaceInv, Drop, ClientLives,
         StageLives, objects, client, control, Actor
<1>3. StageInv'
  BY ContinueEffect, GenIsSome DEF BotInv, TypeOK, PlaceInv, StageInv, Drop,
         ClientLives, StageLives, objects, client, control, Actor
<1>4. TargetInv'
  BY ContinueEffect, GenIsSome DEF BotInv, TypeOK, PlaceInv, StageInv, TargetInv,
         Destroying, Drop, ClientLives, StageLives, objects, client, control, Actor
<1>5. ReaderInv'
  BY ContinueEffect, GenIsSome DEF BotInv, TypeOK, PlaceInv, TargetInv, ReaderInv,
         Stopping, Destroying, Drop, ClientLives, StageLives, objects, client,
         control, Actor
<1> QED  BY <1>1, <1>2, <1>3, <1>4, <1>5 DEF BotInv

\* A destructor stops a reader that still runs.
LEMMA DestroyKeeps ==
  ASSUME BotInv, NEW a \in Actor, Destroy(a)
  PROVE  BotInv'
<1>1. TypeOK'
  <2>0. target[a] \in Gen
    BY DEF BotInv, TypeOK, Destroy
  <2>1. CASE running[target[a]]
    <3>1. StopReader(target[a]) /\ UNCHANGED <<objects, aborted>>
      BY <2>1 DEF BotInv, TypeOK, Destroy
    <3>2. running' \in [Gen -> BOOLEAN]
      BY <3>1 DEF BotInv, TypeOK, StopReader
    <3>3. stream' \in [Gen -> {"open", "closed", "cancelled"}] /\ reader' = reader
      BY <3>1 DEF BotInv, TypeOK, StopReader
    <3>4. /\ pc' \in [Actor -> {"idle", "client", "connect", "stage", "stop",
                           "drop", "destroy", "destroyed"}]
          /\ target' \in [Actor -> Gen \cup {None}]
          /\ \A b \in Actor : pc'[b] \in {"stop", "destroy", "destroyed"} => target'[b] \in Gen
          /\ pc'["sip"] = "idle" => pc["sip"] = "idle"
      BY <2>0, <2>1 DEF BotInv, TypeOK, Destroy, Actor
    <3> QED  BY <3>1, <3>2, <3>3, <3>4 DEF BotInv, TypeOK, objects
  <2>2. CASE ~running[target[a]]
    BY <2>0, <2>2, GenIsSome DEF BotInv, TypeOK, PlaceInv, Destroy, After, StopReader,
           objects, client, control, Actor
  <2> QED  BY <2>1, <2>2
<1>2. PlaceInv'
  BY GenIsSome DEF BotInv, TypeOK, PlaceInv, Destroy, After, StopReader, objects,
         client, control, Actor
<1>3. StageInv'
  BY GenIsSome DEF BotInv, TypeOK, PlaceInv, StageInv, Destroy, After, StopReader,
         objects, client, control, Actor
<1>4. TargetInv'
  BY GenIsSome DEF BotInv, TypeOK, PlaceInv, StageInv, TargetInv, Destroying, Destroy,
         After, StopReader, objects, client, control, Actor
<1>5. ReaderInv'
  BY GenIsSome DEF BotInv, TypeOK, PlaceInv, TargetInv, ReaderInv, Stopping, Destroying,
         Destroy, After, StopReader, objects, client, control, Actor
<1> QED  BY <1>1, <1>2, <1>3, <1>4, <1>5 DEF BotInv

\* A worker takes a copy of the pipeline ...
LEMMA CopyPipelineKeeps == ASSUME BotInv, CopyPipeline  PROVE BotInv'
<1>1. TypeOK'
  BY GenIsSome DEF BotInv, TypeOK, PlaceInv, CopyPipeline, objects, client, control,
         Actor
<1>2. PlaceInv'
  BY GenIsSome DEF BotInv, TypeOK, PlaceInv, CopyPipeline, objects, client, control,
         Actor
<1>3. StageInv'
  BY GenIsSome DEF BotInv, TypeOK, PlaceInv, StageInv, CopyPipeline, objects, client,
         control, Actor
<1>4. TargetInv'
  BY GenIsSome DEF BotInv, TypeOK, PlaceInv, StageInv, TargetInv, Destroying,
         CopyPipeline, objects, client, control, Actor
<1>5. ReaderInv'
  BY GenIsSome DEF BotInv, TypeOK, PlaceInv, TargetInv, ReaderInv, Stopping, Destroying,
         CopyPipeline, objects, client, control, Actor
<1> QED  BY <1>1, <1>2, <1>3, <1>4, <1>5 DEF BotInv

\* ... and drops it, perhaps as the last.
LEMMA ReleaseCopyKeeps == ASSUME BotInv, ReleaseCopy  PROVE BotInv'
<1>1. TypeOK'
  BY ContinueEffect, GenIsSome DEF BotInv, TypeOK, PlaceInv, ReleaseCopy, ClientLives,
         StageLives, objects, client, control, Actor
<1>2. PlaceInv'
  BY ContinueEffect, GenIsSome DEF BotInv, TypeOK, PlaceInv, ReleaseCopy, ClientLives,
         StageLives, objects, client, control, Actor
<1>3. StageInv'
  BY ContinueEffect, GenIsSome DEF BotInv, TypeOK, PlaceInv, StageInv, ReleaseCopy,
         ClientLives, StageLives, objects, client, control, Actor
<1>4. TargetInv'
  BY ContinueEffect, GenIsSome DEF BotInv, TypeOK, PlaceInv, StageInv, TargetInv,
         Destroying, ReleaseCopy, ClientLives, StageLives, objects, client, control,
         Actor
<1>5. ReaderInv'
  BY ContinueEffect, GenIsSome DEF BotInv, TypeOK, PlaceInv, TargetInv, ReaderInv,
         Stopping, Destroying, ReleaseCopy, ClientLives, StageLives, objects, client,
         control, Actor
<1> QED  BY <1>1, <1>2, <1>3, <1>4, <1>5 DEF BotInv

\* The reader goes on, or finds the stream closed.
LEMMA ReaderKeeps ==
  ASSUME BotInv, NEW g \in Gen, ReadAudio(g) \/ ReaderStep(g) \/ CloseStream(g)
  PROVE  BotInv'
<1>1. TypeOK'
  <2>1. UNCHANGED <<objects, control, aborted>>
    BY DEF ReadAudio, ReaderStep, CallbackReturns, ReadFails, CloseStream
  <2>2. reader' \in [Gen -> {"none", "read", "callback", "ended", "joined"}]
    BY DEF BotInv, TypeOK, ReadAudio, ReaderStep, CallbackReturns, ReadFails, CloseStream
  <2>3. stream' \in [Gen -> {"open", "closed", "cancelled"}]
    BY DEF BotInv, TypeOK, ReadAudio, ReaderStep, CallbackReturns, ReadFails, CloseStream
  <2>4. running' \in [Gen -> BOOLEAN]
    BY DEF BotInv, TypeOK, ReadAudio, ReaderStep, CallbackReturns, ReadFails, CloseStream
  <2> QED  BY <2>1, <2>2, <2>3, <2>4 DEF BotInv, TypeOK, objects, control
<1>2. PlaceInv'
  BY GenIsSome DEF BotInv, TypeOK, PlaceInv, ReadAudio, ReaderStep, CallbackReturns,
         ReadFails, CloseStream, objects, client, control, Actor
<1>3. StageInv'
  BY GenIsSome DEF BotInv, TypeOK, PlaceInv, StageInv, ReadAudio, ReaderStep,
         CallbackReturns, ReadFails, CloseStream, objects, client, control, Actor
<1>4. TargetInv'
  BY GenIsSome DEF BotInv, TypeOK, PlaceInv, StageInv, TargetInv, Destroying, ReadAudio,
         ReaderStep, CallbackReturns, ReadFails, CloseStream, objects, client,
         control, Actor
<1>5. ReaderInv'
  BY GenIsSome DEF BotInv, TypeOK, PlaceInv, TargetInv, ReaderInv, Stopping, Destroying,
         ReadAudio, ReaderStep, CallbackReturns, ReadFails, CloseStream, objects,
         client, control, Actor
<1> QED  BY <1>1, <1>2, <1>3, <1>4, <1>5 DEF BotInv

\* All of them together.
LEMMA BotKeeps == BotInv /\ [Next]_vars => BotInv'
<1> SUFFICES ASSUME BotInv, [Next]_vars  PROVE BotInv'
  OBVIOUS
<1>1. CASE Next
  BY <1>1, StartPipelineKeeps, CreateClientKeeps, ConnectKeeps, ConnectFailsKeeps, AddStageKeeps,
     TerminateKeeps, JoinKeeps, DropKeeps, DestroyKeeps, CopyPipelineKeeps, ReleaseCopyKeeps, ReaderKeeps
     DEF Next, SipStep, WorkerStep, Actor
<1>2. CASE UNCHANGED vars
  <2>1. UNCHANGED <<pipeline, botClient, copied, hasStage, running, reader, stream, pc, target,
                    aborted>>
    BY <1>2 DEF vars
  <2>2. TypeOK' /\ PlaceInv' /\ StageInv'
    BY <2>1 DEF BotInv, TypeOK, PlaceInv, StageInv
  <2>3. TargetInv' /\ ReaderInv'
    BY <2>1 DEF BotInv, TargetInv, ReaderInv, Destroying, Stopping
  <2> QED  BY <2>2, <2>3 DEF BotInv
<1> QED  BY <1>1, <1>2

LEMMA BotAlways == Spec => []BotInv
BY BotStarts, BotKeeps, PTL DEF Spec

\* Without re-INVITEs there is no pipeline but the one whose reader has been stopped
\* before it goes.
LEMMA OneReaderKeeps ==
  ASSUME ~Reinvite, BotInv, OneReaderInv, [Next]_vars
  PROVE  OneReaderInv'
<1>1. TypeOK /\ PlaceInv /\ TargetInv /\ ReaderInv
  BY DEF BotInv
<1>2. CASE \E g \in Gen : StartPipeline(g)
  BY <1>1, <1>2, GenIsSome
     DEF StartPipeline, Unused, OneReaderInv, TypeOK, Actor
<1>3. CASE CreateClient
  BY <1>1, <1>3 DEF CreateClient, OneReaderInv, client
<1>4. CASE Connect
  BY <1>1, <1>4 DEF Connect, OneReaderInv, PlaceInv, TypeOK, Actor, objects
<1>5. CASE AddStage
  BY <1>1, <1>5 DEF AddStage, OneReaderInv, TypeOK, Actor, client
<1>14. CASE ConnectFails
  BY <1>1, <1>14 DEF ConnectFails, OneReaderInv, TypeOK, Actor, client, objects
<1>6. CASE Terminate
  <2>1. CASE running[botClient]
    BY <1>1, <1>6, <2>1 DEF Terminate, StopReader, OneReaderInv, TypeOK, Actor, objects
  <2>2. CASE ~running[botClient]
    <3>1. \A g \in Gen : reader[g] \notin {"read", "callback"}
      <4> SUFFICES ASSUME NEW g \in Gen, reader[g] \in {"read", "callback"}  PROVE FALSE
        OBVIOUS
      <4>1. g = botClient /\ pc["sip"] = "idle"
        BY <1>1, <1>6 DEF Terminate, OneReaderInv, PlaceInv
      <4>2. PICK a \in Actor : pc[a] \in {"stop", "destroyed"} /\ target[a] = g
        BY <1>1, <2>2, <4>1 DEF ReaderInv, Stopping
      <4>3. a = "worker" /\ Destroying(a)
        BY <1>1, <4>1, <4>2 DEF Actor, Destroying, PlaceInv
      <4> QED  BY <1>1, <4>1, <4>2, <4>3 DEF TargetInv
    <3>2. reader' = reader
      BY <1>6, <2>2 DEF Terminate, client
    <3> QED  BY <3>1, <3>2 DEF OneReaderInv
  <2> QED  BY <2>1, <2>2
<1>7. ASSUME NEW a \in Actor, Join(a)  PROVE OneReaderInv'
  <2>1. target[a] \in Gen /\ reader[target[a]] = "ended"
    BY <1>1, <1>7 DEF Join, TypeOK
  <2>2. \A g \in Gen : reader'[g] \in {"read", "callback"} =>
          g # target[a] /\ reader[g] \in {"read", "callback"}
    BY <1>1, <1>7, <2>1 DEF Join, TypeOK
  <2>3. CASE a = "sip"
    <3>1. \A g \in Gen : reader[g] \notin {"read", "callback"}
      BY <1>1, <1>7, <2>1, <2>3 DEF Join, OneReaderInv, PlaceInv
    <3> QED  BY <2>2, <3>1 DEF OneReaderInv
  <2>4. CASE a = "worker"
    <3>1. pc'["sip"] = pc["sip"] /\ pipeline' = pipeline
      BY <1>1, <1>7, <2>4 DEF Join, TypeOK, objects, Actor
    <3> QED  BY <2>2, <3>1 DEF OneReaderInv
  <2> QED  BY <2>3, <2>4 DEF Actor
<1>8. CASE Drop
  BY <1>1, <1>8 DEF Drop, OneReaderInv, client
<1>9. ASSUME NEW a \in Actor, Destroy(a)  PROVE OneReaderInv'
  <2>1. reader' = reader /\ pipeline' = pipeline
    BY <1>9 DEF Destroy, StopReader, client, objects
  <2>2. CASE a = "sip"
    BY <1>1, <1>9, <2>1, <2>2 DEF Destroy, OneReaderInv
  <2>3. CASE a = "worker"
    <3>1. pc'["sip"] = pc["sip"]
      BY <1>1, <1>9, <2>3 DEF Destroy, TypeOK, Actor
    <3> QED  BY <2>1, <3>1 DEF OneReaderInv
  <2> QED  BY <2>2, <2>3 DEF Actor
<1>10. CASE CopyPipeline
  BY <1>10 DEF CopyPipeline, OneReaderInv, client, control
<1>11. CASE ReleaseCopy
  <2>1. reader' = reader /\ pipeline' = pipeline
    BY <1>11 DEF ReleaseCopy, client
  <2>2. pc'["sip"] = pc["sip"]
    BY <1>1, <1>11, ContinueEffect DEF ReleaseCopy, TypeOK, Actor
  <2> QED  BY <2>1, <2>2 DEF OneReaderInv
<1>12. ASSUME NEW g \in Gen, ReadAudio(g) \/ ReaderStep(g) \/ CloseStream(g)
       PROVE  OneReaderInv'
  BY <1>1, <1>12 DEF ReadAudio, ReaderStep, CallbackReturns, ReadFails, CloseStream,
                     OneReaderInv, TypeOK, objects, control
<1>13. CASE UNCHANGED vars
  BY <1>13 DEF vars, OneReaderInv
<1> QED
  BY <1>2, <1>3, <1>4, <1>5, <1>6, <1>7, <1>8, <1>9, <1>10, <1>11, <1>12, <1>13, <1>14
     DEF Next, SipStep, WorkerStep, Actor

\* A stream that the bot keeps open ends by being cancelled.
LEMMA StreamKeeps ==
  ASSUME ~BotCloses, BotInv, StreamInv, [Next]_vars
  PROVE  StreamInv'
<1>1. TypeOK /\ PlaceInv /\ TargetInv /\ ReaderInv
  BY DEF BotInv
<1>2. ASSUME NEW g \in Gen, StartPipeline(g)  PROVE StreamInv'
  <2>1. ~running[g] /\ reader'[g] = "none" /\ running' = running
    BY <1>1, <1>2 DEF StartPipeline, Unused, ReaderInv, TypeOK
  <2>2. \A h \in Gen \ {g} : reader'[h] = reader[h] /\ stream'[h] = stream[h]
    BY <1>1, <1>2 DEF StartPipeline, TypeOK
  <2>3. \A h \in Gen : Stopping(h)' <=> Stopping(h)
    BY <1>1, <1>2 DEF StartPipeline, Stopping, TypeOK, Actor
  <2> QED  BY <2>1, <2>2, <2>3 DEF StreamInv
<1>3. CASE CreateClient \/ Drop \/ ReleaseCopy
  <2>1. UNCHANGED <<running, reader, stream>>
    BY <1>3 DEF CreateClient, Drop, ReleaseCopy, client
  <2>2. \A h \in Gen : Stopping(h)' <=> Stopping(h)
    BY <1>1, <1>3, ContinueEffect
       DEF CreateClient, Drop, ReleaseCopy, Stopping, TypeOK, PlaceInv, Actor
  <2> QED  BY <2>1, <2>2 DEF StreamInv
<1>4. CASE Connect
  <2>1. \A h \in Gen : Stopping(h)' <=> Stopping(h)
    BY <1>1, <1>4 DEF Connect, Stopping, TypeOK, Actor
  <2> QED  BY <1>1, <1>4, <2>1 DEF Connect, StreamInv, PlaceInv, TypeOK
<1>5. CASE ConnectFails \/ AddStage \/ CopyPipeline
  <2>1. UNCHANGED <<running, reader, stream>>
    BY <1>5 DEF ConnectFails, AddStage, CopyPipeline, client
  <2>2. \A h \in Gen : Stopping(h)' <=> Stopping(h)
    BY <1>1, <1>5 DEF ConnectFails, AddStage, CopyPipeline, Stopping, TypeOK, Actor, control
  <2> QED  BY <2>1, <2>2 DEF StreamInv
<1>6. ASSUME NEW a \in Actor, NEW g \in Gen, StopReader(g), pc[a] \notin {"stop", "destroyed"},
             pc' \in {[pc EXCEPT ![a] = "stop"], [pc EXCEPT ![a] = "destroyed"]},
             target' = [target EXCEPT ![a] = g]
      PROVE  StreamInv'
  <2>1. /\ reader' = reader /\ ~running'[g]
        /\ \A h \in Gen \ {g} : running'[h] = running[h] /\ stream'[h] = stream[h]
    BY <1>1, <1>6 DEF StopReader, TypeOK
  <2>2. \A h \in Gen : Stopping(h) => Stopping(h)'
    BY <1>1, <1>6 DEF Stopping, TypeOK, Actor
  <2> QED  BY <2>1, <2>2 DEF StreamInv
<1>7. CASE Terminate
  <2>1. botClient \in Gen
    BY <1>1, <1>7, GenIsSome DEF Terminate, PlaceInv, TypeOK
  <2>2. CASE running[botClient]
    BY <1>6, <1>7, <2>1, <2>2 DEF Terminate, Actor
  <2>3. CASE ~running[botClient]
    <3>1. UNCHANGED <<running, reader, stream>>
      BY <1>7, <2>3 DEF Terminate, client
    <3>2. \A h \in Gen : Stopping(h)' <=> Stopping(h)
      BY <1>1, <1>7, <2>3 DEF Terminate, Stopping, TypeOK, Actor
    <3> QED  BY <3>1, <3>2 DEF StreamInv
  <2> QED  BY <2>2, <2>3
<1>8. ASSUME NEW a \in Actor, Destroy(a)  PROVE StreamInv'
  <2>1. target[a] \in Gen /\ pc[a] = "destroy"
    BY <1>1, <1>8 DEF Destroy, TypeOK
  <2>2. CASE running[target[a]]
    <3>1. target' = [target EXCEPT ![a] = target[a]]
      BY <1>1, <1>8, <2>2 DEF Destroy, TypeOK
    <3> QED  BY <1>6, <1>8, <2>1, <2>2, <3>1 DEF Destroy
  <2>3. CASE ~running[target[a]]
    <3>1. UNCHANGED <<running, reader, stream>>
      BY <1>8, <2>3 DEF Destroy, client
    <3>2. \A h \in Gen : Stopping(h)' <=> Stopping(h)
      BY <1>1, <1>8, <2>1, <2>3 DEF Destroy, After, Stopping, TypeOK, Actor
    <3> QED  BY <3>1, <3>2 DEF StreamInv
  <2> QED  BY <2>2, <2>3
<1>9. ASSUME NEW a \in Actor, Join(a)  PROVE StreamInv'
  <2>1. /\ target[a] \in Gen /\ reader'[target[a]] = "joined"
        /\ \A h \in Gen \ {target[a]} : reader'[h] = reader[h]
    BY <1>1, <1>9 DEF Join, TypeOK
  <2>2. UNCHANGED <<running, stream>>
    BY <1>9 DEF Join
  <2>3. \A h \in Gen \ {target[a]} : Stopping(h) => Stopping(h)'
    BY <1>1, <1>9 DEF Join, Stopping, TypeOK, Actor
  <2> QED  BY <2>1, <2>2, <2>3 DEF StreamInv
<1>10. ASSUME NEW g \in Gen, ReadAudio(g) \/ ReaderStep(g) \/ CloseStream(g)
       PROVE  StreamInv'
  <2>1. \A h \in Gen : Stopping(h)' <=> Stopping(h)
    BY <1>10 DEF ReadAudio, ReaderStep, CallbackReturns, ReadFails, CloseStream, Stopping, control
  <2>2. ~CloseStream(g)
    BY DEF CloseStream
  <2>3. CASE ReadAudio(g)
    BY <1>1, <2>1, <2>3 DEF ReadAudio, StreamInv, TypeOK
  <2>4. CASE CallbackReturns(g)
    BY <1>1, <2>1, <2>4 DEF CallbackReturns, StreamInv, ReaderInv, TypeOK
  <2>5. CASE ReadFails(g)
    <3>1. Stopping(g)
      BY <1>1, <2>5 DEF ReadFails, StreamInv, ReaderInv
    <3> QED  BY <1>1, <2>1, <2>5, <3>1 DEF ReadFails, StreamInv, TypeOK
  <2> QED  BY <1>10, <2>2, <2>3, <2>4, <2>5 DEF ReaderStep
<1>11. CASE UNCHANGED vars
  BY <1>11 DEF vars, StreamInv, Stopping
<1> QED
  BY <1>2, <1>3, <1>4, <1>5, <1>7, <1>8, <1>9, <1>10, <1>11
     DEF Next, SipStep, WorkerStep, Actor

-----------------------------------------------------------------------------
(* The results.                                                            *)

\* The variables keep their types, and outside of startPipeline the session's client is
\* the client of its pipeline.
THEOREM BotTypes == Spec => []TypeOK
<1>1. BotInv => TypeOK
  BY DEF BotInv
<1> QED  BY <1>1, BotAlways, PTL

\* Without re-INVITEs the reader never calls back into a stage that is gone, whenever the
\* call ends, the bot closes its stream, or a worker drops the last copy.
THEOREM CallbacksFindTheirStage ==
  ASSUME ~Reinvite
  PROVE  Spec => []CallbackOnLiveStage
<1>1. BotInv /\ OneReaderInv => CallbackOnLiveStage
  BY DEF BotInv, StageInv, OneReaderInv, CallbackOnLiveStage, StageLives
<1>2. BotInv /\ OneReaderInv /\ [Next]_vars => OneReaderInv'
  BY OneReaderKeeps
<1> QED  BY <1>1, <1>2, BotStarts, BotAlways, PTL DEF Spec

\* If no bot closes a stream before its call ends, std::terminate is never called, with or
\* without re-INVITEs: every reader that ends has been told to and is joined, once.
THEOREM GatewayOutlivesCalls ==
  ASSUME ~BotCloses
  PROVE  Spec => []GatewayGoesOn
<1>1. Init => GatewayGoesOn
  BY DEF Init, GatewayGoesOn
<1>2. BotInv /\ StreamInv /\ GatewayGoesOn /\ [Next]_vars => GatewayGoesOn'
  <2> SUFFICES ASSUME BotInv, StreamInv, GatewayGoesOn, [Next]_vars  PROVE GatewayGoesOn'
    OBVIOUS
  <2>1. ASSUME NEW a \in Actor, Destroy(a), ~running[target[a]]
        PROVE  reader[target[a]] \in {"none", "joined"}
    <3>1. target[a] \in Gen /\ pc[a] = "destroy" /\ target[a] # None
      BY <2>1, GenIsSome DEF Destroy, BotInv, TypeOK
    <3>2. ~Stopping(target[a])
      <4> SUFFICES ASSUME NEW b \in Actor, pc[b] \in {"stop", "destroyed"}, target[b] = target[a]
                   PROVE  FALSE
        BY DEF Stopping
      <4>1. a # b /\ target["sip"] = target["worker"]
        BY <3>1 DEF Actor
      <4> QED  BY <3>1, <4>1 DEF BotInv, TargetInv, Actor
    <3>3. reader[target[a]] \in {"none", "read", "callback", "ended", "joined"}
      BY <3>1 DEF BotInv, TypeOK
    <3> QED  BY <2>1, <3>1, <3>2, <3>3 DEF BotInv, ReaderInv, StreamInv
  <2>2. ASSUME NEW a \in Actor, Destroy(a)  PROVE ~aborted'
    BY <2>1, <2>2 DEF Destroy, GatewayGoesOn
  <2>3. (\E a \in Actor : Destroy(a)) \/ aborted' = aborted
    BY DEF Next, SipStep, WorkerStep, ReaderStep, StartPipeline, CreateClient, Connect,
           ConnectFails, AddStage, Terminate, Join, Drop, CopyPipeline, ReleaseCopy, ReadAudio,
           CallbackReturns, ReadFails, CloseStream, Actor, vars
  <2> QED  BY <2>2, <2>3 DEF GatewayGoesOn
<1>3. BotInv /\ StreamInv /\ [Next]_vars => StreamInv'
  BY StreamKeeps
<1> QED  BY <1>1, <1>2, <1>3, BotStarts, BotAlways, PTL DEF Spec

\* A stop never waits for a reader that nothing ends: its stream does not stay open, and
\* running_ is reset before the callback returns.
ReadersHeed ==
  \A a \in Actor : pc[a] \in {"stop", "destroyed"} =>
    LET g == target[a]
    IN  /\ reader[g] \in {"read", "callback", "ended"}
        /\ ~running[g] /\ stream[g] # "open"

\* Whoever waits in stop, under the session's mutex or in a destructor, waits for a reader
\* that has only to return from its call: the safety half of StopsReturn.
THEOREM StopsAreHeeded == Spec => []ReadersHeed
<1>1. BotInv => ReadersHeed
  <2> SUFFICES ASSUME BotInv, NEW a \in Actor, pc[a] \in {"stop", "destroyed"}
               PROVE  /\ reader[target[a]] \in {"read", "callback", "ended"}
                      /\ ~running[target[a]] /\ stream[target[a]] # "open"
    BY DEF ReadersHeed
  <2>1. target[a] \in Gen /\ Stopping(target[a])
    BY DEF BotInv, TypeOK, Stopping
  <2> QED  BY <2>1 DEF BotInv, ReaderInv
<1> QED  BY <1>1, BotAlways, PTL
=============================================================================

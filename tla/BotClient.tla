------------------------------ MODULE BotClient ------------------------------
(***************************************************************************)
(* The life of a VoiceBotClient and of the GrpcBridgeStage that uses it,   *)
(* in gRPC mode: CallSession builds a pipeline with a client of its own    *)
(* for every INVITE, the client's reader thread calls back into the stage, *)
(* an RTP worker works on a copy of the pipeline, and whoever drops the    *)
(* last shared_ptr runs the destructors.                                   *)
(*                                                                         *)
(* A number g stands for one pipeline, the stage in it and its client.     *)
(* The stage holds a shared_ptr to the client, the client's callback only  *)
(* a bare pointer to the stage.  The session is the current one of a line  *)
(* of calls, one after the other.                                          *)
(***************************************************************************)
EXTENDS Naturals

CONSTANTS
  Pipelines,  \* how many pipelines exist at a time
  Reinvite,   \* may a pipeline be replaced during a call?
  BotCloses   \* may the bot's server end a stream, or be down?

ASSUME PipelinesAssumption == Pipelines \in Nat
ASSUME SwitchAssumption == Reinvite \in BOOLEAN /\ BotCloses \in BOOLEAN

Gen == 1 .. Pipelines
None == 0
Actor == {"sip", "worker"}

VARIABLES
  pipeline,   \* CallSession::pipeline_
  botClient,  \* CallSession::botClient_
  copied,     \* the worker's pipelineCopy in processRtpFrame
  hasStage,   \* the pipeline's GrpcBridgeStage has been built
  running,    \* VoiceBotClient::running_
  reader,     \* VoiceBotClient::readerThread_
  stream,     \* the gRPC stream
  pc,         \* the SIP thread under the session's mutex, the worker
  target,     \* the client an actor destroys or stops
  aborted     \* std::terminate has been called

objects == <<pipeline, botClient, copied, hasStage>>
client == <<running, reader, stream>>
control == <<pc, target>>
vars == <<pipeline, botClient, copied, hasStage, running, reader, stream, pc,
          target, aborted>>

TypeOK ==
  /\ {pipeline, botClient, copied} \subseteq Gen \cup {None}
  /\ hasStage \in [Gen -> BOOLEAN]
  /\ running \in [Gen -> BOOLEAN]
  /\ reader \in [Gen -> {"none", "read", "callback", "ended", "joined"}]
  /\ stream \in [Gen -> {"open", "closed", "cancelled"}]
  /\ pc \in [Actor -> {"idle", "client", "connect", "stage", "stop",
                       "drop", "destroy", "destroyed"}]
  /\ target \in [Actor -> Gen \cup {None}]
  /\ \A a \in Actor : pc[a] \in {"stop", "destroy", "destroyed"} => target[a] \in Gen
  /\ pc["sip"] = "idle" => botClient = pipeline
  /\ aborted \in BOOLEAN

Init ==
  /\ pipeline = None /\ botClient = None /\ copied = None
  /\ hasStage = [g \in Gen |-> FALSE]
  /\ running = [g \in Gen |-> FALSE]
  /\ reader = [g \in Gen |-> "none"]
  /\ stream = [g \in Gen |-> "closed"]
  /\ pc = [a \in Actor |-> "idle"]
  /\ target = [a \in Actor |-> None]
  /\ aborted = FALSE

-----------------------------------------------------------------------------

\* Somebody holds the pipeline, and with it the stage.
StageLives(g) == hasStage[g] /\ (pipeline = g \/ copied = g)
ClientLives(g) == botClient = g \/ StageLives(g)

\* Nothing is left of g, and its number can stand for a new pipeline.
Unused(g) ==
  /\ g \notin {pipeline, botClient, copied}
  /\ reader[g] \in {"none", "joined"}
  /\ \A a \in Actor : target[a] # g

\* The actor goes to pc, by way of the client's destructor if its last
\* shared_ptr has just been dropped.
Continue(a, next) ==
  LET gone == {g \in Gen : ClientLives(g) /\ ~ClientLives(g)'}
  IN  IF gone = {}
        THEN /\ pc' = [pc EXCEPT ![a] = next]
             /\ UNCHANGED target
        ELSE /\ pc' = [pc EXCEPT ![a] = "destroy"]
             /\ target' \in {[target EXCEPT ![a] = g] : g \in gone}

\* Where the destructor returns to.
After(a) ==
  IF a = "sip" /\ botClient # None /\ reader[botClient] = "none"
    THEN "connect" ELSE "idle"

-----------------------------------------------------------------------------
(* CallSession::startPipeline, under the session's mutex.                  *)

\* pipeline_ = make_shared<MediaPipeline>(): the old stage goes, while its client
\* is still in botClient_.
StartPipeline(g) ==
  /\ pc["sip"] = "idle"
  /\ pipeline # None => Reinvite
  /\ Unused(g)
  /\ pipeline' = g
  /\ hasStage' = [hasStage EXCEPT ![g] = FALSE]
  /\ reader' = [reader EXCEPT ![g] = "none"]
  /\ stream' = [stream EXCEPT ![g] = "closed"]
  /\ pc' = [pc EXCEPT !["sip"] = "client"]
  /\ UNCHANGED <<botClient, copied, running, target, aborted>>

\* botClient_ = make_shared<VoiceBotClient>(...).
CreateClient ==
  /\ pc["sip"] = "client"
  /\ botClient' = pipeline
  /\ UNCHANGED <<pipeline, copied, hasStage, client, aborted>>
  /\ Continue("sip", "connect")

\* connect(): the call is started and the reader with it ...
Connect ==
  /\ pc["sip"] = "connect"
  /\ running' = [running EXCEPT ![botClient] = TRUE]
  /\ reader' = [reader EXCEPT ![botClient] = "read"]
  /\ stream' = [stream EXCEPT ![botClient] = "open"]
  /\ pc' = [pc EXCEPT !["sip"] = "stage"]
  /\ UNCHANGED <<objects, target, aborted>>

\* ... or there is no stream: the client stays without a reader, the pipeline
\* without a stage.
ConnectFails ==
  /\ pc["sip"] = "connect"
  /\ pc' = [pc EXCEPT !["sip"] = "idle"]
  /\ UNCHANGED <<objects, client, target, aborted>>

\* sendConfig, and the stage whose constructor sets the audio callback.
AddStage ==
  /\ pc["sip"] = "stage"
  /\ hasStage' = [hasStage EXCEPT ![botClient] = TRUE]
  /\ pc' = [pc EXCEPT !["sip"] = "idle"]
  /\ UNCHANGED <<pipeline, botClient, copied, client, target, aborted>>

-----------------------------------------------------------------------------
(* CallSession::terminate, under the session's mutex, and the destructors. *)

\* Mutant: the context is not cancelled.
StopWithoutCancel(g) ==
  /\ running' = [running EXCEPT ![g] = FALSE]
  /\ UNCHANGED <<reader, stream>>

\* VoiceBotClient::stop up to the join.
StopReader(g) ==
  /\ running' = [running EXCEPT ![g] = FALSE]
  /\ stream' = [stream EXCEPT ![g] = "cancelled"]
  /\ UNCHANGED reader

\* terminate: stop() does nothing if running_ is false already.
Terminate ==
  /\ pc["sip"] = "idle"
  /\ pipeline # None
  /\ IF running[botClient]
       THEN /\ StopReader(botClient)
            /\ pc' = [pc EXCEPT !["sip"] = "stop"]
            /\ target' = [target EXCEPT !["sip"] = botClient]
       ELSE /\ pc' = [pc EXCEPT !["sip"] = "drop"]
            /\ UNCHANGED <<client, target>>
  /\ UNCHANGED <<objects, aborted>>

\* Mutant: stop() does not wait for the reader.
StopWithoutJoin(a) ==
  /\ pc[a] \in {"stop", "destroyed"}
  /\ reader' = [reader EXCEPT ![target[a]] = IF @ = "ended" THEN "joined" ELSE @]
  /\ pc' = [pc EXCEPT ![a] = IF @ = "stop" THEN "drop" ELSE After(a)]
  /\ target' = [target EXCEPT ![a] = None]
  /\ UNCHANGED <<objects, running, stream, aborted>>

\* readerThread_.join()
Join(a) ==
  /\ pc[a] \in {"stop", "destroyed"}
  /\ reader[target[a]] = "ended"
  /\ reader' = [reader EXCEPT ![target[a]] = "joined"]
  /\ pc' = [pc EXCEPT ![a] = IF @ = "stop" THEN "drop" ELSE After(a)]
  /\ target' = [target EXCEPT ![a] = None]
  /\ UNCHANGED <<objects, running, stream, aborted>>

\* botClient_ = nullptr; pipeline_ = nullptr.
Drop ==
  /\ pc["sip"] = "drop"
  /\ botClient' = None
  /\ pipeline' = None
  /\ UNCHANGED <<copied, hasStage, client, aborted>>
  /\ Continue("sip", "idle")

\* ~VoiceBotClient: stop() again, and then the members; the destructor of a
\* std::thread that nobody has joined calls std::terminate.
Destroy(a) ==
  /\ pc[a] = "destroy"
  /\ IF running[target[a]]
       THEN /\ StopReader(target[a])
            /\ pc' = [pc EXCEPT ![a] = "destroyed"]
            /\ UNCHANGED <<target, aborted>>
       ELSE /\ aborted' = (reader[target[a]] \notin {"none", "joined"})
            /\ pc' = [pc EXCEPT ![a] = After(a)]
            /\ target' = [target EXCEPT ![a] = None]
            /\ UNCHANGED client
  /\ UNCHANGED objects

-----------------------------------------------------------------------------
(* The RTP worker in processRtpFrame.                                      *)

\* The copy is made under the session's mutex.
CopyPipeline ==
  /\ pc["worker"] = "idle" /\ copied = None
  /\ pc["sip"] = "idle"
  /\ pipeline # None
  /\ copied' = pipeline
  /\ UNCHANGED <<pipeline, botClient, hasStage, client, control, aborted>>

ReleaseCopy ==
  /\ copied # None
  /\ copied' = None
  /\ UNCHANGED <<pipeline, botClient, hasStage, client, aborted>>
  /\ Continue("worker", "idle")

-----------------------------------------------------------------------------
(* The reader thread, and the bot's server (external).                     *)

\* Read returns a message, and the callback is called if it is set by now.
ReadAudio(g) ==
  /\ reader[g] = "read"
  /\ hasStage[g]
  /\ reader' = [reader EXCEPT ![g] = "callback"]
  /\ UNCHANGED <<objects, running, stream, control, aborted>>

\* onBotAudio returns; the loop goes on if running_ is still true.
CallbackReturns(g) ==
  /\ reader[g] = "callback"
  /\ reader' = [reader EXCEPT ![g] = IF running[g] THEN "read" ELSE "ended"]
  /\ UNCHANGED <<objects, running, stream, control, aborted>>

\* Read returns false and the loop ends.
ReadFails(g) ==
  /\ reader[g] = "read"
  /\ stream[g] # "open"
  /\ reader' = [reader EXCEPT ![g] = "ended"]
  /\ running' = [running EXCEPT ![g] = FALSE]
  /\ UNCHANGED <<objects, stream, control, aborted>>

\* The server closes the stream, goes away, or was never there.
CloseStream(g) ==
  /\ BotCloses
  /\ stream[g] = "open"
  /\ stream' = [stream EXCEPT ![g] = "closed"]
  /\ UNCHANGED <<objects, running, reader, control, aborted>>

SipStep ==
  \/ CreateClient \/ Connect \/ ConnectFails \/ AddStage
  \/ Join("sip") \/ Drop \/ Destroy("sip")
WorkerStep == ReleaseCopy \/ Join("worker") \/ Destroy("worker")
ReaderStep(g) == CallbackReturns(g) \/ ReadFails(g)

Next ==
  /\ ~aborted
  /\ \/ \E g \in Gen : StartPipeline(g)
     \/ SipStep \/ Terminate
     \/ CopyPipeline \/ WorkerStep
     \/ \E g \in Gen : ReadAudio(g) \/ ReaderStep(g) \/ CloseStream(g)

Spec == Init /\ [][Next]_vars

\* Every thread finishes what it has begun.
Fairness ==
  /\ WF_vars(~aborted /\ SipStep) /\ WF_vars(~aborted /\ WorkerStep)
  /\ \A g \in Gen :
       WF_vars(~aborted /\ ReadFails(g)) /\ WF_vars(~aborted /\ CallbackReturns(g))
FairSpec == Spec /\ Fairness

-----------------------------------------------------------------------------
(* Properties.                                                             *)

\* The reader calls back into a stage that exists: terminate joins it before it
\* lets the pipeline go, and a worker's copy keeps stage and client together.
CallbackOnLiveStage ==
  \A g \in Gen : reader[g] = "callback" => StageLives(g)

\* The end of a call ("Stop/Cleanup", CallSession.h:34) is not the end of the
\* gateway, which runs until somebody does "Press Ctrl+C to exit"
\* (GatewayApp.cpp:59).  Does not hold once the bot closes a stream: stop() does
\* not join a reader that has ended by itself (VoiceBotClient.cpp:26).
GatewayGoesOn == ~aborted

\* Stopping a client never hangs: terminate, which holds the session's mutex
\* and often the registry's, returns, and no reader outlives its client, as long
\* as the process runs.
StopsReturn ==
  /\ pc["sip"] # "idle" ~> (pc["sip"] = "idle" \/ aborted)
  /\ \A g \in Gen :
       ~ClientLives(g) ~>
         (reader[g] \in {"none", "joined"} \/ ClientLives(g) \/ aborted)
=============================================================================

----------------------------- MODULE AudioSocket -----------------------------
(***************************************************************************)
(* One AudioSocketClient from connect to its destructor: the SIP thread    *)
(* that connects and stops it, the RTP workers that send audio through     *)
(* AudioSocketStage, the reader thread, and the TCP connection they share. *)
(*                                                                         *)
(* sendAll is one step: what interleaves is whole calls of it, and the     *)
(* accesses to sockfd_, which no mutex protects.  A second worker sends    *)
(* after a re-INVITE, when a call has two RTP ports.                       *)
(***************************************************************************)
EXTENDS Naturals, Sequences

CONSTANTS
  Worker,      \* RTP workers that process packets of the call
  PeerCloses,  \* may the server close the connection, or send a terminate frame?
  MaxSends     \* bound: no audio is sent once the wire has so many pieces

None == "none"

ASSUME PeerAssumption == PeerCloses \in BOOLEAN /\ MaxSends \in Nat
ASSUME WorkerAssumption == None \notin Worker

VARIABLES
  sockfd,      \* AudioSocketClient::sockfd_: set or not
  descriptor,  \* kernel: what the number in sockfd_ refers to
  connection,  \* kernel: the TCP connection
  running,     \* AudioSocketClient::running_
  sendMutex,   \* the worker that holds sendMutex_
  sip,         \* the thread that connects, stops and drops the client
  sender,      \* each worker inside sendAudio
  reader,      \* the reader thread
  wire,        \* the pieces that reached the connection
  alive        \* the process has not been killed

kernel == <<descriptor, connection, wire>>
vars == <<sockfd, descriptor, connection, running, sendMutex, sip, sender,
          reader, wire, alive>>

Piece == [what : {"uuid", "header", "payload", "terminate"},
          by : Worker \cup {None}]

TypeOK ==
  /\ sockfd \in BOOLEAN
  /\ descriptor \in {"none", "open", "closed"}
  /\ connection \in {"none", "open", "shut", "reset"}
  /\ running \in BOOLEAN
  /\ sendMutex \in Worker \cup {None}
  /\ sip \in {"connect", "uuid", "stage", "call", "terminate", "shutdown",
              "close", "clear", "join", "dropped", "gone"}
  /\ sender \in [Worker -> {"idle", "copied", "lock", "header", "payload"}]
  /\ \A w \in Worker : sender[w] \in {"header", "payload"} <=> sendMutex = w
  /\ reader \in {"none", "test", "recv", "ended", "joined"}
  /\ wire \in Seq(Piece)
  /\ alive \in BOOLEAN

Init ==
  /\ sockfd = FALSE
  /\ descriptor = "none"
  /\ connection = "none"
  /\ running = FALSE
  /\ sendMutex = None
  /\ sip = "connect"
  /\ sender = [w \in Worker |-> "idle"]
  /\ reader = "none"
  /\ wire = <<>>
  /\ alive = TRUE

-----------------------------------------------------------------------------

\* sendAll.  A descriptor that is closed makes send fail; a connection that is
\* shut down raises SIGPIPE, which nobody handles; one the peer has reset does
\* either.
SendAll(what, by) ==
  /\ wire' = IF sockfd /\ descriptor = "open" /\ connection = "open"
               THEN Append(wire, [what |-> what, by |-> by]) ELSE wire
  /\ IF sockfd /\ descriptor = "open"
       THEN CASE connection = "shut" -> alive' = FALSE
              [] connection = "reset" -> alive' \in BOOLEAN
              [] OTHER -> UNCHANGED alive
       ELSE UNCHANGED alive
  /\ UNCHANGED <<sockfd, descriptor, connection, running>>

-----------------------------------------------------------------------------
(* The SIP thread: CallSession::startPipeline, terminate and destruction.  *)

\* The server is down: the call goes on without a stage.
ConnectFails ==
  /\ sip = "connect"
  /\ sip' = "call"
  /\ UNCHANGED <<sockfd, kernel, running, sendMutex, sender, reader, alive>>

\* connect up to the start of the reader.
Connect ==
  /\ sip = "connect"
  /\ sockfd' = TRUE
  /\ descriptor' = "open"
  /\ connection' = "open"
  /\ running' = TRUE
  /\ reader' = "test"
  /\ sip' = "uuid"
  /\ UNCHANGED <<sendMutex, sender, wire, alive>>

\* Mutant: the identification is left to the first audio.
SkipUuid ==
  /\ sip = "uuid"
  /\ sip' = "stage"
  /\ UNCHANGED <<sockfd, kernel, running, sendMutex, sender, reader, alive>>

SendUuid ==
  /\ sip = "uuid"
  /\ SendAll("uuid", None)
  /\ sip' = "stage"
  /\ UNCHANGED <<sendMutex, sender, reader>>

\* The stage joins the pipeline; audio can be sent from now on.
AddStage ==
  /\ sip = "stage"
  /\ sip' = "call"
  /\ UNCHANGED <<sockfd, kernel, running, sendMutex, sender, reader, alive>>

\* stop does nothing if running_ is false, whether connect failed or the reader
\* has ended.
Stop ==
  /\ sip = "call"
  /\ running' = FALSE
  /\ sip' = IF running THEN "terminate" ELSE "dropped"
  /\ UNCHANGED <<sockfd, kernel, sendMutex, sender, reader, alive>>

\* Without sendMutex_.
SendTerminate ==
  /\ sip = "terminate"
  /\ SendAll("terminate", None)
  /\ sip' = "shutdown"
  /\ UNCHANGED <<sendMutex, sender, reader>>

\* Mutant: the connection is not shut down before it is closed.
SkipShutdown ==
  /\ sip = "shutdown"
  /\ sip' = "close"
  /\ UNCHANGED <<sockfd, kernel, running, sendMutex, sender, reader, alive>>

Shutdown ==
  /\ sip = "shutdown"
  /\ connection' = IF connection = "open" THEN "shut" ELSE connection
  /\ sip' = "close"
  /\ UNCHANGED <<sockfd, descriptor, running, sendMutex, sender, reader, wire, alive>>

Close ==
  /\ sip = "close"
  /\ descriptor' = "closed"
  /\ sip' = "clear"
  /\ UNCHANGED <<sockfd, connection, running, sendMutex, sender, reader, wire, alive>>

Clear ==
  /\ sip = "clear"
  /\ sockfd' = FALSE
  /\ sip' = "join"
  /\ UNCHANGED <<kernel, running, sendMutex, sender, reader, alive>>

Join ==
  /\ sip = "join"
  /\ reader = "ended"
  /\ reader' = "joined"
  /\ sip' = "dropped"
  /\ UNCHANGED <<sockfd, kernel, running, sendMutex, sender, alive>>

\* tcpClient_ and pipeline_ are reset and no worker has a copy of the pipeline:
\* the members of the client are destroyed, the std::thread among them.
Destroy ==
  /\ sip = "dropped"
  /\ \A w \in Worker : sender[w] = "idle"
  /\ alive' = (reader \in {"none", "joined"})
  /\ sip' = "gone"
  /\ UNCHANGED <<sockfd, kernel, running, sendMutex, sender, reader>>

-----------------------------------------------------------------------------
(* The RTP workers: AudioSocketStage::processUplink and sendAudio.         *)

\* The copy of the pipeline is made under the session's mutex; there is no stage
\* in it if connect has failed.
CopyPipeline(w) ==
  /\ sip = "call"
  /\ reader # "none"
  /\ sender[w] = "idle"
  /\ Len(wire) < MaxSends
  /\ sender' = [sender EXCEPT ![w] = "copied"]
  /\ UNCHANGED <<sockfd, kernel, running, sendMutex, sip, reader, alive>>

\* The test of sockfd_, without a mutex, at any time after that.
BeginSend(w) ==
  /\ sender[w] = "copied"
  /\ sender' = [sender EXCEPT ![w] = IF sockfd THEN "lock" ELSE "idle"]
  /\ UNCHANGED <<sockfd, kernel, running, sendMutex, sip, reader, alive>>

Lock(w) ==
  /\ sender[w] = "lock"
  /\ sendMutex = None
  /\ sendMutex' = w
  /\ sender' = [sender EXCEPT ![w] = "header"]
  /\ UNCHANGED <<sockfd, kernel, running, sip, reader, alive>>

SendHeader(w) ==
  /\ sender[w] = "header"
  /\ SendAll("header", w)
  /\ sender' = [sender EXCEPT ![w] = "payload"]
  /\ UNCHANGED <<sip, sendMutex, reader>>

SendPayload(w) ==
  /\ sender[w] = "payload"
  /\ SendAll("payload", w)
  /\ sender' = [sender EXCEPT ![w] = "idle"]
  /\ sendMutex' = None
  /\ UNCHANGED <<sip, reader>>

-----------------------------------------------------------------------------
(* The reader thread and the server (external).                            *)

\* The test of running_, and recv on whatever sockfd_ holds by then.
ReaderTest ==
  /\ reader = "test"
  /\ IF running /\ sockfd /\ descriptor = "open"
       THEN reader' = "recv" /\ UNCHANGED running
       ELSE reader' = "ended" /\ running' = FALSE
  /\ UNCHANGED <<sockfd, kernel, sendMutex, sip, sender, alive>>

\* A frame of audio, or of a type that is ignored, has come.
ReadFrame ==
  /\ reader = "recv"
  /\ connection = "open"
  /\ reader' = "test"
  /\ UNCHANGED <<sockfd, kernel, running, sendMutex, sip, sender, alive>>

\* A terminate frame has come.
ReadTerminate ==
  /\ PeerCloses
  /\ reader = "recv"
  /\ connection = "open"
  /\ reader' = "ended"
  /\ running' = FALSE
  /\ UNCHANGED <<sockfd, kernel, sendMutex, sip, sender, alive>>

\* recv returns 0 or an error: the end of the connection wakes it, the closing
\* of the descriptor alone does not.
ReadFails ==
  /\ reader = "recv"
  /\ connection # "open"
  /\ reader' = "ended"
  /\ running' = FALSE
  /\ UNCHANGED <<sockfd, kernel, sendMutex, sip, sender, alive>>

PeerClose ==
  /\ PeerCloses
  /\ connection = "open"
  /\ connection' = "reset"
  /\ UNCHANGED <<sockfd, descriptor, running, sendMutex, sip, sender, reader, wire,
                 alive>>

SipStep ==
  \/ SendUuid \/ AddStage
  \/ SendTerminate \/ Shutdown \/ Close \/ Clear \/ Join \/ Destroy
WorkerStep(w) == BeginSend(w) \/ Lock(w) \/ SendHeader(w) \/ SendPayload(w)
ReaderStep == ReaderTest \/ ReadFails

Next ==
  /\ alive
  /\ \/ ConnectFails \/ Connect \/ Stop \/ SipStep
     \/ \E w \in Worker : CopyPipeline(w) \/ WorkerStep(w)
     \/ ReaderStep \/ ReadFrame \/ ReadTerminate \/ PeerClose

Spec == Init /\ [][Next]_vars

\* Every thread goes on with what it has begun.  The server reads what it is
\* sent, so that no send blocks; it need not send anything.
Fairness ==
  /\ WF_vars(alive /\ SipStep)
  /\ \A w \in Worker : WF_vars(alive /\ WorkerStep(w))
  /\ WF_vars(alive /\ ReaderStep)
FairSpec == Spec /\ Fairness

-----------------------------------------------------------------------------
(* Properties.                                                             *)

Before(i) == {wire[j].what : j \in 1 .. i - 1}

\* Until stop the server receives frames: the identification first, then headers
\* each followed by the payload it announces, although two workers may send.
FramesUntilStop ==
  \A i \in DOMAIN wire : "terminate" \notin Before(i) \cup {wire[i].what} =>
    CASE wire[i].what = "uuid" -> i = 1
      [] wire[i].what = "header" -> i > 1 /\ wire[i-1].what \in {"uuid", "payload"}
      [] wire[i].what = "payload" ->
           i > 1 /\ wire[i-1] = [what |-> "header", by |-> wire[i].by]

\* stop sends a "terminate packet" (AudioSocketClient.cpp:54): what arrives is a
\* packet of its own, not part of the audio of another.  Does not hold: stop does
\* not take sendMutex_ (AudioSocketClient.cpp:56).
TerminateIsAPacket ==
  \A i \in DOMAIN wire :
    i > 1 /\ wire[i].what = "terminate" => wire[i-1].what # "header"

\* The end of a call ("Stop/Cleanup", CallSession.h:34) is not the end of the
\* gateway, which runs until somebody does "Press Ctrl+C to exit"
\* (GatewayApp.cpp:59).  Does not hold: a worker can send after the shutdown
\* (AudioSocketClient.cpp:124), which raises SIGPIPE.
GatewayGoesOn == alive

\* stop returns, in the SIP thread and under the session's mutex: the reader it
\* waits for is woken wherever it stands.
StopReturns == sip = "terminate" ~> (sip = "dropped" \/ ~alive)
=============================================================================

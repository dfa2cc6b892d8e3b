------------------------------ MODULE CallMedia ------------------------------
(***************************************************************************)
(* The media of one call: CallSession::onRtpPacket and processRtpFrame     *)
(* between the jitter buffer (JitterBuffer), the stages of the pipeline    *)
(* (EchoStage, or AudioSocketStage with DownlinkBuffer and G711) and the   *)
(* phone.                                                                  *)
(*                                                                         *)
(* An RTP worker runs it for the ports it serves: one worker per call,     *)
(* until a re-INVITE opens another port and leaves the first one open.     *)
(* The session's mutex_ is held for a step at a time; the stages, and the  *)
(* sending, are outside of it.                                             *)
(*                                                                         *)
(* Every INVITE builds a stage, numbered in this order; a worker goes on   *)
(* with the one it has copied.  A stage whose client does not connect is   *)
(* one that no audio comes to.                                             *)
(***************************************************************************)
EXTENDS JitterBuffer, DownlinkBuffer, G711

CONSTANTS
  Worker,       \* RTP workers
  First,        \* the worker of the port that the first INVITE allocated
  Session,      \* kinds of sessions: [mode, payloadType]
  Sender,       \* addresses that packets come from
  Empty,        \* packets without a payload
  SamplesSaid,  \* what the server says, over and over: a sequence of samples
  EchoLen,      \* bound on the stream of a call in ECHO mode
  TalkLen       \* bound on it in the other modes

ASSUME MediaAssumption ==
  /\ First \in Worker /\ IsFiniteSet(Worker) /\ Cardinality(Worker) <= Pushers
  /\ Session \subseteq [mode : {"ECHO", "AUDIOSOCKET", "GRPC"}, payloadType : 0 .. 127]
  /\ SamplesSaid \in Seq(Sample) /\ SamplesSaid # <<>>
  /\ {EchoLen, TalkLen} \subseteq Nat

Torn == -1  \* a payload that is not one packet's

VARIABLES
  mode,        \* Config::mode
  types,       \* payloadType_: that of each INVITE, the last one holds
  ports,       \* the workers that serve an open port of the call
  pipeline,    \* pipeline_: the number of its stage, 0 for null
  remote,      \* remoteRtpAddr_
  rtpLocked,   \* rtpLocked_
  outgoing,    \* outgoingSeq_ and outgoingTimestamp_
  echo,        \* buffer_ and hasData_ of each EchoStage
  pc,          \* each worker inside onRtpPacket
  hand,        \* its local variables
  sent         \* packets handed to RtpServer::send, in order, and by whom

sessionVars == <<mode, types, ports, pipeline, remote, rtpLocked>>
workVars == <<outgoing, echo, sent>>
mediaVars == <<jitterVars, downlinkVars, sessionVars, workVars, pc, hand>>

Address == Sender \cup {"offer", "new offer"}
EmptyHand == [packet |-> Torn, stage |-> 0, type |-> 0, to |-> "offer",
              payload |-> <<>>, seq |-> 0, ts |-> 0]

\* How many stages have been built.
Built == Len(types)

TypeOK ==
  /\ JitterOK /\ DownlinkOK
  /\ Len(buffer) < TargetSize + Cardinality(ports)
  /\ types \in Seq(0 .. 127) /\ Built \in Stage /\ pipeline \in {0, Built}
  /\ First \in ports /\ ports \subseteq Worker
  /\ remote \in Address /\ rtpLocked \in BOOLEAN
  /\ outgoing.seq \in 0 .. Modulus - 1 /\ outgoing.ts \in Nat
  /\ \A s \in Stage : echo[s].writers \subseteq Packet /\ echo[s].hasData \in BOOLEAN
  /\ \A w \in Worker \ ports : pc[w] = "receive"

Init ==
  /\ JitterInit /\ DownlinkInit
  /\ \E session \in Session : mode = session.mode /\ types = <<session.payloadType>>
  /\ ports = {First}
  /\ pipeline = 1
  /\ remote = "offer" /\ rtpLocked = FALSE
  /\ outgoing = [seq |-> FirstNumber, ts |-> 0]
  /\ echo = [s \in Stage |-> [writers |-> {}, hasData |-> FALSE]]
  /\ pc = [w \in Worker |-> "receive"]
  /\ hand = [w \in Worker |-> EmptyHand]
  /\ sent = <<>>

GoTo(w, label) == pc' = [pc EXCEPT ![w] = label]
Finish(w) ==
  /\ GoTo(w, "receive")
  /\ hand' = [hand EXCEPT ![w] = EmptyHand]

-----------------------------------------------------------------------------
(* onRtpPacket.                                                            *)

\* The worker whose share the port is in polls it.
ServesPort(w) == w \in ports

\* Mutant: the address of the latest packet.
LockOnLatest(from) ==
  /\ remote' = from
  /\ rtpLocked' = TRUE

\* Symmetric RTP: answer to where the first packet came from.
LockOn(from) ==
  /\ remote' = IF rtpLocked THEN remote ELSE from
  /\ rtpLocked' = TRUE

\* A packet of the agreed payload type.
Receive(w, n, from) ==
  /\ pc[w] = "receive" /\ ServesPort(w)
  /\ n < (IF mode = "ECHO" THEN EchoLen ELSE TalkLen)
  /\ LockOn(from)
  /\ Push(n)
  /\ GoTo(w, "pop")
  /\ UNCHANGED <<downlinkVars, mode, types, ports, pipeline, workVars, hand>>

\* A packet of another payload type: dropped, but its sender counts.
ReceiveOther(w, from) ==
  /\ pc[w] = "receive" /\ ServesPort(w)
  /\ LockOn(from)
  /\ UNCHANGED <<jitterVars, downlinkVars, mode, types, ports, pipeline, workVars, pc, hand>>

\* processRtpFrame takes a frame, or has nothing to do.
PopFrame(w) ==
  /\ pc[w] = "pop"
  /\ \/ /\ Pop
        /\ hand' = [hand EXCEPT ![w].packet = Head(buffer)]
        /\ GoTo(w, "copy")
     \/ /\ ~IsFull
        /\ Finish(w)
        /\ UNCHANGED jitterVars
  /\ UNCHANGED <<downlinkVars, sessionVars, workVars>>

\* The session's state as it is now, for the rest of the frame.
CopySession(w) ==
  /\ pc[w] = "copy"
  /\ IF pipeline = 0
       THEN Finish(w)
       ELSE /\ hand' = [hand EXCEPT ![w] = [@ EXCEPT !.stage = pipeline,
                                              !.type = types[Built], !.to = remote]]
            /\ GoTo(w, IF mode # "ECHO" THEN "take"
                       ELSE IF hand[w].packet \in Empty THEN "echoed" ELSE "echo")
  /\ UNCHANGED <<jitterVars, downlinkVars, sessionVars, workVars>>

-----------------------------------------------------------------------------
(* EchoStage has no mutex.                                                 *)

Writing(s) == {w \in Worker : pc[w] = "echoing" /\ hand[w].stage = s}

\* processUplink begins to overwrite buffer_, unless the payload is empty ...
BeginEcho(w) ==
  /\ pc[w] = "echo"
  /\ LET s == hand[w].stage
     IN  echo' = [echo EXCEPT ![s].writers =
                    (IF Writing(s) = {} THEN {} ELSE @) \cup {hand[w].packet}]
  /\ GoTo(w, "echoing")
  /\ UNCHANGED <<jitterVars, downlinkVars, sessionVars, outgoing, hand, sent>>

\* ... has overwritten it, and sets hasData_.
EndEcho(w) ==
  /\ pc[w] = "echoing"
  /\ echo' = [echo EXCEPT ![hand[w].stage].hasData = TRUE]
  /\ GoTo(w, "echoed")
  /\ UNCHANGED <<jitterVars, downlinkVars, sessionVars, outgoing, hand, sent>>

\* What a reader finds in buffer_: a packet, unless somebody else was or is writing.
Content(s) ==
  IF Writing(s) = {} /\ Cardinality(echo[s].writers) = 1
  THEN CHOOSE n \in echo[s].writers : TRUE ELSE Torn

\* processDownlink copies buffer_ if hasData_ is set ...
TakeEcho(w) ==
  /\ pc[w] = "echoed"
  /\ IF echo[hand[w].stage].hasData
       THEN /\ hand' = [hand EXCEPT ![w].payload = <<Content(hand[w].stage)>>]
            /\ GoTo(w, "clear")
       ELSE Finish(w)
  /\ UNCHANGED <<jitterVars, downlinkVars, sessionVars, workVars>>

\* Mutant: hasData_ stays.
KeepEcho(w) ==
  /\ pc[w] = "clear"
  /\ GoTo(w, "number")
  /\ UNCHANGED <<jitterVars, downlinkVars, sessionVars, workVars, hand>>

\* ... and then resets hasData_.
ClearEcho(w) ==
  /\ pc[w] = "clear"
  /\ echo' = [echo EXCEPT ![hand[w].stage].hasData = FALSE]
  /\ GoTo(w, "number")
  /\ UNCHANGED <<jitterVars, downlinkVars, sessionVars, outgoing, hand, sent>>

-----------------------------------------------------------------------------
(* AudioSocketStage and GrpcBridgeStage: the downlink is a frame of the    *)
(* buffer, if there is one; the uplink is AudioSocket's.                   *)

TakeDownlink(w) ==
  LET s == hand[w].stage
  IN  /\ pc[w] = "take"
      /\ TakeFrame(s)
      /\ IF HasFrame(s)
           THEN /\ hand' = [hand EXCEPT ![w].payload = NextFrame(s)]
                /\ GoTo(w, "number")
           ELSE Finish(w)
      /\ UNCHANGED <<jitterVars, sessionVars, workVars>>

\* A stage whose reader is still at work: terminate stops that of the last one, and one
\* that has been replaced reads on while a worker holds it.
IsFed(s) == s = pipeline \/ (s # Built /\ \E w \in Worker : hand[w].stage = s)

\* The reader thread has audio; AudioSocketStage ignores a chunk of odd size.
ReadAudio(s, n) ==
  /\ mode # "ECHO" /\ IsFed(s)
  /\ OnAudio(s, n)
  /\ UNCHANGED <<jitterVars, sessionVars, workVars, pc, hand>>

-----------------------------------------------------------------------------

\* Mutant: outgoingSeq_ + 1 for ++outgoingSeq_.
Advanced(number) ==
  [seq |-> number.seq, ts |-> number.ts + 160]

\* outgoingTimestamp_ += 160, ++outgoingSeq_
Advance(number) ==
  [seq |-> (number.seq + 1) % Modulus, ts |-> number.ts + 160]

TakeNumber(w) ==
  /\ pc[w] = "number"
  /\ outgoing' = Advance(outgoing)
  /\ hand' = [hand EXCEPT ![w].seq = outgoing'.seq, ![w].ts = outgoing'.ts]
  /\ GoTo(w, "send")
  /\ UNCHANGED <<jitterVars, downlinkVars, sessionVars, echo, sent>>

\* Mutant: the payload type is that of the session when the packet is sent.
PacketOfLate(w) ==
  [by |-> w, stage |-> hand[w].stage, type |-> types[Built], to |-> hand[w].to,
   payload |-> hand[w].payload, seq |-> hand[w].seq, ts |-> hand[w].ts]

\* The packet that a worker has put together.
PacketOf(w) ==
  [by |-> w, stage |-> hand[w].stage, type |-> hand[w].type, to |-> hand[w].to,
   payload |-> hand[w].payload, seq |-> hand[w].seq, ts |-> hand[w].ts]

Send(w) ==
  /\ pc[w] = "send"
  /\ sent' = Append(sent, PacketOf(w))
  /\ Finish(w)
  /\ UNCHANGED <<jitterVars, downlinkVars, sessionVars, outgoing, echo>>

-----------------------------------------------------------------------------
(* The SIP thread, under mutex_.                                           *)

\* startPipeline for another INVITE: another port and payload type, a new stage, the
\* address of the new offer; the lock on the sender, the jitter buffer and the
\* numbers stay.
Reinvite(w, payloadType) ==
  /\ Built < Stages
  /\ ports' = ports \cup {w}
  /\ types' = Append(types, payloadType)
  /\ pipeline' = Built + 1
  /\ remote' = "new offer"
  /\ UNCHANGED <<jitterVars, downlinkVars, mode, rtpLocked, workVars, pc, hand>>

\* terminate
Terminate ==
  /\ pipeline # 0
  /\ pipeline' = 0
  /\ UNCHANGED <<jitterVars, downlinkVars, mode, types, ports, remote, rtpLocked,
                 workVars, pc, hand>>

SipStep ==
  \/ \E w \in Worker, session \in Session :
       session.mode = mode /\ Reinvite(w, session.payloadType)
  \/ Terminate

WorkerStep(w) ==
  \/ \E from \in Sender : ReceiveOther(w, from) \/ \E n \in Packet : Receive(w, n, from)
  \/ PopFrame(w) \/ CopySession(w)
  \/ BeginEcho(w) \/ EndEcho(w) \/ TakeEcho(w) \/ ClearEcho(w)
  \/ TakeDownlink(w)
  \/ TakeNumber(w) \/ Send(w)

Next ==
  \/ \E w \in Worker : WorkerStep(w)
  \/ \E s \in Stage, n \in 1 .. MaxChunk : ReadAudio(s, n)
  \/ SipStep

Spec == Init /\ [][Next]_mediaVars

-----------------------------------------------------------------------------
(* Properties.                                                             *)

\* Nothing that arrived is lost in the buffer but the few packets it holds back:
\* at rest fewer than TargetSize, whatever the order of pushes and pops.
NothingLost ==
  /\ received = ToSet(played) \cup ToSet(buffer)
  /\ (\A w \in Worker : pc[w] # "pop") => Len(buffer) < TargetSize

\* No timestamp is used twice, and numbers and timestamps advance together, a number
\* for every frame, until the numbers come round; while the call has one port packets
\* leave in the order of their numbers.
NumbersFollowClock ==
  /\ \A i, j \in DOMAIN sent : i # j =>
       LET later == sent[j].ts - sent[i].ts
       IN  /\ later # 0
           /\ later \in 0 .. 160 * Modulus - 1 =>
                later = 160 * ((sent[j].seq - sent[i].seq) % Modulus)
  /\ ports = {First} =>
       \A i \in DOMAIN sent : sent[i].seq = (FirstNumber + i) % Modulus

Echoes(packet, n) == packet.payload = <<n>>
Audible == ToSet(played) \ Empty

\* The echo of a call is its stream: until a re-INVITE what is played goes out again
\* whole, in order and without a gap, but for empty payloads and what is left at the end
\* of the call.  After one, workers may share a stage, and frames are lost, torn, or
\* sent by two of them; but no worker sends a frame twice, and all that is sent has
\* been played.
EchoIsFaithful ==
  mode = "ECHO" =>
    /\ Built = 1 =>
         \A i \in DOMAIN sent : \E n \in Audible :
           /\ Echoes(sent[i], n)
           /\ \A m \in Audible : m < n <=> \E k \in 1 .. i - 1 : Echoes(sent[k], m)
    /\ \A i \in DOMAIN sent : \E n \in Audible \cup {Torn} : Echoes(sent[i], n)
    /\ \A i, j \in DOMAIN sent :
         i # j /\ sent[i].by = sent[j].by /\ sent[i].payload = sent[j].payload =>
           Echoes(sent[i], Torn)
    /\ Len(sent) <= Len(played)

\* Until a re-INVITE everything goes to where the first packet came from, even what
\* is in the hands of a worker.
SymmetricRtp ==
  remote # "new offer" => \A i \in DOMAIN sent : sent[i].to = remote

\* The phone hears what the server said, three times as loud, to half a step of the
\* codec, however INVITEs and workers interleave: a packet has the payload type that
\* its stage encoded for.  Left out are types whose codec is in the offer, and
\* samples that the gain clamps to the lowest one, -10923 and below: those are heard
\* as silence.
PeerHearsServer ==
  mode = "AUDIOSOCKET" =>
    \A k \in DOMAIN sent : sent[k].type \in {0, 8} =>
      \A i \in DOMAIN sent[k].payload :
        LET said == SamplesSaid[1 + (sent[k].payload[i] % Len(SamplesSaid))]
            heard == Decode(sent[k].type, Encode(types[sent[k].stage], Gain(said)))
        IN  IF said <= -10923 THEN heard \in {0, -8}
            ELSE IsCloseTo(sent[k].type, heard, Gain(said))
=============================================================================

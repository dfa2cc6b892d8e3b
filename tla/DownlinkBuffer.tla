--------------------------- MODULE DownlinkBuffer ---------------------------
(***************************************************************************)
(* downlinkBuffer_ of AudioSocketStage and GrpcBridgeStage: the thread     *)
(* that reads from the bot or the server appends audio, an RTP worker      *)
(* takes a frame of it with every frame it plays.  Both hold mutex_.       *)
(*                                                                         *)
(* Every stage of a call has a buffer of its own, empty when it is built.  *)
(* A byte of audio is named by its place in what its stage has received.   *)
(***************************************************************************)
EXTENDS Integers, Sequences

CONSTANTS
  Stages,     \* bound on the stages of a call: one, and one for each re-INVITE
  Capacity,   \* bytes that are kept: 16000
  FrameSize,  \* bytes of an RTP payload: 160
  MaxChunk,   \* bytes that arrive at once
  MaxReceived \* bound on what arrives

ASSUME DownlinkAssumption ==
  /\ {Stages, Capacity, FrameSize, MaxChunk, MaxReceived} \subseteq Nat \ {0}
  /\ FrameSize <= Capacity

Stage == 1 .. Stages

VARIABLES
  audioIn,        \* how many bytes each stage has received
  downlinkBuffer, \* its downlinkBuffer_
  framesOut       \* the frames that have been taken from it

downlinkVars == <<audioIn, downlinkBuffer, framesOut>>

DownlinkOK ==
  /\ audioIn \in [Stage -> Nat]
  /\ downlinkBuffer \in [Stage -> Seq(Nat)]
  /\ framesOut \in [Stage -> Seq(Seq(Nat))]

DownlinkInit ==
  /\ audioIn = [s \in Stage |-> 0]
  /\ downlinkBuffer = [s \in Stage |-> <<>>]
  /\ framesOut = [s \in Stage |-> <<>>]

-----------------------------------------------------------------------------

\* The n bytes that arrive after the first received ones.
Chunk(received, n) == [i \in 1 .. n |-> received + i]

\* Mutant: the newest audio is thrown away.
KeepStart(b) == IF Len(b) > Capacity THEN SubSeq(b, 1, Capacity) ELSE b

\* What is kept of b when it has grown too long: its end.
KeepEnd(b) ==
  IF Len(b) > Capacity THEN SubSeq(b, Len(b) - Capacity + 1, Len(b)) ELSE b

\* onAudioSocketData and onBotAudio.
OnAudio(s, n) ==
  /\ audioIn[s] + n <= MaxReceived
  /\ audioIn' = [audioIn EXCEPT ![s] = @ + n]
  /\ downlinkBuffer' = [downlinkBuffer EXCEPT ![s] = KeepEnd(@ \o Chunk(audioIn[s], n))]
  /\ UNCHANGED framesOut

HasFrame(s) == Len(downlinkBuffer[s]) >= FrameSize
NextFrame(s) == SubSeq(downlinkBuffer[s], 1, FrameSize)

\* Mutant: the frame stays in the buffer.
TakeAndKeep(s) ==
  /\ framesOut' = IF HasFrame(s) THEN [framesOut EXCEPT ![s] = Append(@, NextFrame(s))]
                                 ELSE framesOut
  /\ UNCHANGED <<audioIn, downlinkBuffer>>

\* processDownlink: a whole frame, or nothing.
TakeFrame(s) ==
  /\ IF HasFrame(s)
       THEN /\ framesOut' = [framesOut EXCEPT ![s] = Append(@, NextFrame(s))]
            /\ downlinkBuffer' =
                 [downlinkBuffer EXCEPT ![s] = SubSeq(@, FrameSize + 1, Len(@))]
       ELSE UNCHANGED <<framesOut, downlinkBuffer>>
  /\ UNCHANGED audioIn

DownlinkNext == \E s \in Stage : TakeFrame(s) \/ \E n \in 1 .. MaxChunk : OnAudio(s, n)

DownlinkSpec == DownlinkInit /\ [][DownlinkNext]_downlinkVars

-----------------------------------------------------------------------------
(* Properties.                                                             *)

\* What is left of a stage's audio is the latest without a gap, and never more than
\* two seconds of it, however much arrives before it is played.
BufferIsLatest ==
  \A s \in Stage :
    LET b == downlinkBuffer[s]
    IN  /\ Len(b) <= Capacity
        /\ \A i \in DOMAIN b : b[i] = audioIn[s] - Len(b) + i

\* Every frame is 160 bytes in a row of what its stage received; no byte is played
\* twice, none before an earlier one, and none once it has been passed over.
FramesInOrder ==
  \A s \in Stage :
    LET b == downlinkBuffer[s]
        f == framesOut[s]
    IN  /\ \A k \in DOMAIN f :
             /\ Len(f[k]) = FrameSize
             /\ \A i \in 1 .. FrameSize : f[k][i] = f[k][1] + i - 1
        /\ \A k, l \in DOMAIN f : k < l => f[k][FrameSize] < f[l][1]
        /\ f # <<>> /\ b # <<>> => f[Len(f)][FrameSize] < b[1]
=============================================================================

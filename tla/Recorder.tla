------------------------------ MODULE Recorder ------------------------------
(***************************************************************************)
(* RecorderStage as CallSession builds it, that is with recordingMode      *)
(* true: RTP workers queue the audio of both directions, the stage's own   *)
(* thread mixes it into one file, and whoever drops the last pipeline      *)
(* waits for that thread in the destructor.                                *)
(*                                                                         *)
(* A sample is named by its place in its direction, 1, 2, ...; decoding    *)
(* and adding do not matter here.  A frame of the file is a pair of        *)
(* samples, one of them missing where only one direction was written.      *)
(***************************************************************************)
EXTENDS Integers, Sequences, SequencesExt, FiniteSetsExt

CONSTANTS
  Limit,     \* samples one direction may be ahead: 8000
  MaxChunk,  \* bound on the samples of a chunk
  MaxSent    \* bound on the samples of a direction

ASSUME LimitAssumption == {Limit, MaxChunk, MaxSent} \subseteq Nat \ {0}

Direction == {"uplink", "downlink"}
Sample == 1 .. MaxSent
Missing == 0

VARIABLES
  isOpen,   \* mixedFile_.is_open()
  queue,    \* RecorderStage::queue_
  running,  \* RecorderStage::running_
  worker,   \* the thread in workerLoop
  batch,    \* its local buffer, swapped with queue_
  ahead,    \* ulBuffer_ and dlBuffer_
  file,     \* the frames written to mixedFile_
  owner,    \* the thread that destroys the stage
  sent      \* samples queued so far, by direction

thread == <<worker, batch>>
recording == <<ahead, file>>
vars == <<isOpen, queue, running, worker, batch, ahead, file, owner, sent>>

Chunk == [direction : Direction, samples : Seq(Sample)]
Frame == [Direction -> Sample \cup {Missing}]

TypeOK ==
  /\ isOpen \in BOOLEAN
  /\ queue \in Seq(Chunk)
  /\ running \in BOOLEAN
  /\ worker \in {"wait", "asleep", "write", "done"}
  /\ worker = "done" => ~running
  /\ batch \in Seq(Chunk)
  /\ ahead \in [Direction -> Seq(Sample)]
  /\ file \in Seq(Frame)
  /\ owner \in {"none", "notify", "join", "closed"}
  /\ sent \in [Direction -> 0 .. MaxSent]

\* The constructor; the file may not open.
Init ==
  /\ isOpen \in BOOLEAN
  /\ queue = <<>>
  /\ running = TRUE
  /\ worker = "wait"
  /\ batch = <<>>
  /\ ahead = [d \in Direction |-> <<>>]
  /\ file = <<>>
  /\ owner = "none"
  /\ sent = [d \in Direction |-> 0]

-----------------------------------------------------------------------------
(* The RTP workers, while the pipeline lives.                              *)

\* Mutant: the thread is not told.
WakeNobody == UNCHANGED worker

\* cv_.notify_one
Wake == worker' = IF worker = "asleep" THEN "wait" ELSE worker

\* processUplink and processDownlink, for a chunk that is not empty.
Process(d, n) ==
  /\ owner = "none"
  /\ sent[d] + n <= MaxSent
  /\ queue' = Append(queue, [direction |-> d,
                             samples |-> [i \in 1 .. n |-> sent[d] + i]])
  /\ sent' = [sent EXCEPT ![d] = @ + n]
  /\ Wake
  /\ UNCHANGED <<isOpen, running, batch, recording, owner>>

-----------------------------------------------------------------------------
(* The recorder's thread: workerLoop.                                      *)

\* Mutant: the thread leaves as soon as the stage is being destroyed.
TakeUnlessStopping ==
  /\ worker = "wait"
  /\ IF ~running
       THEN /\ worker' = "done"
            /\ UNCHANGED <<queue, batch>>
       ELSE /\ worker' = IF queue = <<>> THEN "asleep" ELSE "write"
            /\ batch' = queue
            /\ queue' = <<>>
  /\ UNCHANGED <<isOpen, running, recording, owner, sent>>

\* Under the mutex: the predicate of the wait, the way out, or the swap.
Take ==
  /\ worker = "wait"
  /\ worker' = CASE queue # <<>> -> "write"
                 [] queue = <<>> /\ running -> "asleep"
                 [] OTHER -> "done"
  /\ batch' = queue
  /\ queue' = <<>>
  /\ UNCHANGED <<isOpen, running, recording, owner, sent>>

\* A spurious wake-up, which std::condition_variable allows.
WakeSpuriously ==
  /\ worker = "asleep"
  /\ worker' = "wait"
  /\ UNCHANGED <<isOpen, queue, running, batch, recording, owner, sent>>

\* What can be mixed of these buffers.
Common(b) == Min({Len(b[d]) : d \in Direction})
Mixed(b) == [i \in 1 .. Common(b) |-> [d \in Direction |-> b[d][i]]]

\* Mutant: only the uplink buffer is shortened.
UnmixedDownlinkKept(b) ==
  [b EXCEPT !["uplink"] = SubSeq(@, Common(b) + 1, Len(@))]

Unmixed(b) == [d \in Direction |-> SubSeq(b[d], Common(b) + 1, Len(b[d]))]

\* A direction that is too far ahead is written alone.
Alone(b, d) ==
  IF Len(b[d]) <= Limit THEN <<>>
  ELSE [i \in DOMAIN b[d] |->
          [e \in Direction |-> IF e = d THEN b[d][i] ELSE Missing]]

\* Mutant: only the uplink buffer is flushed.
KeptOfUplink(b) ==
  [d \in Direction |-> IF d = "uplink" /\ Len(b[d]) > Limit THEN <<>> ELSE b[d]]

Kept(b) == [d \in Direction |-> IF Len(b[d]) > Limit THEN <<>> ELSE b[d]]

\* One turn of the loop over the batch.
Write ==
  /\ worker = "write"
  /\ LET c == Head(batch)
         all == [ahead EXCEPT ![c.direction] = @ \o c.samples]
         rest == Unmixed(all)
     IN  IF isOpen
           THEN /\ ahead' = Kept(rest)
                /\ file' = file \o Mixed(all) \o Alone(rest, "uplink")
                             \o Alone(rest, "downlink")
           ELSE UNCHANGED recording
  /\ batch' = Tail(batch)
  /\ worker' = IF Len(batch) = 1 THEN "wait" ELSE "write"
  /\ UNCHANGED <<isOpen, queue, running, owner, sent>>

-----------------------------------------------------------------------------
(* The destructor, in the thread that drops the last pipeline.             *)

\* running_ = false under the mutex.
Stop ==
  /\ owner = "none"
  /\ running' = FALSE
  /\ owner' = "notify"
  /\ UNCHANGED <<isOpen, queue, thread, recording, sent>>

Notify ==
  /\ owner = "notify"
  /\ owner' = "join"
  /\ Wake
  /\ UNCHANGED <<isOpen, queue, running, batch, recording, sent>>

\* worker_.join(), and the file is completed and closed.
Join ==
  /\ owner = "join"
  /\ worker = "done"
  /\ owner' = "closed"
  /\ UNCHANGED <<isOpen, queue, running, thread, recording, sent>>

Destroy == Notify \/ Join

Next ==
  \/ \E d \in Direction, n \in 1 .. MaxChunk : Process(d, n)
  \/ Take \/ WakeSpuriously \/ Write
  \/ Stop \/ Destroy

Spec == Init /\ [][Next]_vars

\* The recorder's thread and the destructor run on; spurious wake-ups are not
\* relied upon, and no call has to end.
Fairness == WF_vars(Take \/ Write) /\ WF_vars(Destroy)
FairSpec == Spec /\ Fairness

-----------------------------------------------------------------------------
(* Properties.                                                             *)

\* The samples of s follow number n.
Follows(s, n) == \A i \in DOMAIN s : s[i] = n + i

\* The frames hold the samples of d after number first up to number last, in order.
Holds(frames, d, first, last) ==
  LET written == {i \in DOMAIN frames : frames[i][d] # Missing}
  IN  /\ {frames[i][d] : i \in written} = first + 1 .. last
      /\ \A i, j \in written : i < j => frames[i][d] < frames[j][d]

\* So do the chunks, one after the other.
Carry(chunks, d, first, last) ==
  LET queued == {k \in DOMAIN chunks : chunks[k].direction = d}
  IN  /\ UNION {ToSet(chunks[k].samples) : k \in queued} = first + 1 .. last
      /\ \A k, l \in queued : \A i \in DOMAIN chunks[k].samples, j \in DOMAIN chunks[l].samples :
           k < l \/ (k = l /\ i < j) => chunks[k].samples[i] < chunks[l].samples[j]

\* Every sample queued is in exactly one place, the file, a buffer, the batch or
\* the queue, and each direction stays in order through all four, whatever the
\* threads do and however one direction falls behind the other.
SamplesInOrder ==
  isOpen =>
    \A d \in Direction : \E n \in 0 .. sent[d] - Len(ahead[d]) :
      /\ Holds(file, d, 0, n)
      /\ Follows(ahead[d], n)
      /\ Carry(batch \o queue, d, n + Len(ahead[d]), sent[d])

\* Between two chunks one direction is written out and the other is at most
\* Limit samples ahead: what the recorder keeps in memory is bounded.
LittleIsAhead ==
  /\ \E d \in Direction : ahead[d] = <<>>
  /\ \A d \in Direction : Len(ahead[d]) <= Limit

\* The destructor loses nothing that was queued before it, except that the mixer's
\* leftover, at most Limit samples of one direction, is not written.
ClosedFileIsComplete ==
  owner = "closed" /\ isOpen =>
    \A d \in Direction : \A n \in 1 .. sent[d] - Limit : \E i \in DOMAIN file : file[i][d] = n

\* No wake-up of the recorder's thread is missed, wherever it stands: audio is
\* written while the call goes on, not only at its end, and the destructor returns,
\* which runs under the session's mutex when a re-INVITE replaces the pipeline.
NoWakeUpIsMissed ==
  /\ queue # <<>> ~> queue = <<>>
  /\ owner = "notify" ~> owner = "closed"
=============================================================================

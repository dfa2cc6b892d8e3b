-------------------------- MODULE AudioSocketProofs --------------------------
(***************************************************************************)
(* What the server of an AudioSocket client receives until stop, for any   *)
(* number of workers, whenever and wherever the server closes the          *)
(* connection and however far each thread has come: TypeOK,                *)
(* FramesUntilStop, and why the reader does not keep stop waiting.         *)
(***************************************************************************)
EXTENDS AudioSocket, TLAPS

\* A piece sent now reaches the connection.
Writable == sockfd /\ descriptor = "open" /\ connection = "open"

Terminated == \E i \in DOMAIN wire : wire[i].what = "terminate"

LastPiece == wire[Len(wire)]

\* No worker sends before the stage is in the pipeline, and the identification is
\* sent on an empty wire.
StartInv ==
  /\ sip \in {"connect", "uuid", "stage"} => \A w \in Worker : sender[w] = "idle"
  /\ sip \in {"connect", "uuid"} => wire = <<>>

\* While pieces get through, the last one is complete or the header of the worker
\* that is about to send its payload.
LastInv ==
  Writable /\ ~Terminated /\ sip # "uuid" =>
    /\ wire # <<>>
    /\ IF \E w \in Worker : sender[w] = "payload"
         THEN \A w \in Worker : sender[w] = "payload" =>
                LastPiece = [what |-> "header", by |-> w]
         ELSE LastPiece.what \in {"uuid", "payload"}

\* FramesUntilStop for one piece.
Framed(s, i) ==
  CASE s[i].what = "uuid" -> i = 1
    [] s[i].what = "header" -> i > 1 /\ s[i-1].what \in {"uuid", "payload"}
    [] s[i].what = "payload" -> i > 1 /\ s[i-1] = [what |-> "header", by |-> s[i].by]
    [] OTHER -> FALSE

FrameInv ==
  \A i \in 1 .. Len(wire) :
    (\A j \in 1 .. i : wire[j].what # "terminate") => Framed(wire, i)

\* stop waits for a reader whose connection is shut down and whose running_ is reset.
StopInv ==
  /\ running => reader \in {"test", "recv"}
  /\ sip \in {"terminate", "shutdown", "close", "clear", "join"} =>
       ~running /\ reader \in {"test", "recv", "ended"}
  /\ sip \in {"close", "clear", "join"} => connection # "open"

SocketInv == TypeOK /\ StartInv /\ LastInv /\ FrameInv /\ StopInv

\* stop never waits for a reader that nothing wakes: running_ is reset before the
\* reader tests it, and the connection is shut down before recv can miss it.
ReaderIsWoken ==
  sip = "join" =>
    /\ reader \in {"test", "recv", "ended"}
    /\ reader = "test" => ~running
    /\ reader = "recv" => connection # "open"

-----------------------------------------------------------------------------
(* What one call of sendAll does.                                          *)

LEMMA ClientInit == Init => SocketInv
<1> SUFFICES ASSUME Init  PROVE SocketInv
  OBVIOUS
<1> USE DEF Init
<1>1. TypeOK
  <2>1. wire \in Seq(Piece)
    OBVIOUS
  <2> QED  BY <2>1, WorkerAssumption DEF TypeOK
<1>2. StartInv /\ LastInv /\ StopInv
  BY DEF StartInv, LastInv, StopInv, Writable
<1>3. FrameInv
  BY DEF FrameInv
<1> QED  BY <1>1, <1>2, <1>3 DEF SocketInv

\* A piece is appended to a wire that takes it; otherwise nothing arrives.
LEMMA SendEffect ==
  ASSUME NEW what, NEW by, SendAll(what, by)
  PROVE  /\ UNCHANGED <<sockfd, descriptor, connection, running>>
         /\ Writable' = Writable
         /\ Writable => wire' = Append(wire, [what |-> what, by |-> by])
         /\ ~Writable => wire' = wire
BY DEF SendAll, Writable

\* What Append leaves and adds.
LEMMA Appended ==
  ASSUME NEW s \in Seq(Piece), NEW p \in Piece
  PROVE  /\ Append(s, p) \in Seq(Piece)
         /\ Len(Append(s, p)) = Len(s) + 1 /\ Len(s) \in Nat
         /\ \A i \in 1 .. Len(s) : Append(s, p)[i] = s[i]
         /\ Append(s, p)[Len(s) + 1] = p
         /\ Append(s, p) # <<>>
OBVIOUS

\* A wire stays framed when a piece comes that fits behind the last one.
LEMMA FrameGrows ==
  ASSUME TypeOK, FrameInv, NEW p \in Piece, wire' = Append(wire, p),
         \/ Terminated
         \/ p.what = "terminate"
         \/ p.what = "uuid" /\ wire = <<>>
         \/ p.what = "header" /\ wire # <<>> /\ LastPiece.what \in {"uuid", "payload"}
         \/ p.what = "payload" /\ wire # <<>> /\ LastPiece = [what |-> "header", by |-> p.by]
  PROVE  FrameInv'
<1>1. wire \in Seq(Piece) /\ DOMAIN wire = 1 .. Len(wire) /\ Len(wire) \in Nat
  BY DEF TypeOK
<1>2. /\ Len(wire') = Len(wire) + 1
      /\ \A i \in 1 .. Len(wire) : wire'[i] = wire[i]
      /\ wire'[Len(wire) + 1] = p
  BY <1>1, Appended
<1> SUFFICES ASSUME NEW i \in 1 .. Len(wire'),
                    \A j \in 1 .. i : wire'[j].what # "terminate"
             PROVE  Framed(wire', i)
  BY DEF FrameInv
<1>3. CASE i \in 1 .. Len(wire)
  <2>1. \A j \in 1 .. i : wire'[j] = wire[j]
    BY <1>1, <1>2, <1>3
  <2>2. Framed(wire, i)
    BY <1>3, <2>1 DEF FrameInv
  <2>3. wire'[i] = wire[i] /\ (i > 1 => wire'[i-1] = wire[i-1])
    BY <1>1, <1>3, <2>1
  <2> QED  BY <2>2, <2>3 DEF Framed
<1>4. CASE i = Len(wire) + 1
  <2>1. ~Terminated /\ p.what # "terminate"
    BY <1>1, <1>2, <1>4 DEF Terminated
  <2>2. wire'[i] = p /\ i - 1 = Len(wire)
    BY <1>1, <1>2, <1>4
  <2>3. wire = <<>> <=> Len(wire) = 0
    BY <1>1
  <2>4. ASSUME wire # <<>>  PROVE i > 1 /\ wire'[i-1] = LastPiece
    <3>1. Len(wire) \in 1 .. Len(wire)
      BY <1>1, <2>3, <2>4
    <3>2. wire'[Len(wire)] = wire[Len(wire)]
      BY <1>2, <3>1
    <3> QED  BY <1>4, <2>2, <3>1, <3>2 DEF LastPiece
  <2>5. CASE p.what = "uuid" /\ wire = <<>>
    BY <1>4, <2>2, <2>3, <2>5 DEF Framed
  <2>6. CASE p.what = "header" /\ wire # <<>> /\ LastPiece.what \in {"uuid", "payload"}
    BY <2>2, <2>4, <2>6 DEF Framed
  <2>7. CASE p.what = "payload" /\ wire # <<>> /\ LastPiece = [what |-> "header", by |-> p.by]
    BY <2>2, <2>4, <2>7 DEF Framed
  <2> QED  BY <2>1, <2>5, <2>6, <2>7
<1> QED  BY <1>1, <1>2, <1>3, <1>4

-----------------------------------------------------------------------------
(* Every step keeps the invariant.                                         *)

LEMMA TypesKeep == ASSUME TypeOK, Next  PROVE TypeOK'
<1>1. wire' \in Seq(Piece) /\ alive' \in BOOLEAN
  <2>1. ASSUME NEW what \in {"uuid", "header", "payload", "terminate"},
               NEW by \in Worker \cup {None}, SendAll(what, by)
        PROVE  wire' \in Seq(Piece) /\ alive' \in BOOLEAN
    <3>1. [what |-> what, by |-> by] \in Piece
      BY DEF Piece
    <3>2. Append(wire, [what |-> what, by |-> by]) \in Seq(Piece)
      BY <3>1, Appended DEF TypeOK
    <3> QED  BY <2>1, <3>2 DEF SendAll, TypeOK
  <2>2. CASE SendUuid \/ SendTerminate
    BY <2>1, <2>2 DEF SendUuid, SendTerminate
  <2>3. ASSUME NEW w \in Worker, SendHeader(w) \/ SendPayload(w)
        PROVE  wire' \in Seq(Piece) /\ alive' \in BOOLEAN
    BY <2>1, <2>3 DEF SendHeader, SendPayload
  <2>4. CASE Destroy
    BY <2>4 DEF Destroy, kernel, TypeOK
  <2>5. CASE \/ ConnectFails \/ Connect \/ Stop
             \/ AddStage \/ Shutdown \/ Close \/ Clear \/ Join
             \/ \E w \in Worker : CopyPipeline(w) \/ BeginSend(w) \/ Lock(w)
             \/ ReaderStep \/ ReadFrame \/ ReadTerminate \/ PeerClose
    BY <2>5 DEF ConnectFails, Connect, Stop, AddStage, Shutdown, Close, Clear, Join,
                CopyPipeline, BeginSend, Lock, ReaderStep, ReaderTest, ReadFails, ReadFrame,
                ReadTerminate, PeerClose, kernel, TypeOK
  <2> QED  BY <2>2, <2>3, <2>4, <2>5 DEF Next, SipStep, WorkerStep
<1>2. /\ sockfd' \in BOOLEAN /\ running' \in BOOLEAN
      /\ descriptor' \in {"none", "open", "closed"}
      /\ connection' \in {"none", "open", "shut", "reset"}
      /\ reader' \in {"none", "test", "recv", "ended", "joined"}
  BY DEF Next, SipStep, WorkerStep, ReaderStep, ConnectFails, Connect, SendUuid, AddStage,
         Stop, SendTerminate, Shutdown, Close, Clear, Join, Destroy, CopyPipeline, BeginSend,
         Lock, SendHeader, SendPayload, ReaderTest, ReadFails, ReadFrame, ReadTerminate,
         PeerClose, SendAll, kernel, TypeOK
<1>3. sip' \in {"connect", "uuid", "stage", "call", "terminate", "shutdown",
                "close", "clear", "join", "dropped", "gone"}
  BY DEF Next, SipStep, WorkerStep, ReaderStep, ConnectFails, Connect, SendUuid, AddStage,
         Stop, SendTerminate, Shutdown, Close, Clear, Join, Destroy, CopyPipeline, BeginSend,
         Lock, SendHeader, SendPayload, ReaderTest, ReadFails, ReadFrame, ReadTerminate,
         PeerClose, TypeOK
<1> DEFINE MutexOK ==
      /\ sendMutex \in Worker \cup {None}
      /\ sender \in [Worker -> {"idle", "copied", "lock", "header", "payload"}]
      /\ \A w \in Worker : sender[w] \in {"header", "payload"} <=> sendMutex = w
<1>4. MutexOK'
  <2>1. CASE UNCHANGED <<sendMutex, sender>>
    BY <2>1 DEF TypeOK
  <2>2. ASSUME NEW w \in Worker, CopyPipeline(w) \/ BeginSend(w)
        PROVE  MutexOK'
    BY <2>2 DEF CopyPipeline, BeginSend, TypeOK
  <2>3. ASSUME NEW w \in Worker, Lock(w)  PROVE MutexOK'
    BY <2>3, WorkerAssumption DEF Lock, TypeOK
  <2>4. ASSUME NEW w \in Worker, SendHeader(w)  PROVE MutexOK'
    BY <2>4 DEF SendHeader, TypeOK
  <2>5. ASSUME NEW w \in Worker, SendPayload(w)  PROVE MutexOK'
    BY <2>5, WorkerAssumption DEF SendPayload, TypeOK
  <2>6. \/ \E w \in Worker : CopyPipeline(w) \/ WorkerStep(w)
        \/ UNCHANGED <<sendMutex, sender>>
    BY DEF Next, SipStep, ReaderStep, ConnectFails, Connect, SendUuid, AddStage,
           Stop, SendTerminate, Shutdown, Close, Clear, Join, Destroy, ReaderTest, ReadFails,
           ReadFrame, ReadTerminate, PeerClose
  <2> QED  BY <2>1, <2>2, <2>3, <2>4, <2>5, <2>6 DEF WorkerStep
<1> QED  BY <1>1, <1>2, <1>3, <1>4 DEF TypeOK

LEMMA StartKeeps == ASSUME TypeOK, StartInv, Next  PROVE StartInv'
<1>1. CASE \E w \in Worker : CopyPipeline(w) \/ WorkerStep(w)
  <2>1. PICK w \in Worker : CopyPipeline(w) \/ WorkerStep(w)
    BY <1>1
  <2>2. sip' = sip /\ (sip = "call" \/ sender[w] # "idle")
    BY <2>1 DEF CopyPipeline, WorkerStep, BeginSend, Lock, SendHeader, SendPayload
  <2> QED  BY <2>2 DEF StartInv
<1>2. CASE SendUuid \/ SendTerminate
  BY <1>2 DEF SendUuid, SendTerminate, StartInv
<1>3. CASE ConnectFails \/ Connect \/ Stop \/ AddStage \/ Shutdown \/ Close
           \/ Clear \/ Join \/ Destroy \/ ReaderStep \/ ReadFrame \/ ReadTerminate \/ PeerClose
  <2>1. UNCHANGED <<sender, wire>>
    BY <1>3 DEF ConnectFails, Connect, Stop, AddStage, Shutdown, Close, Clear, Join, Destroy,
           ReaderStep, ReaderTest, ReadFails, ReadFrame, ReadTerminate, PeerClose, kernel
  <2>2. /\ sip' \in {"connect", "uuid"} => sip \in {"connect", "uuid"}
        /\ sip' = "stage" => sip \in {"uuid", "stage"}
    BY <1>3 DEF ConnectFails, Connect, Stop, AddStage, Shutdown, Close, Clear, Join, Destroy,
           ReaderStep, ReaderTest, ReadFails, ReadFrame, ReadTerminate, PeerClose
  <2> QED  BY <2>1, <2>2 DEF StartInv
<1> QED  BY <1>1, <1>2, <1>3 DEF Next, SipStep

LEMMA StopKeeps == ASSUME TypeOK, StopInv, Next  PROVE StopInv'
<1>1. CASE \E w \in Worker : CopyPipeline(w) \/ WorkerStep(w)
  BY <1>1 DEF CopyPipeline, WorkerStep, BeginSend, Lock, SendHeader, SendPayload, SendAll,
              StopInv, kernel
<1>2. CASE SendUuid \/ SendTerminate
  BY <1>2 DEF SendUuid, SendTerminate, SendAll, StopInv
<1>3. CASE ConnectFails \/ Connect \/ Stop \/ AddStage
  BY <1>3 DEF ConnectFails, Connect, Stop, AddStage, kernel, StopInv, TypeOK
<1>4. CASE Shutdown \/ Close \/ Clear \/ Join \/ Destroy
  BY <1>4 DEF Shutdown, Close, Clear, Join, Destroy, kernel, StopInv, TypeOK
<1>5. CASE ReaderStep \/ ReadFrame \/ ReadTerminate \/ PeerClose
  BY <1>5 DEF ReaderStep, ReaderTest, ReadFails, ReadFrame, ReadTerminate, PeerClose,
              kernel, StopInv, TypeOK
<1> QED  BY <1>1, <1>2, <1>3, <1>4, <1>5 DEF Next, SipStep

\* A step that sends nothing leaves what is on the wire, and who is between a header
\* and its payload, as they are; and a connection that takes no more never does again.
LEMMA QuietKeeps ==
  ASSUME LastInv, FrameInv, wire' = wire,
         Writable' /\ sip' # "uuid" => Writable /\ sip # "uuid",
         \A w \in Worker : sender'[w] = "payload" <=> sender[w] = "payload"
  PROVE  LastInv' /\ FrameInv'
<1>1. FrameInv'
  BY DEF FrameInv, Framed
<1>2. (Terminated' <=> Terminated) /\ LastPiece' = LastPiece
  BY DEF Terminated, LastPiece
<1> QED  BY <1>1, <1>2 DEF LastInv

LEMMA LastKeeps ==
  ASSUME TypeOK, StartInv, LastInv, FrameInv, Next
  PROVE  LastInv' /\ FrameInv'
<1> DEFINE P(what, by) == [what |-> what, by |-> by]
<1>0. wire \in Seq(Piece) /\ DOMAIN wire = 1 .. Len(wire) /\ Len(wire) \in Nat
  BY DEF TypeOK
<1>a. ASSUME NEW p \in Piece, wire' = Append(wire, p)
      PROVE  /\ LastPiece' = p /\ wire' # <<>>
             /\ Terminated => Terminated'
             /\ p.what = "terminate" => Terminated'
  <2>1. Len(wire') = Len(wire) + 1 /\ wire'[Len(wire) + 1] = p /\ wire' # <<>>
    BY <1>0, <1>a, Appended
  <2>2. \A i \in 1 .. Len(wire) : wire'[i] = wire[i]
    BY <1>0, <1>a, Appended
  <2>3. DOMAIN wire' = 1 .. Len(wire) + 1
    BY <1>0, <1>a, <2>1
  <2> QED  BY <1>0, <2>1, <2>2, <2>3 DEF LastPiece, Terminated
<1>1. CASE SendUuid
  <2>1. CASE Writable
    <3>1. wire = <<>> /\ wire' = Append(wire, P("uuid", None)) /\ P("uuid", None) \in Piece
      BY <1>1, <2>1, SendEffect DEF SendUuid, StartInv, Piece
    <3>2. FrameInv'
      BY <3>1, FrameGrows
    <3>3. \A w \in Worker : sender'[w] = "idle"
      BY <1>1 DEF SendUuid, StartInv
    <3> QED  BY <1>a, <3>1, <3>2, <3>3 DEF LastInv
  <2>2. CASE ~Writable
    <3>1. wire' = wire /\ ~Writable' /\ sender' = sender
      BY <1>1, <2>2, SendEffect DEF SendUuid
    <3> QED  BY <3>1, QuietKeeps
  <2> QED  BY <2>1, <2>2
<1>2. CASE SendTerminate
  <2>1. CASE Writable
    <3>1. wire' = Append(wire, P("terminate", None)) /\ P("terminate", None) \in Piece
      BY <1>2, <2>1, SendEffect DEF SendTerminate, Piece
    <3>2. FrameInv'
      BY <3>1, FrameGrows
    <3> QED  BY <1>a, <3>1, <3>2 DEF LastInv
  <2>2. CASE ~Writable
    <3>1. wire' = wire /\ ~Writable' /\ sender' = sender
      BY <1>2, <2>2, SendEffect DEF SendTerminate
    <3> QED  BY <3>1, QuietKeeps
  <2> QED  BY <2>1, <2>2
<1>3. ASSUME NEW w \in Worker, SendHeader(w)  PROVE LastInv' /\ FrameInv'
  <2>0. /\ sip' = sip /\ sip # "uuid"
        /\ \A v \in Worker : sender[v] # "payload"
        /\ \A v \in Worker : sender'[v] = "payload" <=> v = w
    BY <1>3 DEF SendHeader, StartInv, TypeOK
  <2>1. CASE Writable
    <3>1. wire' = Append(wire, P("header", w)) /\ P("header", w) \in Piece
      BY <1>3, <2>1, SendEffect DEF SendHeader, Piece
    <3>2. Terminated \/ (wire # <<>> /\ LastPiece.what \in {"uuid", "payload"})
      BY <2>0, <2>1 DEF LastInv
    <3>3. FrameInv'
      BY <3>1, <3>2, FrameGrows
    <3> QED  BY <1>a, <2>0, <3>1, <3>3 DEF LastInv
  <2>2. CASE ~Writable
    <3>1. wire' = wire /\ ~Writable'
      BY <1>3, <2>2, SendEffect DEF SendHeader
    <3>2. FrameInv'
      BY <3>1 DEF FrameInv, Framed
    <3> QED  BY <3>1, <3>2 DEF LastInv
  <2> QED  BY <2>1, <2>2
<1>4. ASSUME NEW w \in Worker, SendPayload(w)  PROVE LastInv' /\ FrameInv'
  <2>0. /\ sip' = sip /\ sip # "uuid" /\ sender[w] = "payload"
        /\ \A v \in Worker : sender'[v] # "payload"
    BY <1>4 DEF SendPayload, StartInv, TypeOK
  <2>1. CASE Writable
    <3>1. wire' = Append(wire, P("payload", w)) /\ P("payload", w) \in Piece
      BY <1>4, <2>1, SendEffect DEF SendPayload, Piece
    <3>2. Terminated \/ (wire # <<>> /\ LastPiece = [what |-> "header", by |-> w])
      BY <2>0, <2>1 DEF LastInv
    <3>3. FrameInv'
      BY <3>1, <3>2, FrameGrows
    <3> QED  BY <1>a, <2>0, <3>1, <3>3 DEF LastInv
  <2>2. CASE ~Writable
    <3>1. wire' = wire /\ ~Writable'
      BY <1>4, <2>2, SendEffect DEF SendPayload
    <3>2. FrameInv'
      BY <3>1 DEF FrameInv, Framed
    <3> QED  BY <3>1, <3>2 DEF LastInv
  <2> QED  BY <2>1, <2>2
<1>5. ASSUME NEW w \in Worker, CopyPipeline(w) \/ BeginSend(w) \/ Lock(w)
      PROVE  LastInv' /\ FrameInv'
  <2>1. /\ UNCHANGED <<sockfd, kernel, sip>>
        /\ \A v \in Worker : sender'[v] = "payload" <=> sender[v] = "payload"
    BY <1>5 DEF CopyPipeline, BeginSend, Lock, TypeOK
  <2>2. Writable' = Writable /\ wire' = wire /\ sip' = sip
    BY <2>1 DEF Writable, kernel
  <2> QED  BY <2>1, <2>2, QuietKeeps
<1>6. CASE ConnectFails \/ Connect \/ Stop \/ AddStage \/ Shutdown \/ Close
           \/ Clear \/ Join \/ Destroy \/ ReaderStep \/ ReadFrame \/ ReadTerminate \/ PeerClose
  <2>1. UNCHANGED <<sender, wire>>
    BY <1>6 DEF ConnectFails, Connect, Stop, AddStage, Shutdown, Close, Clear, Join, Destroy,
           ReaderStep, ReaderTest, ReadFails, ReadFrame, ReadTerminate, PeerClose, kernel
  <2>2. Writable' /\ sip' # "uuid" => Writable /\ sip # "uuid"
    BY <1>6 DEF ConnectFails, Connect, Stop, AddStage, Shutdown, Close, Clear, Join, Destroy,
           ReaderStep, ReaderTest, ReadFails, ReadFrame, ReadTerminate, PeerClose, kernel,
           Writable
  <2> QED  BY <2>1, <2>2, QuietKeeps
<1> QED  BY <1>1, <1>2, <1>3, <1>4, <1>5, <1>6 DEF Next, SipStep, WorkerStep

LEMMA SocketAlways == Spec => []SocketInv
<1>1. SocketInv /\ [Next]_vars => SocketInv'
  <2>1. ASSUME SocketInv, Next  PROVE SocketInv'
    BY <2>1, TypesKeep, StartKeeps, StopKeeps, LastKeeps DEF SocketInv
  <2>2. ASSUME SocketInv, UNCHANGED vars  PROVE SocketInv'
    BY <2>2 DEF SocketInv, TypeOK, StartInv, StopInv, LastInv, FrameInv, Framed, Writable,
                Terminated, LastPiece, vars, kernel
  <2> QED  BY <2>1, <2>2
<1> QED  BY <1>1, ClientInit, PTL DEF Spec

-----------------------------------------------------------------------------
(* The results.                                                            *)

\* The client's variables keep their types; a worker between its header and the end of
\* its payload is the one that holds sendMutex_, and no other is.
THEOREM AudioSocketTypes == Spec => []TypeOK
<1>1. SocketInv => TypeOK
  BY DEF SocketInv
<1> QED  BY <1>1, SocketAlways, PTL

\* Until stop the server receives the identification first, then headers that are each
\* followed by the payload they announce, however many workers send at once.
THEOREM ServerReadsFrames == Spec => []FramesUntilStop
<1>1. SocketInv => FramesUntilStop
  <2> SUFFICES ASSUME SocketInv, NEW i \in DOMAIN wire,
                      "terminate" \notin Before(i) \cup {wire[i].what}
               PROVE  CASE wire[i].what = "uuid" -> i = 1
                        [] wire[i].what = "header" ->
                             i > 1 /\ wire[i-1].what \in {"uuid", "payload"}
                        [] wire[i].what = "payload" ->
                             i > 1 /\ wire[i-1] = [what |-> "header", by |-> wire[i].by]
    BY DEF FramesUntilStop
  <2>1. i \in 1 .. Len(wire) /\ Len(wire) \in Nat
    BY DEF SocketInv, TypeOK
  <2>2. \A j \in 1 .. i : wire[j].what # "terminate"
    BY <2>1 DEF Before
  <2>3. Framed(wire, i)
    BY <2>1, <2>2 DEF SocketInv, FrameInv
  <2> QED  BY <2>3 DEF Framed
<1> QED  BY <1>1, SocketAlways, PTL

\* stop, which holds the session's mutex in the SIP thread, never waits for a reader
\* that nothing wakes.
THEOREM StopCanJoin == Spec => []ReaderIsWoken
<1>1. SocketInv => ReaderIsWoken
  BY DEF SocketInv, StopInv, ReaderIsWoken
<1> QED  BY <1>1, SocketAlways, PTL
=============================================================================

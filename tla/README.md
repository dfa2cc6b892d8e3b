# SIP/RTP to gRPC gateway: TLA+ specifications

The gateway answers SIP calls, terminates their RTP audio and hands it to a voice
bot over gRPC, to an AudioSocket server over TCP, or back to the caller (echo).
These modules specify what its threads do to the state they share, TLC checks
them on small instances, and TLAPS proves the central ones for instances of any
size. Paths are relative to the repository; `GatewayApp.cpp` stands for
`src/app/GatewayApp.cpp`, and so on.

`tlc -config <cfg> <module>` runs a check, `tlapm <module>Proofs.tla` the proofs.
The list of runs, the map from definitions to lines, the mutants that show that a
property can fail, and the hazards are in `PROJECT.json`.

## 1. The system

### Threads

| thread | started by | does |
|---|---|---|
| SIP (main) | `GatewayApp::run` | polls the SIP socket, `handleSipMessage`, `cleanupTransactions`; then the destructors |
| console | `GatewayApp::init` | `cliLoop`: `list`, `cut <id>`, `exit` |
| RTP workers | `RtpWorker::start` | epoll, `recvfrom`, `handleRtpPacket`, the whole media pipeline |
| bot reader, one per call | `VoiceBotClient::connect` | reads the gRPC stream, calls back into `GrpcBridgeStage` |
| AudioSocket reader, one per call | `AudioSocketClient::connect` | reads frames, calls back into `AudioSocketStage` |
| recorder, one per call | `RecorderStage` | mixes and writes what workers queue |

A signal is handled in whichever thread the kernel picks.

### Components

| component | state | operations | what makes it correct |
|---|---|---|---|
| `GatewayApp` | `running_`, `transactions_`, `lastCleanup` | `run`, `handleSipMessage`, `cleanupTransactions`, `handleRtpPacket`, `cliLoop`, destructor | every error path takes back what earlier steps did; a request is handled once; the run ends |
| `CallRegistry` | `calls_`, `portMap_`, `callToPorts_` under one mutex | `addCall`, `getCall`, `getCallByPort`, `removeCall`, `registerRtpPort`, `count` | the maps agree; the call limit holds; a removed call is destroyed |
| `CallSession` | `localRtpPort_`, `pipeline_`, `botClient_`, `tcpClient_`, `jitterBuffer_`, `remoteRtpAddr_`, RTP numbers | `init`, `startPipeline`, `terminate`, `onSipMessage`, `onRtpPacket`, `processRtpFrame` | a port is held by one session and released once; clients are stopped before what they use is gone; media goes back where it came from |
| `SipTransaction` | state, last response, time of last activity | `sendResponse`, `receiveRequest`, `shouldResendResponse` | a retransmission gets the answer again and starts nothing |
| `SipServer` | socket | `poll`, `sendResponse` | what is in the socket is handled |
| `SipParser`, `SipMessage`, `SipResponseBuilder` | a message | `parse`, `getHeader`, `toString`, `createResponse` | a response finds the client's transaction; the whole body is read |
| `SdpParser`, `SdpAnswer` | an `SdpSession` | `parse`, `generate` | the answer is one of the codecs of the offer, and says which |
| `RtpServer`, `RtpWorker` | port ranges, `nextWorker_`, `activeSockets_`, epoll set | `init`, `allocatePort`, `releasePort`, `send`, `loop` | ranges are disjoint; a lease has its socket; no socket leaks |
| `JitterBuffer` | ordered packets | `push`, `pop` | order, across the wrap of 16-bit numbers; nothing lost |
| `MediaPipeline` and stages | list of stages; downlink buffers | `processUplink`, `processDownlink` | frames come out in order under two threads |
| `G711Utils` | | `linearToULaw`, `ulawToLinear`, `linearToALaw`, `alawToLinear` | what is heard is what was said |
| `VoiceBotClient` | `running_`, stream, `readerThread_` | `connect`, `sendConfig`, `sendAudio`, `stop` | stop returns, the reader is joined, callbacks hit a live stage |
| `AudioSocketClient` | `sockfd_`, `running_`, `sendMutex_`, `readerThread_` | `connect`, `sendUuid`, `sendAudio`, `stop` | the server sees whole frames; stop returns |
| `RecorderStage` | `queue_`, `running_`, mixing buffers, file | `processUplink`, `processDownlink`, `workerLoop`, destructor | no sample lost or out of order, no missed wake-up |
| `SignalHandler`, `Logger`, `main` | `exitFlag_`, the logger's mutex | `handleSignal`, `log` | the process ends, in an order that leaves no thread behind |
| `SipDialog`, `CallStateMachine`, `ObjectPool` | | | never used |
| `Config` | | | I/O |

### How they interact

An INVITE is a sequence of critical sections of several components:
`getCall`, `count`, `addCall` (registry), `allocatePort` (RTP server),
`registerRtpPort` (registry), `generate` (SDP), `startPipeline` (session). The
console may cut the call, and a worker may receive a packet for it, between any
two. Ownership is by `shared_ptr`: the registry, the handler and each worker hold
one to the session, and whoever drops the last runs `~CallSession`, which releases
the port and joins the threads of the call. The pipeline is shared the same way
between the session and the workers in `processRtpFrame`. The readers call back into
stages through bare pointers.

A packet of media clocks both directions: the worker that received it pushes it into the
jitter buffer, takes the earliest frame out, sends it up the pipeline, and takes a frame
of the bot's or the server's audio down, if there is one, to number and send it.

The registry and the RTP server are function statics, destroyed after `main` has
returned: the registry first, while the workers are running.

### What is hard

`PROJECT.json` lists each hazard at its line. In groups:

* the order of critical sections of one handler against another thread's;
* ownership: who runs a destructor, in which thread, holding which mutex;
* SIP over UDP: copies that come late, twice, or not at all, against the cleanup
  of the table; headers that are repeated, folded, or out of order;
* threads that must be woken and joined: readers, the recorder, the console, the workers;
* numbers used after the mutex: ports, descriptors, payload types, sequence numbers;
* wrap-around, uneven division, clamping.

## 2. The modules

| module | models | composed with |
|---|---|---|
| `CallGateway` | the SIP handler, registry, sessions, port leases, console and workers | |
| `SipTransactions` | the transaction table, the SIP clients and the network | |
| `GatewayProcess` | main loop, console, signal, workers and the end of the process | extends `SipTransactions` |
| `SipMessages` | `SipParser`, `SipMessage`, `SipResponseBuilder`, as operators | |
| `SdpNegotiation` | offer, answer, and what the stages make of the payload type | |
| `InviteExchange` | a datagram from the wire to the answer as the client reads it | extends `SdpNegotiation`, `SipMessages` |
| `RtpPorts` | `RtpServer` and `RtpWorker`: partition, allocation, release, send, epoll | |
| `JitterBuffer` | `push`, `pop`, and the network that feeds them | instantiates `PlayoutWindow` |
| `PlayoutWindow` | what a jitter buffer of fixed depth promises | |
| `DownlinkBuffer` | `downlinkBuffer_` of the two bot stages | |
| `G711` | `G711Utils` and the gain, as operators on 16-bit integers | |
| `CallMedia` | the media of one call under several workers | extends `JitterBuffer`, `DownlinkBuffer`, `G711` |
| `BotClient` | life and death of a `VoiceBotClient` and its stage | |
| `AudioSocket` | one `AudioSocketClient` and the TCP connection | |
| `Recorder` | `RecorderStage` and its thread | |

`MC<module>` gives a module's constants their values for TLC, `<module>Proofs` holds its
theorems; those of `SipTransactions` are in `GatewayProcessProofs`, those of `JitterBuffer`,
`DownlinkBuffer` and `G711` in `CallMediaProofs`, those of `SdpNegotiation` in `InviteExchangeProofs`. Operators whose comment begins with "Mutant:" are not part of a
specification: each is the definition after it with a plausible bug.

### CallGateway

State: the registry's three maps (`None` for no entry), `activeSockets` (the ports
bound, over all workers), `heap` (which `CallSession` objects exist), `localRtpPort` of
each, and the program counters `sip` and `rtp[w]` with their locals, the
`shared_ptr`s included. An action is one critical section. The handler of an INVITE
is `ReceiveInvite`, then `RefuseBusy` or `BelowLimit` and `CreateCall`, then
`AllocatePort` or `AllocationFails`, `RegisterPort`, `StartPipeline` or
`NotAcceptable` with `ReleaseOffered`, and `Return`. A BYE is `ReceiveBye`,
`TerminateSession`, `RemoveHandled`, `Return`. `Reclaim` is the destructor: it is part of
every action that drops a `shared_ptr`. The console's `Cut` is always enabled when
`Operator` holds; `Reinvite` says whether peers send an INVITE for a call that is
registered, which the code accepts and treats as a second set-up.

A 400 for a body that does not parse as SDP is not there: `parse` always returns a
session, so that branch cannot be reached.

### SipTransactions

`transactions` is the table, keyed by client transaction. The handler is one
action, as it holds `transactionsMutex_` throughout and only one thread calls it. A call is
reduced to whether it is registered. The clients are RFC 3261 user agents: they
retransmit until the final answer or the end of their timer. The network holds a
set of datagrams: delivering one leaves it there, which is duplication and
reordering, until it is older than `MaxDelay`. That a datagram may be lost matters to liveness
only, and `Lose` is a step of `GatewayProcess`. `Age` and `Expired` follow the arithmetic of
`cleanupTransactions`.

### GatewayProcess

`SipTransactions` with the threads around its handler. `MainStep` is `run` and what follows it
in `main`: `TestExit`, then `PollRequest` and `PollAck` until `PollEnds`, `CleanUp`, and
around again; `LeaveRun`, `JoinConsole` (`~GatewayApp`), `DestroyRegistry`, `JoinWorkers` (`~RtpServer`). The
socket holds what has arrived; `poll` empties it. `ConsoleStep` is `cliLoop`, which tests
`running_`, blocks in `getline`, and executes a line. The handler of a signal logs: where it
interrupts a thread that is inside `Logger::log` (`SignalInLogger`) that thread waits for itself
while it holds the logger's mutex, and every other thread stops at its next line of log
(`LoggerFree` in their guards). `ProcessTick` is the clock of `SipTransactions`: time passes at any moment,
entries age, clients give up (`GivenUp`), and `CleanUp` drops what is old. A datagram in the socket is one of those that
`MaxDelay` bounds: while `run` goes on it is read before that is over.

### SipMessages and InviteExchange

A datagram (`Datagram`, the type the theorems assume) is its first line, its header lines and the lines of its body, so that `ReadLine` is
one turn of the parser's loop, on a header, a folded line or a line without a colon, and
`Content-Length` counts lines. Names stand for their lower case, as the code compares them; the value
of a header is a sequence of parts, so that a part may stand on a folded line. `ToDatagram` is
`toString` (a multimap, ordered by name), `CreateResponse` the builder.

`InviteExchange` takes a datagram through `poll` and `handleSipMessage`: `Drop`, `ReceiveOther` or
`ReceiveInvite`, which answers 100; a request without a Call-ID, or with an empty one, is dropped. Then the offer line by line, and `AnswerInvite` with 200 and
the answer, or 488. The client reads what comes back with the same rules.

### SdpNegotiation

An offer is a sequence of lines; `ParseLine` is one turn of the loop of `parse`, `Answer` is
`generate` and what `handleSipMessage` does with the result. `StageDecoder` and
`BotCodec` are what the stages and the bot make of the payload type.

### RtpPorts

`StartOf` and `EndOf` are the partition of `RtpServer::init`. Allocation walks over the workers
in several steps, because other threads use the RTP server in between;
`RtpWorker::allocatePort` is one step under its mutex. Ports may be taken by other
programs (`BindFails`), and `epoll_ctl` may refuse a socket (`EpollFails`). Descriptors
are the lowest free number, and are reused.

### JitterBuffer and PlayoutWindow

Packets are named by their place in the stream; the buffer compares only their
sequence numbers, modulo `Modulus`. The network loses up to `Burst` packets in a row,
lets a packet be overtaken by up to `Reorder` later ones, and duplicates it. `PlayoutWindow` is the
abstract specification: a set of packets, the earliest of which is played as soon
as it holds `Depth`. The refinement maps `window` to the packets in `buffer`.

### CallMedia, DownlinkBuffer, G711

A session is in one of the three modes, and has the payload type of its last INVITE (`types`). Every INVITE builds a
stage, in any mode: `Reinvite` opens another port, takes the new payload type and address, and puts a new
stage, with an empty buffer, in the place of the old one; a worker goes on with the stage and the payload type that it has copied. A
stage whose client does not connect, or whose server sends chunks of an odd size only, is one to which no audio comes. Audio
comes to a stage (`IsFed`) as long as it is the session's, or has been replaced and a worker still holds it.
A worker `w` serves the ports of its share; `ports` are the workers with an open port of the
call: one, until `Reinvite` adds the worker of another and, as the code does, leaves the first open.
`Receive` is the locked part of `onRtpPacket`: the lock on the sender's address and `push`;
`ReceiveOther` is a packet of another payload type. `PopFrame` and `CopySession` are the start of
`processRtpFrame`. `EchoStage` has no mutex: `BeginEcho` and `EndEcho` bracket the write of its buffer,
`TakeEcho` and `ClearEcho` read it and reset its flag, and what two writers leave there is
`Torn`. `TakeDownlink` takes a frame of the server's audio, which `ReadAudio` adds (in the code
after encoding; here a byte is named by its place, and `PeerHearsServer` relates places to
samples). `TakeNumber` advances sequence number and timestamp under the mutex, `Send` is outside of it.
Timestamps are counted from the start of the call: their 2^32 is not reached.

`G711` has the four conversions and the gain on integers of 16 bits (`Negated` is the code's
negation with its overflow). A code stands for the byte on the wire up to the inversion of bits
that encoder and decoder share.

### BotClient

A number stands for one pipeline, its stage and its client, in gRPC mode.
`startPipeline` is four steps under the session's mutex, the last of which is missing when there is no stream
(`ConnectFails`); `terminate` is `Terminate`,
`Join`, `Drop`. `Continue` finds the client whose last `shared_ptr` a step has dropped
and runs its destructor in that thread (`Destroy`, `Join`). `aborted` is
`std::terminate`, called when a `std::thread` is destroyed unjoined.

### AudioSocket

One client from `connect` to its destructor. `sockfd`, `descriptor` and `connection` keep
apart the number in the object, the kernel's descriptor and the TCP connection,
because `stop` changes them one after the other while others use them.
`wire` is what reached the server, in pieces of one `sendAll` each.

### Recorder

The queue, the condition variable (`Take` tests the predicate, waits and takes the batch
in one step; `WakeSpuriously` is the library's right), the mixer and the
destructor. A sample is its place in its direction, so the file shows what was
lost or moved.

## 3. The runs

| run | asks | states |
|---|---|---|
| `calls` | With re-INVITEs and cuts at any moment: are ports exclusive, does the limit hold, do calls at rest have their socket, is what leaves the registry destroyed? | 68 205 |
| `calls_daemon` | Without console and re-INVITEs: does any port leak, do the maps agree, do packets reach their call? | 3 276 |
| `calls_reinvite` | Does a port leak with a re-INVITE? It does. | violation |
| `sip_copies` | Is every request handled once, are answered calls kept and ended calls gone, does a call leave only because its client wants it to, whatever copies come late? | 936 270 |
| `gateway_process` | Does the process end, whatever ends it? How many commands does the console still execute? While it runs, does retransmission get a request its answer before the client gives up? | 86 285 |
| `invite_exchange` | Is the whole offer read and the best codec agreed; do responses match their request; does the client learn what was agreed? | 707 167 |
| `call_media` | Is what arrives played in order, echoed or answered with the server's audio, numbered, and sent to where the call came from, with one worker or two? Is the jitter buffer a playout window? | 898 208 |
| `ports_leases` | Does every lease have its socket, does one leak, is a worker left out? | 838 240 |
| `bot_calls` | Does the reader call into a dead stage; does stop return? | 7 264 |
| `bot_closed` | Does the gateway survive a bot that closes its stream? It does not. | violation |
| `socket_frames` | Does the server see whole frames; does stop return? | 35 436 |
| `recorder_file` | Is a sample lost or moved, a wake-up missed? | 118 648 |

Every module has a type invariant. The runs list that of `CallGateway` and of `CallMedia`, whose
theorems need it; the others hold on the same instances and say nothing a reader would doubt.

### Bounds, and why they suffice

* `calls`: two Call-IDs and a limit of one make a refused call and a call after another
  on the same port; three session objects are one more than two ids can use at a
  time while a worker holds a dead one; two ports let a re-INVITE take a second
  one. One worker serves both ports, so that a port moves between calls while its packet is
  being looked up. `calls_daemon` has two workers, three ports and two calls at
  a time. The theorems are for any number of everything.
* `sip_copies`: one second per tick, a timer of two seconds (`Timeout`, 32 in the code), a delay
  of one, four ticks: an entry made at time 0 is dropped at 3, a copy sent at 1
  arrives at 2 at the latest. Of an INVITE, its BYE, its CANCEL, an INVITE for
  a place that is taken and an OPTIONS, any two are sent in one behaviour (`MaxRequests`). A
  datagram is not delayed by more than a second (`DelayAssumption`): the code's "age > 32" leaves no
  more between the last retransmission and the cleanup.
* `gateway_process`: one INVITE to a gateway without room (486), so that the question of an answer is not
  settled by the exception for accepted INVITEs. Two ticks of a second, with a timer of one: the client gives up, and the
  entry is cleaned up, in the middle of anything. A datagram is not delayed across a tick (`MaxDelay = 0`), which leaves
  copies that come after the cleanup to `sip_copies`, whose steps these are, and to the proofs, where delay, timer and clock are
  arbitrary. One line that is typed and not yet read, so that one can be late; what is read makes room for the next. One worker: workers
  do not wait for each other.
* `invite_exchange`: every offer of up to four lines, with any names for the numbers 0, 8, 97 and the -1 that
  `generate` uses for none, in a
  plain INVITE; and one offer behind up to three free header lines before the Call-ID and one after it,
  each a repeated, folded, unknown, colonless or contradictory line. Three lines hold a
  repeated header that is folded, the one case the parser gets wrong.
* `call_media`: a buffer of depth 3 (`TARGET_SIZE`, 5 in the code) whose network overtakes by 2 and loses
  1, numbers modulo 24 from 21, so that a stream of 6 (4 outside of ECHO mode) wraps; `NetworkAssumption` keeps what is
  compared within half of the numbers, as the code needs. Two workers and two stages: one re-INVITE, which may change the
  codec. A capacity of 3 bytes, frames of 2 and chunks of up to 2, five bytes a stage, so that the buffer overflows in the middle of a
  frame. The server says five samples, a byte each: both signs, both ends of the clamp, and two that it clamps to the lowest
  number; the theorem is for any. The session's payload types are 0 and 8 in AUDIOSOCKET mode, 0 in the
  others, which do nothing with it. The theorems are for any number of workers and stages.
* `ports_leases`: ports 5 to 11 for two workers: an odd start and an odd share, so that the
  first worker begins off its share, at 6, and the second, from 8, takes the rest. Three descriptors, so that they
  run out before the ports do.
* `bot_calls`: four pipelines at a time, of which the session, the worker and two destructors can
  hold one each.
* `socket_frames`: two workers and at most seven pieces on the wire: the identification,
  and three frames.
* `recorder_file`: one direction ahead by up to 2 samples (8000 in the code), chunks of up to
  two, four samples a direction: both directions can be the one ahead, and be cut back
  twice.

`CHECK_DEADLOCK FALSE` stands where the modelled life is over: the stream or the exchange
ends, the client is destroyed, `main` has returned, the process is aborted, the clock reaches its
bound.

### Fairness

* `CallGateway`: the SIP thread finishes the handler it is in and a worker the packet it
  holds. Nobody has to send, call or type.
* `GatewayProcess`: main and console run, a worker finishes its packet and sooner or later sees that
  it should end. A client retransmits as its timers say; what is sent again and again is
  delivered at some time (strong fairness of the network, in both directions). A request that comes
  in every turn of `poll` keeps `poll` from returning: that this does not go on for ever is
  `SF(PollEnds)`, an assumption about the clients. Nobody has to type, and `getline` may
  wait for ever.
* `BotClient`, `AudioSocket`: every thread finishes what it has begun; a blocked read
  ends once its stream is cancelled, closed or shut down, which is what gRPC and the
  kernel promise. The AudioSocket server is assumed to read: `send` does not block
  for ever.
* `Recorder`: the recorder's thread runs when it can, and a destructor that was
  begun goes on.

### What does not hold

Two disagreements of code and comments have a run of their own.

* `calls_reinvite` (`CallSession.cpp:46`): a second INVITE for a registered call allocates
  another port and `startPipeline` overwrites `localRtpPort_`; the first port stays bound.
  `PortsHaveOwners` is therefore checked and proved without re-INVITEs.
* `bot_closed` (`VoiceBotClient.cpp:26`): when the bot ends the stream, `readerLoop` clears
  `running_`, `stop` returns at once, and the unjoined thread's destructor ends the process.

The modules define further properties that do not hold; each is found violated
when it is put in the place of the properties of a run:

| property | module and constants | why |
|---|---|---|
| `RegistryMapsAgree` | `calls_daemon` with `Operator = TRUE` | a cut between `addCall` and `registerRtpPort` leaves entries of no call (`GatewayApp.cpp:139`) |
| `AcceptedInvitesAreAnswered` | `gateway_process` with `MaxCalls = 1` | `shouldResendResponse` refuses `TERMINATED`, so the 200 of an INVITE is sent once (`SipTransaction.cpp:76`); line 23 keeps the entry "just to handle retransmissions if needed" |
| `ExitEndsProcess` | `gateway_process` | after the signal `main` joins the console, which waits for a line (`GatewayApp.cpp:19`); line 59 says "Press Ctrl+C to exit" |
| `WorkersFindRegistry` | `gateway_process` | the registry is destroyed before the RTP server joins its workers (`CallRegistry.cpp:4`) |
| `EntriesAreSockets` | `ports_leases` | `activeSockets_[p]` stays when `epoll_ctl` refuses the socket (`RtpWorker.cpp:65`) |
| `SendsFromOwnPort` | `ports_leases` | `send` uses the descriptor after the mutex (`RtpWorker.cpp:117`) |
| `TerminateIsAPacket` | `socket_frames` | `stop` sends without `sendMutex_` (`AudioSocketClient.cpp:56`) |
| `GatewayGoesOn` | `AudioSocket`, `socket_frames` | a `send` after the shutdown raises SIGPIPE (`AudioSocketClient.cpp:124`) |
| `CallbackOnLiveStage` | `bot_calls` with `Reinvite = TRUE` | a re-INVITE destroys the old stage before its client is stopped (`CallSession.cpp:53`) |
| `StagesDecodeAgreed`, `BotKnowsAgreed` | `invite_exchange` | codecs are agreed by name and used by number (`AudioSocketStage.cpp:49`, `CallSession.cpp:60`) |

Some properties carry their exception with them:

* `ProcessEnds` assumes that no signal meets a thread inside `Logger::log`
  (`SignalHandler.cpp:15`): that thread would wait for itself.
* `ResponsesMatchRequest` leaves out a header that is repeated and folded the second time: the
  parser appends the line to the first of that name (`SipParser.cpp:102`).
* `EchoIsFaithful`: `EchoStage.h:19` calls its buffer "Thread safe". With the two workers of a
  re-INVITE on one stage, frames are lost, come out torn, or are sent by both: each may copy the buffer before the
  other resets its flag. What remains is that no worker sends a frame twice, and that no more is sent than was played.
* `PeerHearsServer` has another claim for the samples from -10923 down, two thirds of the negative ones: the gain clamps
  them to -32768, which has no negation in an `int16_t` (`G711Utils.h:26`), and they are heard as silence in both laws. It
  speaks of the payload types 0 and 8 only; for others the stage encodes A-law whatever was agreed (`StagesDecodeAgreed`).
* `SymmetricRtp` ends with a re-INVITE: `rtpLocked_` stays set, so that the address of the new offer
  is used and never corrected (`CallSession.cpp:87`).

## 4. The proofs

| theorem | says | needs |
|---|---|---|
| **`CallGatewayProofs`** | | |
| `TypeCorrect` | `Spec => []TypeOK` | |
| `PortsAreExclusive` | `Spec => []PortExclusive` | |
| `LimitHolds` | `Spec => []CallLimit` | |
| `AnsweredCallsKeepPorts` | `Spec => []AnsweredCallsHavePorts` | |
| `NoPortLeaks` | `Spec => []PortsHaveOwners` | `~Reinvite` |
| `MapsAgree` | `Spec => []RegistryMapsAgree` | `~Operator` |
| `CallsAreReachable` | `Spec => []AnsweredCallsAreReachable` | `~Operator` |
| **`GatewayProcessProofs`** | | |
| `SipTypes` | `Spec => []TypeOK` | |
| `RequestsAreHandledOnce` | `Spec => []AtMostOnce` | |
| `AnsweredCallsStay` | `Spec => []AnsweredCallsAreKept` | |
| `EndedCallsAreGone` | `Spec => []EndedCallsStayEnded` | |
| `ProcessHandlesOnce` | `ProcessSpec => [](AtMostOnce /\ EndedCallsStayEnded)` | |
| `CallsLeaveOnPurpose` | `ProcessSpec => [][CallsEndOnPurpose]_allVars` | |
| `OnlyClientsEndCalls` | `Spec => CallsEndForAReason` | |
| `ThreadsAreTyped` | `ProcessSpec => []ThreadsOK` | |
| `ConsoleStopsAfterOneLine` | `ProcessSpec => []OneMoreCommand` | |
| **`RtpPortsProofs`** | | |
| `PortsArePartitioned` | every even port of the range is a candidate of one worker, no other port of any | |
| `PortTypes` | `Spec => []TypeOK` | |
| `EveryLeaseWorks` | `Spec => []LeasesWork` | |
| `NoSocketIsLeaked` | `Spec => []NoSocketLeaks` | |
| `AllocationIsFresh` | `Spec => [][ReturnsFreePort]_vars` | |
| `SearchIsComplete` | `Spec => []FailsOnlyAfterAll` | |
| **`CallMediaProofs`** | | |
| `SampleIsHeard` | every sample but -32768 is decoded to within half of its step, with its sign, in both laws | |
| `LoudestIsSilent` | that one is decoded to silence | |
| `DownlinkIsSound` | `DownlinkSpec => [](BufferIsLatest /\ FramesInOrder)` | |
| `MediaTypeOK` | `Spec => []TypeOK` | |
| `MediaNothingLost` | `Spec => []NothingLost` | |
| `MediaPlayedInOrder` | `Spec => []PlayedInOrder` | |
| `MediaIsPlayoutWindow` | `Spec => IsPlayoutWindow` | |
| `MediaSymmetricRtp` | `Spec => []SymmetricRtp` | |
| `MediaNumbersFollowClock` | `Spec => []NumbersFollowClock` | |
| `MediaEchoIsFaithful` | `Spec => []EchoIsFaithful` | |
| `MediaImplementsDownlink` | `Spec => DownlinkSpec` | |
| `MediaBufferIsLatest` | `Spec => []BufferIsLatest` | |
| `MediaFramesInOrder` | `Spec => []FramesInOrder` | |
| `MediaPeerHearsServer` | `Spec => []PeerHearsServer` | |
| **`BotClientProofs`** | | |
| `BotTypes` | `Spec => []TypeOK` | |
| `CallbacksFindTheirStage` | `Spec => []CallbackOnLiveStage` | `~Reinvite` |
| `GatewayOutlivesCalls` | `Spec => []GatewayGoesOn` | `~BotCloses` |
| `StopsAreHeeded` | `Spec => []ReadersHeed` | |
| **`AudioSocketProofs`** | | |
| `AudioSocketTypes` | `Spec => []TypeOK` | |
| `ServerReadsFrames` | `Spec => []FramesUntilStop` | |
| `StopCanJoin` | `Spec => []ReaderIsWoken` | |
| **`RecorderProofs`** | | |
| `RecorderTypes` | `Spec => []TypeOK` | |
| `RecordingIsInOrder` | `Spec => []SamplesInOrder` | |
| `MixerKeepsLittle` | `Spec => []LittleIsAhead` | |
| `FileIsComplete` | `Spec => []ClosedFileIsComplete` | |
| **`InviteExchangeProofs`** | | |
| `BestIsAnswered` | `Spec => []AnswerIsBestOffered` (of `SdpNegotiation`) | |
| `InvitesAreAnsweredBest` | `ExchangeSpec => []AnswerIsBestOffered` | |
| `HeadersAreWritten` | `parse` reads of each header the values of its lines in order, with their folded lines | no repeated header is folded |
| `ResponseIsRead` | `parse` gives back what `toString` has written of a response | |
| `ResponsesAreMatched` | `ExchangeSpec => []ResponsesMatchRequest` | |
| `WholeOffersAreRead` | `ExchangeSpec => []WholeOfferIsRead` | |
| `AgreementIsLearnt` | `ExchangeSpec => []ClientLearnsAgreed` | |

They hold for every value of the constants that the modules' assumptions admit.

### Calls and ports

`CallGateway` assumes a finite set of Call-IDs, `None` outside the sets, each port served by one
worker, and a natural limit. None of the properties is inductive. The inductive invariant `IInv` adds to
them

* `References`: what a `shared_ptr` points to exists, and a destroyed session holds no
  port. Without it a destroyed session could come back with a port of somebody else.
* `OneIdPerSession`: a session is registered under one id, and the handled one under the handled
  id. Without it a BYE could take the port of another id's session.
* `HandlerKnows`: what a handler has read stays true enough while others run: the
  console may remove the call, nobody may put another session in its place, and the
  number of calls, once found below the limit, stays below it. This is the argument for
  `CallLimit`: only the SIP thread adds calls.
* `PortInHandIsFree`: the port between `allocatePort` and `startPipeline` is bound and in
  no session. This is the argument for `PortExclusive`: a session only gets a port that nobody
  holds, and whoever releases one clears `localRtpPort_` in the same critical section.

`LeaseInv` and `MapInv` are inductive relative to `IInv`, each under its assumption on the
environment: `NoPortYet` says that without re-INVITEs nothing is overwritten;
`HandledStays`, `PortInHandEntry` and `EntriesAreCurrent` say that without a console
the handler's call stays registered, so that the entries it writes are of a
call that exists. Each invariant has one lemma per conjunct with one step per action;
the destruction of sessions is treated once, in lemmas about `Reclaim`.

### Transactions

Why a request is handled once is a matter of time. `TimingInv` says that a copy in the network was sent before the
client's timer of `Timeout` seconds ended and is not older than `MaxDelay` (`CopiesAreYoung`), that an entry was last used
after its request was first sent (`EntriesAreLater`), and that an entry which has been dropped was dropped `Timeout + 1`
seconds or more after the request was first sent (`EntriesOutliveCopies`). No copy of the request can then arrive any more. The
step that carries it is about `Expired`: an age of more than `Timeout` in whole seconds, truncated, is an age of `Timeout + 1`
seconds at least, and `MaxDelay`, by `DelayAssumption`, is no more than that second. `ClockAssumption` asks for a timer
of at least a second: with `Timeout = 0` a request could be dropped and handled again, in the model; the code has 32.
`AnswersAreFromHandling` ties what a client has heard to that one handling.

That an answered call stays and a hung-up call stays away follows from it, for a client that sends one INVITE for a call
(`~Reinvited`): a second one that is refused removes the call (`GatewayApp.cpp:117`), and one after the BYE sets it up
again, both of which the code means to do. `HangupFollowsInvite` is the client's part, and the reason why the INVITE of a call
that has been hung up is always a late copy. Every step of `GatewayProcess` is one of `SipTransactions`, the clock and the cleanup among them, a
datagram lost, or the end of calls by the console (`ProcessIsSipStep`), so `SipInv` holds there as well. An answered call may be
cut there, so what is kept is a matter of steps: `OnlyClientsEndCalls` says of the transactions, and `CallsLeaveOnPurpose` of the
process, that whatever takes a call out of the registry was meant to. The case that needs an argument is an INVITE that is refused with 488 and removes its call (`GatewayApp.cpp:117`): a registered
call has an INVITE that was handled (`CallsAreInvited`), which is not handled twice, so this is another one.

### The threads of the process

`LateInv` says that `lateLines` is 0 as long as `running_` is set, or the console sits in `getline`: from there it goes to the test of
`running_`, which ends it, so that one line is the most.

### The RTP server

`PortsArePartitioned` is arithmetic: the shares follow each other, the last one takes the rest, and a share that begins at an odd
port begins one later (`SharesInOrder`, `RangesAreDisjoint`). That is why `releasePort` and `send`, which look for the worker by
number, find the one that holds the socket.

`PortsInv` relates the three tables in which a socket is recorded: each lease is served (`LeasesAreServed`), each
socket is found from the port it is bound to (`SocketsAreLeased`), and the interest set of a worker names only ports of its own,
with their sockets (`WatchesOwnPorts`). An entry in `activeSockets` alone says nothing, since the refusal of `epoll_ctl` leaves it
behind. `SearchInv` says that the workers which have refused are those from the start of the search to the shared index, around the
end of the list (`Turns`): the search is over when that is all of them.

### The jitter buffer

`SizeAssumption` and `NetworkAssumption`: an even modulus, a depth greater than what can overtake a
packet, and `(Burst + 1) * Held + Reorder` below half of the modulus, where `Held`, `TargetSize + Pushers - 1`, is the most that
the buffer holds. For the code's 65536 and 5, and two threads that push, that allows more than 5000 packets lost in a row.

`PlayedInOrder` by itself does not survive a step. `JitterInv` adds that the buffer is a strictly increasing
part of the stream (`IsStream`), that what arrived is in it or played (`NothingIsLost`), that a packet
of the buffer is behind the newest by at most a gap for each packet after it and what can overtake it
(`BufferIsRecent`), and that what is played is so old that nothing can come before it any more
(`PlayedIsOld`). `BufferIsRecent` is the reason why 16 bits are enough: `NotAfterIsOrder` says that the comparison
of numbers is the order of the stream for packets closer than half of the modulus, and everything that
`push` compares is. `PlayedIsOld` is the reason why the depth is: a packet is played when `TargetSize - 1`
later ones are there, and the network does not overtake by so many. The refinement of `PlayoutWindow` (`PushIsArrival`,
`PopIsPlay`) follows from the same invariant: the head of a sorted buffer is its earliest packet, and its
length the number of packets.

### The media of a call

`MediaInv` is `MediaTypes`, `JitterInv`, `DownlinkInv` and `LengthInv`. `LengthInv` counts the workers between a push and a
pop: with none the buffer is below its depth, and each adds at most one. That is `MediaTypeOK`'s bound of a packet for each
open port, and the second part of `NothingLost`: two workers that both push before either pops do not
leave a packet too many.
`DownlinkInv` has a `StageInv` for each stage: its buffer is the end of what the stage has received (`EndsWith`), its frames are pieces of it in
their order, and no byte of a frame is beyond those that have left the buffer. A call implements `DownlinkSpec`, the buffers of all its stages, step by
step, so that what is proved of the buffers holds in it, before and after a re-INVITE.
`AgreedInv`, of `PeerHearsServer`, says that a worker and a packet have the payload type of their stage: both are copied in one critical
section, so that a re-INVITE in between changes neither or both.
`AddressInv`, of `SymmetricRtp`, says that the address is locked as soon as a worker holds a packet or one was
sent, and that every copy in a worker's hands is that address.

`ClockInv`, of `NumbersFollowClock`, says that a pair of number and timestamp belongs to one turn of the counter (`Stamped`), that none
in a packet or a hand is ahead of the counter, and that no two are the same; `TakeNumber` moves the counter under the mutex, and what
happens to the packet outside of it cannot disturb that. The order of the packets is claimed for one worker only (`SinglePortInv`).

`EchoIsFaithful` has three invariants. `OrderInv`, until a re-INVITE, follows one frame through the echo stage, from the pop to the
packet: with one worker the stage is empty at every pop, which is what the missing mutex needs. `EchoInv` is what remains with
several workers on several stages: a packet that is not yet written is in one hand and in no other stage (`OpenInv`, `WritersInv`), and
what a worker has copied it has not sent before (`LoadedInv`, `SentInv`): the worker that has copied a frame resets the flag before it sends,
and only another frame sets it again. `CountInv` says that of what was played each packet sent and each frame in a hand is another.

### G.711

`SampleIsHeard` is proved for the arithmetic and not by enumeration: `SegmentBounds` gives the power of two of a
magnitude, `StepOf`, `MiddleIsNear` and `StepIsNear` the distance of a number from the middle of its step, `CodeParts` that the code gives
segment and step back; the two laws differ in their bias (`UnbiasedIsClose`) and in A-law's lowest segment (`LowestSegment`). `GainIsHeard` puts the
gain in front: what it clamps to -32768 is what `LoudestIsSilent` says of that number.

### The bot's client

`BotInv` has the places (`PlaceInv`: what the session holds at each step of `startPipeline` and `terminate`), what a worker may
call upon (`StageInv`), and that a client being destroyed is held by nobody and destroyed by one thread (`TargetInv`).
`ReaderInv` is the argument for the stops: as long as `running_` is set the reader is at work, and a reader at work without it is
being stopped by somebody who has cancelled its stream. Without a re-INVITE a reader is at work only for the session's pipeline
(`OneReaderInv`), so its stage exists. `GatewayOutlivesCalls` says that the finding of `bot_closed` has one cause: if no bot closes a
stream, `StreamInv` keeps `running_` set until a stop, which joins; re-INVITEs do not matter.

### The AudioSocket client

`sendMutex_` is in the guard of the senders, and `LastInv` says what it is for: while a piece can still be sent and no terminate packet
has been, the last piece is the header of the worker that is about to send its payload, or the end of a frame if there is no such
worker. The identification comes first because workers have no stage before it (`StartInv`). Both are claimed until stop
only, since stop sends without the mutex. `StopInv` says that `running_` is reset before the shutdown and the
connection shut down before the join, so that the reader leaves whether it is at its test or in `recv`.

### The recorder

`SamplesInOrder` cuts the numbers of a direction in three: the file holds the first, a buffer the following, the chunks of batch and queue
the rest (`Holds`, `Follows`, `Carry`). Each is extended at its end and shortened at its front by lemmas that do not
mention the recorder (`HoldsJoined`, `CarryAppended`, `CarryTaken`); `UnmixedIsRest`, `MixedHolds` and `AloneHolds` are what the
mixer does to the buffers. It is inductive with the types, with `LittleIsAhead` (one buffer is empty, so that at most one
direction is written alone), with `RowInv` (the samples of a chunk are consecutive) and with `LifeInv`: the thread
ends on an empty queue and the destructor goes on after the thread. `LifeInv` makes `ClosedFileIsComplete` of it: behind the file
there is only the buffer.

### The offer

`AnswerIsBestOffered` compares the answer with what the peer means by its offer (`Meaning`, `OfferedTypes`), which speaks of all its
lines at once, while `SdpParser::parse` reads one after the other. `OfferInv` relates the two at every line: `MapInv` says
that the session has the name of the last `rtpmap` line of a number and `AudioInv` that its first audio line is the first that was
read, so that a later media line changes nothing. From these `NamesAreMeant` and `OfferedAre` make both sides equal when
`generate` is called, and the choice itself is a matter of least numbers (`MinIs`, `MinIsLeast`). `InvitesAreAnsweredBest`
takes this behind the datagram.

### Messages

The theorems are about every datagram whose first line, header lines and body lines are of their types (`WireAssumption`), in any
number and order. `SipParser::parse` is a loop over the header lines, here a fold. The history of that fold exists for
every sequence of lines (`FoldExists`, `HistoryExists`), and what is claimed of it is proved of every line by the least one at which it
would be wrong (`UpTo`, from `LeastExists`). `Reads(a, lines, b)` says that lines take the parser from state `a` to state `b`; it joins
over concatenation (`ReadsJoin`).

* What is written is read. `Written(name)`, of the properties, says at once what a datagram has under a name; the parser
  gets there line by line. `Seen` relates them after each line: after a folded line the value read so far is that of the last
  named line and the folded ones since; and nothing that is read later changes what was read of other names. The argument needs
  that a folded line finds the line it belongs to, which is what a repeated folded header breaks: `HeadersAreWritten` has the exception
  of `ResponsesMatchRequest`, and `OtherIsSeen` is the step that uses it.
* Writing and reading agree. The headers that `toString` puts in the order of the names are read one block after the other
  (`ReadsLines`, `HeadersAreRead`); the length that it adds is a number (`NumberInNumber`), so that the whole body is taken
  (`LengthIsRead`, `BodyIs`).
* `ExchangeInv` puts them around the handler: the request in its hands has the headers as they were written (`RequestInv`);
  what was heard is nothing, a 100, or a 100 and one final answer, each answering the request (`HeardInv`); what was read
  of the offer and what is left of it are the body, as far as `Content-Length` goes (`BodyInv`); the last answer
  has the lines of what was agreed (`AnswerInv`). `ClientLearnsAgreed` is then the SDP parser on the three lines of the answer
  (`ThreeLines`, `AgreedIs`), with `AnswerIsBestOffered` for what they mean to the client.

### Only model-checked

Liveness (`RemovedSessionsAreDestroyed`, `ProcessEnds`, `RequestsAreAnswered`, `StopsReturn`, `StopReturns`, `NoWakeUpIsMissed`): the prover
does not reach liveness under fairness. Of the two stops the safety half is proved: what the waiting thread waits for has nothing left to
wait for itself. Every invariant and every action property that a passing run checks is proved. So is one that no run checks,
`CallsEndOnPurpose`; TLC finds it to hold with `gateway_process` enlarged by a BYE and room for one call.

## 5. What is not modelled

* The spelling of SIP and SDP: compact header names, URIs, user names, the digits of numbers; `rtpmap` lines without a
  number, on which `std::stoi` throws (`SdpParser.cpp:58`). Configuration, and the text of the log.
* `SipTransaction::receiveResponse`: the gateway sends no requests, and a response never
  finds a transaction, since `methodStr` is empty for one.
* `SipDialog`, `CallStateMachine`, `ObjectPool`: never used. `VoiceBotClient::sendHangup` and the
  control callback: never called or set.
* The layout of RTP and WAV headers. A datagram shorter than an RTP header reads as payload type 0 and number 0
  (`RtpPacket.cpp:26`); the network of `JitterBuffer` delivers packets of one stream.
* A phone that starts a new stream of numbers with a re-INVITE: nothing relates its numbers to those in the jitter buffer, so that
  there is no order to keep.
* The raw recording: `CallSession` adds the recorder only with `recordingMode` true. A second recorder on the
  path of the first, after a re-INVITE.
* The `poll()` loop of `RtpWorker` on systems without epoll; `Net`, which wraps system calls.
* The data race on `audioCb_`, which `GrpcBridgeStage` sets while the reader runs (`VoiceBotClient.cpp:21`): the
  callback is taken as unset until the stage is built.
* An AudioSocket server that stops reading.
* What a request says its version is, which `createResponse` copies into the response (`SipResponseBuilder.cpp:8`).
* A `Content-Length` that is larger than memory: `parse` allocates that many bytes before it reads
  (`SipParser.cpp:130`), and nothing catches what the allocation throws. The models take every length that can be allocated.
* The example peers: the models let a peer do what its protocol allows.

## 6. Plan

Done: the life of calls and ports (`CallGateway`), transactions (`SipTransactions`), the RTP server (`RtpPorts`), the bot
clients (`BotClient`, `AudioSocket`), the recorder, negotiation and messages (`SdpNegotiation`, `SipMessages`, `InviteExchange`), the
media (`JitterBuffer`, `DownlinkBuffer`, `G711`, `CallMedia`) and the process (`GatewayProcess`); the proofs of
every safety property that a run checks.

Next, in the models: dialogs in `SipTransactions` (an INVITE first delivered after the BYE of its call), an AudioSocket server that
stops reading, and `PortLeases` as an abstract specification between `RtpPorts` and `CallGateway`.

--------------------------- MODULE GatewayProcess ---------------------------
(***************************************************************************)
(* The process from run() to the end of main: the loop that serves SIP     *)
(* (SipTransactions), the console thread, the RTP workers, the signal      *)
(* handler and the destructors.                                            *)
(*                                                                         *)
(* main: run() polls the socket until it is empty, cleans up and sleeps,   *)
(* until exitFlag_ is set; then ~GatewayApp joins the console, and the     *)
(* destructors of the statics run in the reverse order of their first use: *)
(* CallRegistry, then RtpServer, which joins its workers.                  *)
(*                                                                         *)
(* A signal may interrupt a thread that is inside Logger::log; its handler *)
(* logs, and that thread then waits for itself, with the logger's mutex.   *)
(***************************************************************************)
EXTENDS SipTransactions

CONSTANTS
  Worker,   \* RTP workers
  MaxLines, \* bound on the lines that are typed and not yet read
  Signals   \* may the process be sent SIGINT or SIGTERM?

ASSUME ProcessAssumption == MaxLines \in Nat /\ Signals \in BOOLEAN

VARIABLES
  mainPc,     \* the main thread
  consolePc,  \* cliThread_
  workerPc,   \* each RtpWorker's thread
  running,    \* GatewayApp::running_
  exitFlag,   \* SignalHandler::exitFlag_
  socket,     \* requests of which a copy is in the receive buffer of the SIP socket
  stdin,      \* [typed, closed]: lines not yet read, and whether more can come
  lateLines   \* how many lines the console has read since running_ was reset

threadVars == <<mainPc, consolePc, workerPc>>
inputVars == <<stdin, lateLines>>
processVars == <<threadVars, running, exitFlag, socket, inputVars>>

InRun == {"test", "poll", "clean"}
RegistryLives == mainPc \notin {"stop workers", "exited"}

ThreadsOK ==
  /\ mainPc \in InRun \cup {"leave", "join console", "destroy registry",
                            "stop workers", "exited", "stuck"}
  /\ consolePc \in {"test", "read", "command", "raise", "done", "stuck"}
  /\ workerPc \in [Worker -> {"wait", "packet", "done", "stuck"}]
  /\ running \in BOOLEAN /\ exitFlag \in BOOLEAN
  /\ \A r \in socket : Arrives(r)
  /\ mainPc \in InRun => running
  /\ stdin.typed <= MaxLines

ProcessInit ==
  /\ Init
  /\ mainPc = "test" /\ consolePc = "test"
  /\ workerPc = [w \in Worker |-> "wait"]
  /\ running = TRUE /\ exitFlag = FALSE
  /\ socket = {}
  /\ stdin = [typed |-> 0, closed |-> FALSE]
  /\ lateLines = 0

-----------------------------------------------------------------------------
(* The main thread.                                                        *)

\* Nobody waits for himself with the logger's mutex: who logs gets past it.
LoggerFree ==
  /\ "stuck" \notin {mainPc, consolePc}
  /\ \A w \in Worker : workerPc[w] # "stuck"

MainAt(from, to) ==
  /\ mainPc = from /\ mainPc' = to
  /\ UNCHANGED <<consolePc, workerPc, exitFlag, inputVars>>

\* Mutant: the flag of the signal handler is forgotten.
TestRunning ==
  /\ MainAt("test", IF running THEN "poll" ELSE "leave")
  /\ UNCHANGED <<vars, running, socket>>

\* while (running_ && !shouldExit())
TestExit ==
  /\ MainAt("test", IF running /\ ~exitFlag THEN "poll" ELSE "leave")
  /\ UNCHANGED <<vars, running, socket>>

\* poll: every datagram is logged before it is handled.
PollRequest(r) ==
  /\ MainAt("poll", "poll")
  /\ LoggerFree
  /\ r \in socket /\ HandleRequest(r)
  /\ socket' = socket \ {r}
  /\ UNCHANGED running

\* The same for an ACK, which may come between any two of them.
PollAck(r) ==
  /\ MainAt("poll", "poll")
  /\ LoggerFree
  /\ HandleAck(r)
  /\ UNCHANGED <<running, socket>>

\* recvfrom finds the socket empty.
PollEnds ==
  /\ MainAt("poll", "clean")
  /\ socket = {}
  /\ UNCHANGED <<vars, running, socket>>

\* cleanupTransactions, and ten milliseconds of sleep.
CleanUp ==
  /\ MainAt("clean", "test")
  /\ CleanupTransactions \/ (~CleanupIsDue /\ UNCHANGED vars)
  /\ UNCHANGED <<running, socket>>

\* run returns.
LeaveRun ==
  /\ MainAt("leave", "join console")
  /\ LoggerFree
  /\ running' = FALSE
  /\ UNCHANGED <<vars, socket>>

\* ~GatewayApp
JoinConsole ==
  /\ MainAt("join console", "destroy registry")
  /\ consolePc = "done"
  /\ UNCHANGED <<vars, running, socket>>

\* ~CallRegistry, and with it the sessions.
DestroyRegistry ==
  /\ MainAt("destroy registry", "stop workers")
  /\ calls' = {}
  /\ UNCHANGED <<now, lastCleanup, transactions, handled, net, clientVars, running, socket>>

\* ~RtpServer joins the last worker.
JoinWorkers ==
  /\ MainAt("stop workers", "exited")
  /\ \A w \in Worker : workerPc[w] = "done"
  /\ UNCHANGED <<vars, running, socket>>

MainStep ==
  \/ TestExit \/ PollEnds \/ CleanUp \/ LeaveRun
  \/ \E r \in Request : PollRequest(r) \/ PollAck(r)
  \/ JoinConsole \/ DestroyRegistry \/ JoinWorkers

-----------------------------------------------------------------------------
(* cliLoop.                                                                *)

ConsoleAt(from, to) ==
  /\ consolePc = from /\ consolePc' = to
  /\ UNCHANGED <<mainPc, workerPc, running, socket>>

\* Mutant: only the end of the input ends the console.
ConsoleGoesOn ==
  /\ ConsoleAt("test", "read")
  /\ UNCHANGED <<vars, exitFlag, inputVars>>

\* while (running_ && ...
ConsoleTest ==
  /\ ConsoleAt("test", IF running THEN "read" ELSE "done")
  /\ UNCHANGED <<vars, exitFlag, inputVars>>

\* ... getline)
ReadLine ==
  /\ stdin.typed > 0
  /\ ConsoleAt("read", "command")
  /\ stdin' = [stdin EXCEPT !.typed = @ - 1]
  /\ lateLines' = IF running THEN lateLines ELSE lateLines + 1
  /\ UNCHANGED <<vars, exitFlag>>

ReadEnd ==
  /\ stdin.typed = 0 /\ stdin.closed
  /\ ConsoleAt("read", "done")
  /\ UNCHANGED <<vars, exitFlag, inputVars>>

\* cut, or list and what is no command: they change nothing.
Command ==
  /\ ConsoleAt("command", "test")
  /\ LoggerFree
  /\ \E c \in SUBSET Call : Cardinality(c) <= 1 /\ calls' = calls \ c
  /\ UNCHANGED <<now, lastCleanup, transactions, handled, net, clientVars,
                 exitFlag, inputVars>>

\* exit, quit: setExit ...
ExitCommand ==
  /\ ConsoleAt("command", "raise")
  /\ exitFlag' = TRUE
  /\ UNCHANGED <<vars, inputVars>>

\* ... and raise(SIGINT), whose handler runs here and logs.
Raise ==
  /\ ConsoleAt("raise", "test")
  /\ LoggerFree
  /\ UNCHANGED <<vars, exitFlag, inputVars>>

ConsoleStep ==
  ConsoleTest \/ ReadLine \/ ReadEnd \/ Command \/ ExitCommand \/ Raise

-----------------------------------------------------------------------------
(* RTP workers, signals and the person at the console.                     *)

WorkerAt(w, from, to) ==
  /\ workerPc[w] = from /\ workerPc' = [workerPc EXCEPT ![w] = to]
  /\ UNCHANGED <<vars, mainPc, consolePc, running, exitFlag, socket, inputVars>>

WorkerReceives(w) == WorkerAt(w, "wait", "packet")

\* handleRtpPacket looks its call up in the registry and may log.
WorkerHandles(w) == LoggerFree /\ WorkerAt(w, "packet", "wait")

\* RtpWorker::running_ is reset by ~RtpServer.
WorkerEnds(w) == mainPc = "stop workers" /\ WorkerAt(w, "wait", "done")

WorkerStep(w) == WorkerReceives(w) \/ WorkerHandles(w) \/ WorkerEnds(w)

\* handleSignal, in a thread that is not logging: it logs and sets the flag.
Signal ==
  /\ Signals /\ mainPc # "exited"
  /\ LoggerFree
  /\ exitFlag' = TRUE
  /\ UNCHANGED <<vars, threadVars, running, socket, inputVars>>

\* handleSignal, in a thread that is logging.
SignalInLogger ==
  /\ Signals
  /\ LoggerFree
  /\ \/ /\ mainPc \in {"poll", "leave"} /\ mainPc' = "stuck"
        /\ UNCHANGED <<consolePc, workerPc>>
     \/ /\ consolePc \in {"command", "raise"} /\ consolePc' = "stuck"
        /\ UNCHANGED <<mainPc, workerPc>>
     \/ \E w \in Worker :
          /\ workerPc[w] = "packet" /\ workerPc' = [workerPc EXCEPT ![w] = "stuck"]
          /\ UNCHANGED <<mainPc, consolePc>>
  /\ UNCHANGED <<vars, running, exitFlag, socket, inputVars>>

TypeLine ==
  /\ stdin.typed < MaxLines /\ ~stdin.closed
  /\ stdin' = [stdin EXCEPT !.typed = @ + 1]
  /\ UNCHANGED <<vars, threadVars, running, exitFlag, socket, lateLines>>

CloseInput ==
  /\ ~stdin.closed
  /\ stdin' = [stdin EXCEPT !.closed = TRUE]
  /\ UNCHANGED <<vars, threadVars, running, exitFlag, socket, lateLines>>

\* A request has come through the network, which can lose it no more.
Deliver(r) ==
  /\ Arrives(r) /\ r \notin socket
  /\ socket' = socket \cup {r}
  /\ UNCHANGED <<vars, threadVars, running, exitFlag, inputVars>>

\* What SipTransactions says of clients and network goes on around the process.
ClientStep ==
  /\ \/ \E r \in Request : Send(r) \/ Retransmit(r)
     \/ \E m \in net : ReceiveAnswer(m) \/ (Lose(m) /\ ~(m.kind = "request" /\ m.of \in socket))
  /\ UNCHANGED processVars

\* Time passes, for clients, network and process.  MaxDelay covers the receive buffer:
\* while run() can, it reads a datagram before that is over.
ProcessTick ==
  /\ Tick
  /\ socket' = {r \in socket : Arrives(r)'}
  /\ mainPc \in InRun /\ LoggerFree => socket' = socket
  /\ UNCHANGED <<threadVars, running, exitFlag, inputVars>>

ProcessNext ==
  \/ MainStep \/ ConsoleStep
  \/ \E w \in Worker : WorkerStep(w)
  \/ Signal \/ SignalInLogger \/ TypeLine \/ CloseInput
  \/ ClientStep \/ ProcessTick \/ \E r \in Request : Deliver(r)

allVars == <<vars, processVars>>

\* Threads run; clients and network are as in SipTransactions; and requests do not
\* come so fast that no poll ever finds the socket empty.  Nobody has to type, and
\* getline may wait for ever.
ProcessFairness ==
  /\ WF_allVars(MainStep) /\ SF_allVars(PollEnds)
  /\ WF_allVars(ConsoleStep)
  /\ \A w \in Worker :
       WF_allVars(WorkerHandles(w)) /\ SF_allVars(WorkerEnds(w))
  /\ \A r \in Request :
       /\ WF_allVars(Retransmit(r) /\ UNCHANGED processVars)
       /\ SF_allVars(Deliver(r))
       /\ SF_allVars(AnswerArrives(r) /\ UNCHANGED processVars)

ProcessSpec == ProcessInit /\ [][ProcessNext]_allVars /\ ProcessFairness

-----------------------------------------------------------------------------
(* Properties.                                                             *)

\* The console may have tested running_ just before it is reset: it still executes
\* one line, of those typed before or after, and no more.
OneMoreCommand == lateLines <= 1

\* As long as no console cuts it and the registry lives, only what EndsOnPurpose says
\* takes a call out of it: no late copy of a request, although the loop cleans its
\* entries up, and no signal and no other call.
CallsEndOnPurpose ==
  \A c \in calls \ calls' : EndsOnPurpose(c) \/ Command \/ DestroyRegistry

\* Whatever ends the run, a signal, the console or both: unless a signal has caught a
\* thread in the logger, run() returns, and main once nothing more can be typed.
ProcessEnds ==
  []LoggerFree =>
    /\ exitFlag ~> mainPc \notin InRun
    /\ (exitFlag /\ stdin.closed) ~> mainPc = "exited"

Accepted(r) ==
  Method[r] = "INVITE" /\ transactions[r] # None /\ transactions[r].last = 200

\* The client has retransmitted for as long as it does.
GivenUp(r) == sentAt[r] # None /\ now - sentAt[r] >= Timeout * TicksPerSecond

\* As long as the loop runs, a client that retransmits learns, before it gives up, the
\* answer to any request but an INVITE that is accepted, between polls, cleanups and
\* sleeps and although any number of copies are lost in both directions.
RequestsAreAnswered ==
  \A r \in Request :
    sentAt[r] # None ~> \/ got[r] \in Final \/ Accepted(r) \/ GivenUp(r)
                       \/ exitFlag \/ ~LoggerFree

\* The same for an accepted INVITE, whose entry is kept "just to handle
\* retransmissions if needed" (SipTransaction.cpp:23).  Does not hold: the 200 is
\* sent once, because its transaction is in TERMINATED (SipTransaction.cpp:76).
AcceptedInvitesAreAnswered ==
  \A r \in Request :
    Accepted(r) ~> got[r] \in Final \/ GivenUp(r) \/ exitFlag \/ ~LoggerFree

\* "Press Ctrl+C to exit" (GatewayApp.cpp:59).  Does not hold: main waits for the
\* console, which waits for a line.
ExitEndsProcess == exitFlag ~> mainPc = "exited"

\* Does not hold: the workers look calls up until ~RtpServer, after ~CallRegistry.
WorkersFindRegistry ==
  \A w \in Worker : workerPc[w] = "packet" => RegistryLives
=============================================================================

\* An INVITE to a full gateway, and a process that ends at any moment; the client's
\* timer runs out, and the entry is cleaned up.
SPECIFICATION ProcessSpec
CONSTANTS
  invite = invite  bye = bye  cancel = cancel  other = other  invite2 = invite2
  call1 = call1  call2 = call2
  None = None
  Request = {invite}
  Method <- SomeMethods
  CallOf <- SomeCalls
  MaxCalls = 0
  TicksPerSecond = 1
  Timeout = 1
  Cadence = 2
  MaxDelay = 0
  MaxTime = 2
  MaxRequests = 1
  Worker = {"w1"}
  MaxLines = 1
  Signals = TRUE
INVARIANTS
  OneMoreCommand
PROPERTIES
  ProcessEnds
  RequestsAreAnswered
\* main returns.
CHECK_DEADLOCK FALSE

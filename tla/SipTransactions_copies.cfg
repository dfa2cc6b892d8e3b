\* Any two requests that can follow each other, delayed up to the limit.
SPECIFICATION Spec
CONSTANTS
  invite = invite  bye = bye  cancel = cancel  other = other  invite2 = invite2
  call1 = call1  call2 = call2
  None = None
  Request = {invite, bye, cancel, invite2, other}
  Method <- SomeMethods
  CallOf <- SomeCalls
  MaxCalls = 1
  TicksPerSecond = 1
  Timeout = 2
  Cadence = 1
  MaxDelay = 1
  MaxTime = 4
  MaxRequests = 2
INVARIANTS
  AtMostOnce
  AnsweredCallsAreKept
  EndedCallsStayEnded
PROPERTIES
  CallsEndForAReason
\* The clock stops at MaxTime and the last datagrams are lost.
CHECK_DEADLOCK FALSE

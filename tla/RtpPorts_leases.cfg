\* An odd range that does not divide evenly, other programs on the ports.
SPECIFICATION Spec
CONSTANTS
  StartPort = 5
  EndPort = 11
  ThreadCount = 2
  MaxFd = 3
  Sender = {"s"}
  BindFails = TRUE
  EpollFails = TRUE
INVARIANTS
  LeasesWork
  NoSocketLeaks
  FailsOnlyAfterAll

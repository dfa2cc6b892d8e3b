\* Two workers, a server that may close the connection.
SPECIFICATION FairSpec
CONSTANTS
  Worker = {"w1", "w2"}
  PeerCloses = TRUE
  MaxSends = 7
INVARIANTS
  FramesUntilStop
PROPERTIES
  StopReturns
\* The client is destroyed.
CHECK_DEADLOCK FALSE

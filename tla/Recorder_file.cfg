\* Chunks of different sizes, one direction ahead of the other by up to Limit.
SPECIFICATION FairSpec
CONSTANTS
  Limit = 2
  MaxChunk = 2
  MaxSent = 4
INVARIANTS
  SamplesInOrder
  LittleIsAhead
  ClosedFileIsComplete
PROPERTIES
  NoWakeUpIsMissed
\* The stage is destroyed.
CHECK_DEADLOCK FALSE

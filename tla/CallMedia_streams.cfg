\* Two workers, a stream that wraps, packets lost and overtaken up to the limit; a
\* re-INVITE and the end of the call at any moment; audio that overflows its buffer.
SPECIFICATION Spec
CONSTANTS
  Worker = {"w1", "w2"}
  First = "w1"
  Session <- Sessions
  Sender = {"phone", "nat"}
  Empty = {2}
  SamplesSaid <- Extremes
  Modulus = 24
  FirstNumber = 21
  TargetSize = 3
  Pushers = 2
  Reorder = 2
  Burst = 1
  StreamLen = 6
  EchoLen = 6
  TalkLen = 4
  Stages = 2
  Capacity = 3
  FrameSize = 2
  MaxChunk = 2
  MaxReceived = 5
INVARIANTS
  TypeOK
  NothingLost
  PlayedInOrder
  NumbersFollowClock
  EchoIsFaithful
  
  BufferIsLatest
  FramesInOrder
  PeerHearsServer
PROPERTIES
  IsPlayoutWindow
\* The stream ends.
CHECK_DEADLOCK FALSE

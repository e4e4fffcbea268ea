SPECIFICATION FairSpec
CONSTANTS
  Length <- MCLength
  BufferSize = 5
  Chunk = 3
  Faults = 1
  Racy = FALSE
  Bad = Bad
INVARIANTS RingConsistent WokenByOne WaitNotMissed
PROPERTIES StreamIsQueue CleanFrameHeard BackInStep
CHECK_DEADLOCK FALSE

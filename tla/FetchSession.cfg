SPECIFICATION FairSpec
CONSTANTS
  c1 = c1
  c2 = c2
  Call = {c1, c2}
  BufferSize = 1
  WireSize = 1
  MaxFrames = 3
INVARIANTS OwnFramesInOrder SessionErrorComesLast CleanEndLosesNothing
PROPERTIES CloseReturns EveryFetchEnds
CHECK_DEADLOCK FALSE

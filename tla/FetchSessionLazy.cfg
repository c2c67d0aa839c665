SPECIFICATION LazySpec
CONSTANTS
  c1 = c1
  c2 = c2
  Call = {c1, c2}
  BufferSize = 1
  WireSize = 1
  MaxFrames = 3
PROPERTIES CloseReturns
CHECK_DEADLOCK FALSE

SPECIFICATION BreakingSpec
CONSTANTS
  s1 = s1
  c1 = c1
  Speaker = {s1}
  Closer = {c1}
  EventBuffer = 1
  UpSize = 1
  WireSize = 1
  MaxAudio = 1
  MaxEvents = 2
PROPERTIES CloseReturns
CHECK_DEADLOCK FALSE

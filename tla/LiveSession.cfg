SPECIFICATION FairSpec
CONSTANTS
  s1 = s1
  c1 = c1
  c2 = c2
  Speaker = {s1}
  Closer = {c1, c2}
  EventBuffer = 1
  UpSize = 1
  WireSize = 1
  MaxAudio = 2
  MaxEvents = 2
INVARIANTS EventsInOrder NoSilentEnd OutcomeIsKept
PROPERTIES CloseReturns SendNeverSticks EventsTerminates
CHECK_DEADLOCK FALSE

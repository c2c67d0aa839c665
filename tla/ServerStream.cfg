SPECIFICATION FairSpec
CONSTANTS
  s1 = s1
  s2 = s2
  p1 = p1
  p2 = p2
  NoPage = NoPage
  Call = {s1, s2}
  Mixes <- AloneOrAtTheGate
  Page = {p1, p2}
  Slots = 1
  MaxFrames <- FramesPerKind
INVARIANTS ReturnedIsClosed EachPageOnceAndWhole
PROPERTIES KeepsPromise EveryCallReturns
CHECK_DEADLOCK FALSE

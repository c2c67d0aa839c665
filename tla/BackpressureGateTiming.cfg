SPECIFICATION FairSpec
CONSTANTS
  c1 = c1
  c2 = c2
  Call = {c1, c2}
  Seed = 4
  Limits = {2}
  Hints = {1}
  Cooldown = 1
  GrowHoldoff = 2
  FallbackShedDelay = 1
  MaxShedDelay = 2
  ShedDecorrelationCap = 1
  BreakerTripSheds = 2
  BreakerCooldown = 2
INVARIANTS EffectiveWithinCeiling BreakerHoldsFloor
PROPERTIES OneCutPerCooldown PauseEnds CancelledAcquireReturns GateServes

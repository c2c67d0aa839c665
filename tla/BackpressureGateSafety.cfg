SPECIFICATION Spec
CONSTANTS
  c1 = c1
  c2 = c2
  c3 = c3
  Call = {c1, c2, c3}
  Seed = 2
  Limits = {1}
  Hints = {0, 2}
  Cooldown = 1
  GrowHoldoff = 2
  FallbackShedDelay = 1
  MaxShedDelay = 1
  ShedDecorrelationCap = 1
  BreakerTripSheds = 2
  BreakerCooldown = 2
SYMMETRY CallSymmetry
INVARIANTS SlotAccounting NoLostWakeup
PROPERTIES ImplementsAdmissionGate

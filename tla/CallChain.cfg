SPECIFICATION ChainSpec
CONSTANTS
  MaxAttempts = 5
  MaxElapsed = 8
  InitialInterval = 1
  Hints = {0, 1, 4}
  MaxInt = 7
  Lateness = 1
  MaxTime = 11
  Slots = 2
  Pauses = {1}
  MaxShedDelay = 3
  BreakerCooldown = 5
INVARIANTS LastFailureReported ShedHintWaitedOut
PROPERTIES RetriesWithinBudget BacksOff CancelledCallReturns
CHECK_DEADLOCK FALSE

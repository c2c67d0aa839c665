SPECIFICATION Spec
CONSTANTS
  MaxBytes = 3
INVARIANTS TunnelBytesInOrder ClosedForAReason
PROPERTIES CancelledDialReturns WatcherGoes
CHECK_DEADLOCK FALSE

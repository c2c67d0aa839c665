SPECIFICATION FairSpec
CONSTANTS
  u1 = u1
  u2 = u2
  Call = {u1, u2}
  Mixes <- GatedAndAny
  Slots = 1
  Total = 2
  MaxResponses = 1
INVARIANTS TruncatedNeverProcessed StartedSlotComesBack StatusIsReported SuccessIsWhole
PROPERTIES UploadReturns
CHECK_DEADLOCK FALSE

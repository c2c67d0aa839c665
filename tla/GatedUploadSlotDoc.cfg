SPECIFICATION Spec
CONSTANTS
  u1 = u1
  u2 = u2
  Call = {u1}
  Mixes <- GatedAlone
  Slots = 1
  Total = 2
  MaxResponses = 2
INVARIANTS SlotAlwaysReleased
CHECK_DEADLOCK FALSE

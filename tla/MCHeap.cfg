CONSTANTS
  Classes <- TwoClasses
  Page = 16
  MaxHeap = 64
  Sizes = {4, 11, 20}
  Aligns = {2}
SPECIFICATION Spec
INVARIANTS BlocksApart OnePlace HoldsRequest
CHECK_DEADLOCK FALSE

CONSTANTS
  Classes <- TwoClasses
  Page = 16
  MaxHeap = 64
  Sizes = {4, 11, 20}
  Aligns = {2}
SPECIFICATION Spec
INVARIANT SlabListsSane
CHECK_DEADLOCK FALSE

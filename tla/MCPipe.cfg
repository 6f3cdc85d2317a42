CONSTANTS
  Size = 2
  MaxLen = 3
  Byte = {0, 1}
  Readers = {r1, r2}
  Writers = {w1, w2}
SPECIFICATION FairSpec
PROPERTY ImplementsStream CallsReturn
CHECK_DEADLOCK FALSE

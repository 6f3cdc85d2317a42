SPECIFICATION Spec
CONSTANTS
  Threads = {t1}
  AddrSpace = 16
  PageWords = 2
  BasePage = 2
  TopPage = 7
  StackMax = 2
  GuardPages = 2
  Image <- ThreeImages
  Paths <- FourPaths
  Vectors <- LongVectors
  ArgMax = 8
  PathSize = 10
  PageBytes = 4096
  Lens = {2}
  Touched = {1, 4, 6, 9, 10, 13, 15}
  Rsps = {13}
  MaxPhys = 9
CHECK_DEADLOCK FALSE
INVARIANT UserFaultContained

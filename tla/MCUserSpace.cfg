SPECIFICATION Spec
CONSTANTS
  Threads = {t1, t2}
  AddrSpace = 16
  PageWords = 2
  BasePage = 2
  TopPage = 7
  StackMax = 2
  GuardPages = 2
  Image <- ThreeImages
  Paths <- FourPaths
  Vectors <- LongVectors
  ArgMax = 8
  PathSize = 10
  PageBytes = 4096
  Lens = {3, 8}
  Touched = {1, 4, 6, 9, 10, 13, 15}
  Rsps = {3, 13}
  MaxPhys = 9
SYMMETRY ThreadSymmetry
CHECK_DEADLOCK FALSE
INVARIANTS PagesIsolated LoadedAsLinked PtrRangeSound

CONSTANTS
  MaxProcs = 1
  NStd = 1
  HandleMax = 3
  FdMax = 3
  MaxFiles = 2
  FdMaps <- ShellMaps
  DupPairs <- AllPairs
SPECIFICATION Spec
INVARIANT ClosedOnce
CHECK_DEADLOCK FALSE

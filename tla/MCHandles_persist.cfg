CONSTANTS
  MaxProcs = 2
  NStd = 1
  HandleMax = 3
  FdMax = 3
  MaxFiles = 1
  FdMaps <- ShellMaps
  DupPairs <- NoPairs
SPECIFICATION Spec
INVARIANT HandlesPersist
CHECK_DEADLOCK FALSE

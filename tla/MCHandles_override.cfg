CONSTANTS
  MaxProcs = 2
  NStd = 1
  HandleMax = 3
  FdMax = 3
  MaxFiles = 2
  FdMaps <- ShellMaps
  DupPairs <- AllPairs
SPECIFICATION Spec
PROPERTY OverridesApplied
CHECK_DEADLOCK FALSE

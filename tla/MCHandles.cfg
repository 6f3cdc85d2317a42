CONSTANTS
  MaxProcs = 3
  NStd = 1
  HandleMax = 3
  FdMax = 3
  MaxFiles = 2
  FdMaps <- ShellMaps
  DupPairs <- Redirect
SPECIFICATION Spec
INVARIANTS RefcountExact OneHandlePerFile PipeOutlivesUse PipeEndsExact
CHECK_DEADLOCK FALSE
CONSTRAINT Intact

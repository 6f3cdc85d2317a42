CONSTANTS
  NSectors = 7
  CacheEntries = 2
  NClusters = 4
  ClusterSize = 2
  RootEntries = 3
  DirEntries = 3
  FilePaths <- Files
  DirPaths <- Directories
  FirstFile <- Readme
  Handles = {h1, h2}
  Lens = {1, 3}
  ReadLens = {3}
  MaxCalls = 5
  MaxFaults = 1
SPECIFICATION Spec
INVARIANTS CacheCoherent ChainsSound DirectoriesSound ReadsBack
CHECK_DEADLOCK FALSE
SYMMETRY HandleSymmetry

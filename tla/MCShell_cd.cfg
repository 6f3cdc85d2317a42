SPECIFICATION Spec
CONSTANTS
  SegLen <- SegLenDef
  BinLike <- BinLikeDef
  LsLike <- LsLikeDef
  Mem <- MemDef
  Lines <- LinesDef
  Text <- TextDef
  Stray <- StrayDef
  Procs = {0, 1, 2, 3}
  UserPathMax = 64
  TempMax = 256
  VfsPathMax = 128
  ListPathMax = 64
  RamPathMax = 64
  MaxFiles = 2
  GrowStep = 2
  HandleMax = 6
  FdMax = 6
  Chunk = 2
  StrMax = 64
  PromptMax = 64
  MaxLen = 5
PROPERTIES ChdirVerifies

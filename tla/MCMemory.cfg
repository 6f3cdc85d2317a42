CONSTANTS
  PageSize = 2
  BitsPerByte = 2
  MetaLimit = 10
  MaxRegions = 3
  KernelStart = 3
  KernelEnd = 6
  MapTop = 15
  Maps <- AllMaps
  Followed <- FollowedMaps
  Layouts <- AllLayouts
  MaxPages = 3
  Addr = {0, 2, 3, 4, 5, 6, 7, 8, 9, 10, 11, 12, 13, 14}
SPECIFICATION MemSpec
INVARIANTS BitmapExact OutOfMemoryIsReal HandedOutClean
CHECK_DEADLOCK FALSE

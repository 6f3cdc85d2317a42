CONSTANTS
  Pml4Len = 6
  PdptLen = 2
  PdLen = 4
  PtLen = 8
  RamTop = 35
  KernelEnd = 12
  Tables <- BootTables
  Sections <- KernelSections
  UserPages <- ProgramPages
  UserFlags <- ProgramFlags
  StackPages <- GrowingPages
  Watched <- WatchedPages
  MaxSpaces = 2
SPECIFICATION Spec
PROPERTIES ImplementsSpaces
\* The machine stops when its memory is used up.
CHECK_DEADLOCK FALSE

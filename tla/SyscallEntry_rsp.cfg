SPECIFICATION EntrySpec
CONSTANTS
  Threads = {t1, t2, t3}
  Idle = idle
  MaxDepth = 1
CHECK_DEADLOCK FALSE
INVARIANT UserStackRestored

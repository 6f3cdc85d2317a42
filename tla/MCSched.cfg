CONSTANTS
  MaxThreads = 5
  TimeSlice = 2
  InputSlots = 2
  MaxFrames = 2
  SlowBoot = TRUE
  InitCalls <- AnyProgram
SPECIFICATION FairOrderSpec
INVARIANTS OneRunning WaitQueueExact LockMasksIrqs PreemptTargetSafe NoLostWakeup IdleWakeable
PROPERTIES DeadStaysDead NoOvertaking IdleYields
\* After a stray step the idle thread can halt for good (see IdleWakeable).
CHECK_DEADLOCK FALSE

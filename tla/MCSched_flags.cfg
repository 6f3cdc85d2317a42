CONSTANTS
  MaxThreads = 4
  TimeSlice = 2
  InputSlots = 1
  MaxFrames = 2
  SlowBoot = FALSE
  InitCalls <- AnyProgram
SPECIFICATION FairOrderSpec
PROPERTY RestoresFlags
CHECK_DEADLOCK FALSE

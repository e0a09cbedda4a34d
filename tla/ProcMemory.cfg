CONSTANTS
  NR_TASKS = 1
  NATIVE_PROCS = 1
  NR_PROCS = 3
  TASK_TICKS = 2
  USER_TICKS = 1
  ExitStatus <- TwoStatuses
  MaxDebt = 0
  KERNEL_LIMIT = 255
  MEM_PAGES = 8192
  ProgramPages = 256
SPECIFICATION MFairSpec
INVARIANTS MTypeOK RunningIsRunnable NoMissedExit NativesStay ImagesApart
PROPERTIES OwnImageOnly LifeSpec EveryoneRuns

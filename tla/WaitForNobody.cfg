CONSTANTS
  NR_TASKS = 1
  NATIVE_PROCS = 1
  NR_PROCS = 3
  TASK_TICKS = 1
  USER_TICKS = 1
  ExitStatus <- OneStatus
  MaxDebt = 0
  KERNEL_LIMIT = 255
  MEM_PAGES = 8192
  ProgramPages = 256
SPECIFICATION MSpec
INVARIANT WaitingHasChild

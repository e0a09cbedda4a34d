CONSTANTS
  NR_TASKS = 1
  NR_PROCS = 2
  TASK_TICKS = 2
  USER_TICKS = 1
  MaxDebt = 1
  MaxLate = 3
SPECIFICATION FairSpec
INVARIANTS ChosenIsRunnable ChosenIsBest
PROPERTIES OneStep Returns
CHECK_DEADLOCK FALSE

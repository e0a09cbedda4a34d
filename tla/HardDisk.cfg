CONSTANTS
  NR_SUB_PER_PART = 3
  ROOT_DEV = 22
  COUNT_VALUES = 2
  NR_SECTORS = 13
  Layouts <- TwoLayouts
  Kinds <- AllKinds
  Data <- TwoValues
  MaxCount = 3
SPECIFICATION Spec
INVARIANTS PartitionsFound
PROPERTIES IsBlockDevice EveryCallReturns
CHECK_DEADLOCK FALSE

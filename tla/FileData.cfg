CONSTANTS
  SECTOR_SIZE = 2
  FSBUF_SECTS = 2
  NR_SECTS = 3
  NR_OF_FILES = 2
  Fds <- TwoFds
  MaxCalls = 3
  Lens <- ThreeLens
SPECIFICATION Spec
INVARIANTS TypeOK
PROPERTIES EveryCallReturns AsPromised

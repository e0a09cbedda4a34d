CONSTANTS
  NR_CONSOLES = 2
  CONSOLE_SIZE = 7
  SCREEN_WIDTH = 2
  SCREEN_SIZE = 4
  TTY_IN_BYTES = 2
  Written <- FirstConsole
  DISP_POS = 2
  WORD = 32
SPECIFICATION FairSpec
INVARIANTS OwnCursorInside DrawsInside ScreenFollows
PROPERTY EveryKeyEnds
CHECK_DEADLOCK FALSE

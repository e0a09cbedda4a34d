CONSTANTS
  clock = clock
  keyboard = keyboard
  at_wini = at_wini
  p1 = p1
  p2 = p2
  p3 = p3
  IRQ <- Irqs
  CLOCK = clock
  AT_WINI = at_wini
  CALL = call
  Procs <- Rows
  GARBAGE = garbage
  QuietBoot = FALSE
SPECIFICATION Spec
INVARIANT NestedOnKernelStack

SPECIFICATION Spec
CONSTANTS
  N = 2
  Entry <- ReturningThreads
  SLICE = 3
  TICKS = 8
  Irq = {0}
PROPERTIES
  KernelThreadsArePreempted
CHECK_DEADLOCK FALSE

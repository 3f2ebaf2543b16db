SPECIFICATION Spec
CONSTANTS
  N = 2
  Entry <- UserThreads
  SLICE = 3
  TICKS = 8
  Irq = {0}
PROPERTIES
  UserMemoryIsPrivate

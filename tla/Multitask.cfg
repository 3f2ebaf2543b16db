SPECIFICATION Spec
CONSTANTS
  N = 3
  Entry <- UserThreads
  SLICE = 3
  TICKS = 8
  Irq = {0, 1, 14}
INVARIANTS
  TypeOK
  RunQueueIsRing
  OneThreadOnProcessor
  RingThreeCanBeInterrupted
  NoLineBlocked
  SlicesAreEven
PROPERTIES
  ImplementsRoundRobin
  EveryThreadRuns

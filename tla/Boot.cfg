SPECIFICATION BootSpec
CONSTANTS
  PMM_BLOCK_SIZE = 4
  BITS = 4
  W = 256
  LOWER_END = 24
  kernel_end = 34
  ENTRIES = 8
  IDENTITY = 20
  FUNCTIONS = 3
  NoDevice = "none"
  E1000 = "e1000"
  MMIO = 3
  RAL = 1
  BootInfo <- AllBootInfo
  Machines <- AllMachines
INVARIANTS
  BootTypeOK
  TranslationIsAsked
  InterruptsAreServed
  ScansAgree
PROPERTIES
  BootSucceeds

SPECIFICATION Spec
CONSTANTS
  PMM_BLOCK_SIZE = 4
  BITS = 4
  W = 128
  LOWER_END = 24
  kernel_end = 34
  BootInfo <- AllBoots
INVARIANTS
  TypeOK
PROPERTIES
  ImplementsBlockPool
  CounterFollowsBitmap

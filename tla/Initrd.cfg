SPECIFICATION Spec
CONSTANTS
  NAME = 3
  HEADER = 1
  FILE_HEADER = 2
  MAX_FILES = 2
  CHUNK = 2
  SHOWN = 1
  W = 24
  HELLO <- hi
  Byte <- AllBytes
  Rootfs <- AllDirectories
  Boots <- AllBoots
  Names <- AllNames
INVARIANTS
  TypeOK
  FilesAreListed
  FilesAreShown
  ReadStaysInFile

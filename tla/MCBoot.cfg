SPECIFICATION BootSpec
CONSTANTS
  HALF = 64
  ROM_SIZE = 1024
  WORD_LIMIT = 256
  RAM_BASE = 1024
  BSS_MARK = 2560
  BSS_END = 2624
  Batches <- MCBatches
INVARIANTS
  TypeOK
  AddressesCountWords
  MemoryIsAsWritten
  ReferencesResolve
  EncodedAsWritten
PROPERTIES
  BootReachesEntry
CHECK_DEADLOCK FALSE

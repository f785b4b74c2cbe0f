SPECIFICATION Spec
CONSTANTS
  NUM_ENTRIES = 4
  Pages <- MCPages
  PCIDs <- MCProcesses
  GlobalPages <- MCGlobalPages
INVARIANTS
  TypeOK
  AgesAreRanks
  NoDoubleHit
  HitIsTranslation
PROPERTIES
  ImplementsLru

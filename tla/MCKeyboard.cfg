SPECIFICATION FairSpec
CONSTANTS
  Keys <- MCAll
  MaxKeys = 3
  KEYQ_SIZE = 4
  MAX_SIZE = 3
INVARIANTS
  TypeOK
  ServiceIsAlive
  LineIsEdited
  EchoIsComplete
PROPERTIES
  ImplementsKeyBuffer
  KeysLeaveTheDevice
CHECK_DEADLOCK FALSE

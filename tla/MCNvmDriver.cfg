SPECIFICATION Spec
CONSTANTS
  NVM_QUEUE_LEN = 4
  DeviceSlots = 5
  MaxCommands = 6
  MaxResets = 4
INVARIANTS
  TypeOK
  
  
  
  AtMostOneRetires

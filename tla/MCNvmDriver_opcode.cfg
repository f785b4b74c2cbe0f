SPECIFICATION Spec
CONSTANTS
  NVM_QUEUE_LEN = 4
  DeviceSlots = 5
  MaxResets = 0
  MaxCommands = 2
INVARIANTS
  PerformedAsAsked

SPECIFICATION Spec
CONSTANTS
  PAGE = 4
  MAX_PCIE_DEVICES = 64
  Boards <- MCBoards
  MaxResets = 0
INVARIANTS
  SearchFindsConfig
CHECK_DEADLOCK FALSE

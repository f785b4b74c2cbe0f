SPECIFICATION Spec
CONSTANTS
  PAGE = 4
  MAX_PCIE_DEVICES = 64
  Boards <- MCBoards
  MaxResets = 12
INVARIANTS
  OneClaimant
  DevicesAreReachable
CHECK_DEADLOCK FALSE

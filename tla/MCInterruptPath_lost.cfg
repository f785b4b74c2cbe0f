SPECIFICATION FairSpec
CONSTANTS
  Vectors <- MCTwoDevices
  TPR = 0
  MaxRequests = 4
PROPERTIES
  EveryRequestIsHandled
CHECK_DEADLOCK FALSE

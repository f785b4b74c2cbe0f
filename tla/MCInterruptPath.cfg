SPECIFICATION FairSpec
CONSTANTS
  Vectors <- MCThreeDevices
  TPR = 0
  MaxRequests = 8
INVARIANTS
  TypeOK
  CriticalSectionIsAtomic
  ContextIsProtected
  FlagsAreRestored
  UrgentTwoNest
  MostUrgentRunsWhenAsked
PROPERTIES
  OnlyRequestedRuns
  LoneRequestIsHandled
CHECK_DEADLOCK FALSE

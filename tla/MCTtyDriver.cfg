SPECIFICATION FairSpec
CONSTANTS
  hello = hello
  x = x
  NoText = NoText
  Calls <- MCCalls
  QUEUE_SIZE = 2
  MaxCalls = 4
INVARIANTS
  TypeOK
  BusyIsOutstanding
  QueueIsConsistent
  DirectIsBarrier
PROPERTIES
  NeverOverwrites
  ImplementsDisplayQueue
  AcceptedIsShown
  PanicIsShown
CHECK_DEADLOCK FALSE

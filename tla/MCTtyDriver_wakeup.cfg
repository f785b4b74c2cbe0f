SPECIFICATION FairSpec
CONSTANTS
  hello = hello
  x = x
  NoText = NoText
  Calls <- MCFewCalls
  QUEUE_SIZE = 2
  MaxCalls = 3
PROPERTIES
  CallIsServed
CHECK_DEADLOCK FALSE

SPECIFICATION FairSpec
CONSTANTS
  Emitters = {"e1"}
  Subscribers <- Two
  BadURLs = {}
  OtherSecret = {}
  Subjects = {"u1"}
  EventTypes <- Types
  ClientTimeout = FALSE
  MaxEmits = 2
  MaxRestarts = 1
PROPERTIES
  EmitReturns
CHECK_DEADLOCK FALSE

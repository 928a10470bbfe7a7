SPECIFICATION FairSpec
CONSTANTS
  Emitters = {"e1", "e2"}
  Subscribers <- Three
  BadURLs = {"batch"}
  OtherSecret = {"gateway"}
  Subjects = {"u1"}
  EventTypes <- AllTypes
  ClientTimeout = TRUE
  MaxEmits = 2
  MaxRestarts = 1
INVARIANTS
  TypeOK
  FirstErrorReported
PROPERTIES
  EmitReturns
CHECK_DEADLOCK FALSE

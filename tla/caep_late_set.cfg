SPECIFICATION Spec
CONSTANTS
  Emitters = {"e1"}
  Subscribers <- Two
  BadURLs = {}
  OtherSecret = {}
  Subjects = {"u1"}
  EventTypes <- Types
  ClientTimeout = TRUE
  MaxEmits = 2
  MaxRestarts = 1
INVARIANTS
  CacheCurrent
CHECK_DEADLOCK FALSE

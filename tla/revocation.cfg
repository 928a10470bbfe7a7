SPECIFICATION GatedSpec
CONSTANTS
  Emitters = {"e1"}
  Subscribers <- Two
  BadURLs = {}
  OtherSecret = {}
  Subjects = {"u1"}
  EventTypes <- Types
  ClientTimeout = TRUE
  MaxEmits = 3
  MaxRestarts = 1
  Watched = "wallet"
  Handlers = {"h1"}
INVARIANTS
  NilMeansApplied
  SerialEmitsConverge
  RevokedEverywhere

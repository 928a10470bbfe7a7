SPECIFICATION FairSpec
CONSTANTS
  Wants <- Users
  Routes <- SettleRoutes
  MaxTime = 1
  MaxMinted = 4
  TTL = 1
  TicksPerSecond = 1
  Transport = "http"
  Backend = "opa"
  Tuples = {}
  RequiredAttributes <- FixtureRequired
  Domains = {"acct"}
  SpiffeIDs = {"spiffe://gw"}
INVARIANTS
  TypeOK
  NoDeadEnd
  TotalNeedsAAL3
PROPERTIES
  ChainAnswers

SPECIFICATION Spec
CONSTANTS
  Requests <- AllRequests
  RequiredAttributes <- FixtureRequired
  Domains = {"acct"}
  SpiffeIDs = {"spiffe://gw"}
  Tuples = {}
  Backend = "opa"
  Transport = "http"
  TTL = 300
  TicksPerSecond = 1
INVARIANTS
  TransportsAgree
  ValidatorsAgree
  AllowCarriesContext

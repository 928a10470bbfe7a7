SPECIFICATION Spec
CONSTANTS
  h1 = h1
  h2 = h2
  Handlers <- OneHandler
  Inbound <- PartnerInbound
  ForeignRequests <- NoForeign
  EventSubjects = {"u1"}
  Profile = "partner"
  Routes <- SettleRoutes
  RequirePeerSVID = FALSE
  FastPath = TRUE
  CAEPEnabled = TRUE
  Revocable = {}
  Skew = 0
  MaxTime = 2
  MaxMinted = 2
  TTL = 2
  TicksPerSecond = 2
  Transport = "http"
  Backend = "opa"
  Tuples = {}
  RequiredAttributes <- FixtureRequired
  Domains <- FixtureDomains
  SpiffeIDs <- Workloads
INVARIANTS
  PartnerIdentified

SPECIFICATION Spec
CONSTANTS
  h1 = h1
  h2 = h2
  Handlers <- OneHandler
  Inbound <- ReadInbound
  ForeignRequests <- NoForeign
  EventSubjects = {"u1"}
  Profile = "edge"
  Routes <- ReadRoutes
  RequirePeerSVID = FALSE
  FastPath = TRUE
  CAEPEnabled = TRUE
  Revocable = {}
  Skew = 0
  MaxTime = 2
  MaxMinted = 2
  TTL = 2
  TicksPerSecond = 2
  Transport = "http"
  Backend = "rebac"
  Tuples <- OwnerTuples
  RequiredAttributes <- FixtureRequired
  Domains <- FixtureDomains
  SpiffeIDs <- Workloads
INVARIANTS
  ReuseHonoured

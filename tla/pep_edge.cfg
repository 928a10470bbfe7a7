SPECIFICATION Spec
CONSTANTS
  h1 = h1
  h2 = h2
  Handlers <- OneHandler
  Inbound <- EdgeInbound
  ForeignRequests <- NoForeign
  EventSubjects = {"u1"}
  Profile = "edge"
  Routes <- SettleRoutes
  RequirePeerSVID = FALSE
  FastPath = TRUE
  CAEPEnabled = TRUE
  Revocable = {}
  Skew = 1
  MaxTime = 3
  MaxMinted = 2
  TTL = 2
  TicksPerSecond = 2
  Transport = "grpc"
  Backend = "opa"
  Tuples = {}
  RequiredAttributes <- FixtureRequired
  Domains <- FixtureDomains
  SpiffeIDs <- Workloads
INVARIANTS
  TypeOK
  IInv
  AllowJustified
  TokenFresh
  RevokedStaysOut
  HighValueNeedsAAL3
  ReuseHonoured
  StepUpRemediable
  EdgeOwnsChallenge
PROPERTIES
  ImplementsEnforcement

SPECIFICATION Spec
CONSTANTS
  h1 = h1
  h2 = h2
  Handlers <- TwoHandlers
  Inbound <- EastWestInbound
  ForeignRequests <- ForwardedTokens
  EventSubjects = {"u1"}
  Profile = "east_west"
  Routes <- SettleRoutes
  RequirePeerSVID = FALSE
  FastPath = TRUE
  CAEPEnabled = TRUE
  Revocable = {"spiffe://batch"}
  Skew = 0
  MaxTime = 1
  MaxMinted = 1
  TTL = 1
  TicksPerSecond = 1
  Transport = "http"
  Backend = "rebac"
  Tuples <- PayerTuples
  RequiredAttributes <- FixtureRequired
  Domains <- FixtureDomains
  SpiffeIDs <- Workloads
SYMMETRY Symmetry
INVARIANTS
  AllowJustified
  DelegationRecorded
  RevokedStaysOut

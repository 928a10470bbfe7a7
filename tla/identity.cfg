SPECIFICATION FairSpec
CONSTANTS
  Server = "wallet"
  Client = "gw"
  Envs <- Either
  CAs = {"old", "new"}
  FirstCA = "old"
  Life = 4
  Backdate = 1
  Every = 1
  Lag = 1
  Duration = 1
  Offset <- Clocks
  MaxIssued = 2
INVARIANTS
  TypeOK
  SetConsistent
  RotationTransparent
PROPERTIES
  RotatorRecovers

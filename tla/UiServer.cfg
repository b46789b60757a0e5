SPECIFICATION Spec
CONSTANTS
  Requests = {1, 2, 3}
  Forms = {1, 2}
  Cases = {1, 2}
  Paths = {"job"}
  JobPath <- SameFile
  Platforms = {"windows", "unix"}
  MaxArtifacts = 1
  Processes = {1, 2}
  Checks = {1, 2}
  MaxTraffic = 8
  HostKeys = {1, 2}
CHECK_DEADLOCK FALSE
INVARIANTS
  TypeOK
  NoChildUnattended
  CancelHitsItsOwn
  VerdictIsTrue
  
  RunsTheJobItAccepted
  OneConfirmedKey
  PairMatches
PROPERTIES
  StopIsBounded

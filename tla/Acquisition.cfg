SPECIFICATION Spec
CONSTANTS
  N = 3
  Data = {"a", "b"}
  Junk = "junk"
  Transport = "ssh"
  MaxAttempts = 2
  AppendFaults = {"lost"}
  MaxRuns = 3
  MaxFaults = 3
INVARIANTS
  TypeOK
  Resumable
  ManifestNeverOverclaims
PROPERTIES
  CommittedNeverRewritten
  ImplementsVerifiedImage

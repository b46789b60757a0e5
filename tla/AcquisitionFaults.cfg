SPECIFICATION Spec
CONSTANTS
  N = 3
  Data = {"a", "b"}
  Junk = "junk"
  Transport = "winrm"
  MaxAttempts = 2
  AppendFaults = {"lost", "kept", "torn"}
  MaxRuns = 3
  MaxFaults = 3
INVARIANTS
  AcknowledgedIsDurable
  SealedIsComplete
  ContinuousIsOnePass
PROPERTIES
  SealedIsFinal

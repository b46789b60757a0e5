SPECIFICATION FairSpec
CONSTANTS
  N = 2
  Data = {"a"}
  Junk = "junk"
  Transport = "ssh"
  MaxAttempts = 2
  AppendFaults = {"lost"}
  MaxRuns = 4
  MaxFaults = 3
PROPERTIES
  RunTerminates
  EventuallyVerified

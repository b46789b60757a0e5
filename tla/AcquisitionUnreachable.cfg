SPECIFICATION Spec
CONSTANTS
  N = 2
  Data = {"a", "b"}
  Junk = "junk"
  Transport = "ssh"
  MaxAttempts = 2
  AppendFaults = {"lost"}
  MaxRuns = 3
  MaxFaults = 3
PROPERTIES
  UnreachableSpendsBudget

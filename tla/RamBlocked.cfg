SPECIFICATION Spec
CONSTANTS
  N = 2
  Transport = "ssh"
  MaxRAMAttempts = 2
  MaxRuns = 2
  MaxFaults = 2
INVARIANTS
  PartialsDoNotBlock

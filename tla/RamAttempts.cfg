SPECIFICATION FairSpec
CONSTANTS
  N = 2
  Transport = "ssh"
  MaxRAMAttempts = 2
  MaxRuns = 3
  MaxFaults = 2
INVARIANTS
  TypeOK
  VerifiedIsOnePass
  SuccessIsVerified
PROPERTIES
  IncompleteIsPreserved
  EventuallyAcquired

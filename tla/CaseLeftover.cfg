SPECIFICATION Spec
CONSTANTS
  Jobs <- ToolOverSSH
  MaxRuns = 1
  MaxFaults = 1
  Keys = {1}
  Artifacts = {1}
  MaxSeals = 1
CHECK_DEADLOCK FALSE
INVARIANT
  CleanupLeavesNothing

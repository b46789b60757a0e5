SPECIFICATION Spec
CONSTANTS
  Jobs <- AllJobs
  MaxRuns = 2
  MaxFaults = 2
  Keys = {k1, k2}
  Artifacts = {1, 2}
  MaxSeals = 2
SYMMETRY KeySymmetry
CHECK_DEADLOCK FALSE
INVARIANTS
  TypeOK
  OwnFilesAreRecorded
  MarkerGoesLast
  PreinstalledStays
  SuccessIsSealed
  AcceptedReportIsCurrent
  CleanReportMeansCleanTarget
PROPERTIES
  CleanupKeepsItsReach

SPECIFICATION Spec
CONSTANTS
  r1 = r1
  r2 = r2
  r3 = r3
  a = a
  b = b
  ManifestName = ManifestName
  None = None
  Runs <- MCTwoRuns
  Objects <- MCObjects
  Modes <- MCModes
  Extracts <- MCObjects
  Failures <- MCFailures
  MaxLive = 2
  ToFile = TRUE
INVARIANTS
  ExitMatchesManifest
PROPERTY JobsKeepLedger
CONSTRAINT MCOneOrTwo
SYMMETRY MCSymmetry
CHECK_DEADLOCK FALSE

SPECIFICATION Spec
CONSTANTS
  r1 = r1
  r2 = r2
  r3 = r3
  a = a
  b = b
  ManifestName = ManifestName
  None = None
  Runs <- MCThreeRuns
  Objects <- MCOneObject
  Modes <- MCUse
  Extracts <- MCNoExtracts
  Failures <- MCNoFailures
  MaxLive = 1
  ToFile = FALSE
INVARIANT CorruptMeansTorn
CONSTRAINT MCKilledHit
CHECK_DEADLOCK FALSE

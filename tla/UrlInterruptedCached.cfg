SPECIFICATION Spec
CONSTANTS
  r1 = r1
  r2 = r2
  r3 = r3
  a = a
  b = b
  ManifestName = ManifestName
  None = None
  Runs <- MCOneRun
  Objects <- MCOneObject
  Modes <- MCUse
  Extracts <- MCNoExtracts
  Failures <- MCFailures
  MaxLive = 1
  ToFile = FALSE
INVARIANT InterruptedNeverCached
CHECK_DEADLOCK FALSE

SPECIFICATION FairSpec
CONSTANTS
  r1 = r1
  r2 = r2
  r3 = r3
  a = a
  b = b
  ManifestName = ManifestName
  None = None
  Runs <- MCTwoRuns
  Objects <- MCOneObject
  Modes <- MCUse
  Extracts <- MCNoExtracts
  Failures <- MCFailures
  MaxLive = 1
  ToFile = FALSE
INVARIANT JournalBehindObjects
PROPERTIES
  ReportNamesEveryCrash
  EveryProcessEnds
CHECK_DEADLOCK FALSE

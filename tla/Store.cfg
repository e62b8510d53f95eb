SPECIFICATION StoreSpec
CONSTANTS
  r1 = r1
  r2 = r2
  s = s
  a = a
  w1 = w1
  w2 = w2
  ManifestName = ManifestName
  None = None
  Runs <- MCRuns
  Objects <- MCObjects
  Writers <- MCWriters
  Submissions <- MCSubmissions
  Lines <- MCLines
INVARIANTS
  EvidencePresent
  CacheBehindManifest
PROPERTIES
  KeepsLedger
  JournalsOnlyGrow
SYMMETRY MCSymmetry
CONSTRAINT MCBounded
CHECK_DEADLOCK FALSE

SPECIFICATION Spec
CONSTANTS
  run = run
  earlier = earlier
  p1 = p1
  p2 = p2
  main = main
  a = a
  b = b
  d = d
  x = x
  l = l
  plain = plain
  spelled = spelled
  second = second
  inner = inner
  None = None
  ManifestName = ManifestName
  Unforced = Unforced
  Refused = Refused
  Health = Health
  Run = run
  Earlier = earlier
  Main = main
  Runs <- MCRuns
  Objects <- MCObjects
  Writers <- MCWriters
  Submissions = {}
  Lines = {}
  Pages <- MCPages
  Concurrency = 2
  Bodies <- MCBodies
  Projection <- MCProjection
  Extracts <- MCExtracts
  Ledgers = l
  ToFile = TRUE
  Left <- MCLeft
  Fragile <- MCFragile
  Registries <- MCRegistries
  Retries = 2
  Jobs <- MCJobs
  Links <- MCLinks
  Canonical <- MCCanonical
  Answers <- MCAnswers
  ScrapeResults = 2
  Sources <- MCBodies
INVARIANTS
  SealedIsFinished
  JournalBehindObjects
  VerdictsAreFinal
  TriesBounded
  StatusTells
  PredecessorReported
  SearchHonest
PROPERTIES
  LostPagesHaveTwins
  EveryJobEnds

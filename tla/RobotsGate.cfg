SPECIFICATION FairSpec
CONSTANTS
  c1 = c1
  c2 = c2
  here = here
  there = there
  open = open
  closed = closed
  Nothing = Nothing
  Checks <- MCChecks
  Origins <- MCOrigins
  Paths <- MCPaths
  Files <- MCFiles
  TokenLength = 7
  Resources <- MCResources
  RetryAfters <- MCRetryAfters
  Ttl = 1
  Timeout = 2
  Retries = 1
  MaxCacheEntries = 1
  SleepHearsAbort = FALSE
  Late = 0
INVARIANTS
  DecidedWhileFresh
  RulesByTheBook
  CacheSound
PROPERTY EveryCheckReturns
CHECK_DEADLOCK FALSE

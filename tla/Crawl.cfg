SPECIFICATION FairSpec
CONSTANTS
  home = home
  left = left
  right = right
  deep = deep
  far = far
  private = private
  URLs <- MCURLs
  Seed = home
  Links <- MCLinks
  Sitemaps <- MCSitemaps
  Included <- MCURLs
  Excluded <- MCExcluded
  PageBytes <- MCPageBytes
  Abortable = TRUE
  CrawlDelayMs = 1
  DelayMs = 2
  Late = 1
  WallMs = 7
  MaxTime = 8
  MaxPages = 4
  MaxDepth = 2
  MaxFrontier = 2
  MaxTotalBytes = 4
  Concurrency = 2
  RetriesPerAdapter = 1
  MaxRedirects = 0
INVARIANTS
  EveryPageAccountedFor
  LinksAccountedFor
  CapsKept
  OkMeansComplete
  PagesArePaced
PROPERTY CrawlEnds
CHECK_DEADLOCK FALSE

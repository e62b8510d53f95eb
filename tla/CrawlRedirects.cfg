SPECIFICATION FairSpec
CONSTANTS
  home = home
  left = left
  right = right
  deep = deep
  far = far
  private = private
  URLs <- MCURLs
  Seed = home
  Links <- MCLinks
  Sitemaps <- MCNoSitemaps
  Included <- MCURLs
  Excluded <- MCExcluded
  PageBytes <- MCOneByte
  Abortable = FALSE
  CrawlDelayMs = 1
  DelayMs = 2
  Late = 0
  WallMs = 7
  MaxTime = 8
  MaxPages = 4
  MaxDepth = 2
  MaxFrontier = 2
  MaxTotalBytes = 4
  Concurrency = 2
  RetriesPerAdapter = 1
  MaxRedirects = 1
INVARIANT RedirectBudgetOnce
CHECK_DEADLOCK FALSE

SPECIFICATION SpecPart
CONSTANTS
  t1 = t1
  t2 = t2
  d1 = d1
  d2 = d2
  d3 = d3
  Tiles <- TwoTiles
  Downloads <- ThreeDownloads
  None = None
  Urls = {"a"}
  MaxPerMinute = 1
  Minute = 2
  UrlCacheMax = 2
  LastTime = 2
  Frames = 2
  LoadedSlots <- BothLoaded
  Views <- OneOrTwo
  Places = {"a", "b"}
  FrameFetchWindow = 1
  MaxRetries = 1
  MaxServerErrorRetries = 1
  MaxRateLimitRetries = 1
  Errors = {"missing", "limited", "server", "other"}
  Filter = FALSE

VIEW Now
SYMMETRY Alike
INVARIANTS PendingExact OnlyFinal OneSharedDownload BudgetKept
PROPERTIES LoadMeansComplete
CHECK_DEADLOCK FALSE

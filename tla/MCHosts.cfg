SPECIFICATION SpecHosts
CONSTANTS
  MaxCalls = 1
  Urls = {1, 2}
  TTL = 0
  MaxEntries = 1
  WriteBackBatch = 2
  LastNow = 1
  MaxRefreshes = 1
  None = None
  Nothing = Nothing
  Stored <- BothOld
INVARIANTS LabelsOnce ServedFresh
PROPERTIES MapHeals BatchSettles WrittenBack
CHECK_DEADLOCK FALSE

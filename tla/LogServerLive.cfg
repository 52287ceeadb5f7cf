CONSTANTS
  Clients = {c1}
  Workers = {1, 2, 3}
  WorkerNums = {2}
  LoopNum = 2
  MaxBatch = 2
  NotifyEvery = 2
  Capacity = 3
  NDEBUG = TRUE
  MaxStarts = 1
  MaxKills = 1
  MaxStops = 1
  None = None
SPECIFICATION FairSpec
CHECK_DEADLOCK FALSE
PROPERTIES
  Delivered
  StopEnds
  Replaced

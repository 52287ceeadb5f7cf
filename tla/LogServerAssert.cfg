CONSTANTS
  Clients = {c1, c2}
  Workers = {1, 2, 3}
  WorkerNums = {0, 2}
  LoopNum = 2
  MaxBatch = 2
  NotifyEvery = 2
  Capacity = 3
  NDEBUG = FALSE
  MaxStarts = 1
  MaxKills = 0
  MaxStops = 1
  None = None
SPECIFICATION Spec
CHECK_DEADLOCK FALSE
INVARIANTS
  AssertPlen

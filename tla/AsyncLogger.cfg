CONSTANTS
  Buffers = {1, 2, 3, 4, 5, 6, 7, 8, 9}
  b1 = 1
  b2 = 2
  b3 = 3
  kBufferSize = 3
  Lens = {1, 2, 3}
  MaxWritten = 5
  NULL = NULL
SPECIFICATION FairSpec
CHECK_DEADLOCK FALSE
INVARIANTS
  InOrder
  NoAlias
  RecycleSafe
  StopFlushes
PROPERTIES
  StopReturns
  FullOutput

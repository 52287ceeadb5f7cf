SPECIFICATION FairSpec
CONSTANTS
  Handles = {h1, h2}
  Requests = {r1, r2}
  max_info_size = 1
  IOErrors = TRUE
  NULL = NULL
INVARIANT ReportedDone
INVARIANT WakeupComing
INVARIANT BufferKept
PROPERTY WaitReturns
PROPERTY CompletionNoticed
CHECK_DEADLOCK FALSE

SPECIFICATION FairSpec
CONSTANTS
  Handles = {h1}
  Requests = {r1}
  max_info_size = 2
  IOErrors = FALSE
  NULL = NULL
PROPERTY WaitOneReturns
CHECK_DEADLOCK FALSE

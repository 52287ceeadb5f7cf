CONSTANTS
  Servers = {1, 2}
  MaxSent = 2
  MaxStarts = 1
  Events = 1
  IdleRounds = 2
  Ops = {"add", "minus"}
  Builds = {{"add"}, {"add", "minus"}}
  MaxLoads = 3
  MaxReqs = 2
  Coroutines = {1, 2, 3}
  Main = 0
  Writers = {1, 2}
  Kinds = {"cfile", "fd", "file", "mmap"}
  RotateSize = 3
  MaxLog = 4
  Headers = {1}
  Bodies = {0, 4}
  MaxLines = 2
  MaxTime = 2
  Users = {1, 2}
  Stranger = 3
  MaxRequests = 1
  MaxToSame = 0
  MaxSends = 1
  MaxReceives = 0
  MaxNotes = 2
  TTL = 2
  Day = 2
  Now = 2
  MaxStored = 3
  MaxIds = 3
  Threads = {1, 2, 3}
  Ways = {"once", "lazy"}
  Clients = {1}
  Ranges <- MCRanges
  Lines = 3
  MaxFiles = 2
  Pickle = 4
SPECIFICATION Spec
INVARIANTS
  CallbacksSafe
  
  
  
 
CHECK_DEADLOCK FALSE

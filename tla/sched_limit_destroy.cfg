CONSTANTS
  MaxProc = 3
  GenMod = 8
  MaxRoots = 1
  MaxBirths = 3
  MaxCalls = 1
  Fds = {}
  Sleeps = {}
  MaxTime = 0
  PollCap = 2
  Limit = TRUE
SPECIFICATION Spec
INVARIANT FreedOnce
CHECK_DEADLOCK FALSE

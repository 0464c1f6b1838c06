CONSTANTS
  MaxProc = 2
  GenMod = 8
  MaxRoots = 1
  MaxBirths = 2
  MaxCalls = 1
  Fds = {7}
  Sleeps = {1}
  MaxTime = 2
  PollCap = 2
  Limit = FALSE
SPECIFICATION Spec
PROPERTY IoWokenByItsFd
CHECK_DEADLOCK FALSE

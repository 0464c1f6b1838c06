CONSTANTS
  MaxProc = 2
  GenMod = 8
  MaxRoots = 2
  MaxBirths = 3
  MaxCalls = 1
  Fds = {7}
  Sleeps = {1}
  MaxTime = 2
  PollCap = 2
  Limit = TRUE
SPECIFICATION FairSpec
INVARIANTS
  IdleRoundHasWakeup
PROPERTIES
  WaiterWokenByChild
  RunnableRuns
  ParkedResumes
CHECK_DEADLOCK FALSE

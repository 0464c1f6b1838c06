CONSTANTS
  MaxProc = 3
  GenMod = 8
  MaxRoots = 1
  MaxBirths = 4
  MaxCalls = 2
  Fds = {}
  Sleeps = {}
  MaxTime = 0
  PollCap = 2
  Limit = FALSE
  MaxCos = 3
  MainProgram = mainProgram
  CoThreads = {k1, k2}
  VmThread = k1
SPECIFICATION MCSpec
INVARIANTS
  WaitsOnOwnChild HandleNamesOneProcess AllRetired StacksLive RecoveryArmed
PROPERTIES
  StatusKeptForParent CauseOfDeathStands TableSpec
CHECK_DEADLOCK FALSE

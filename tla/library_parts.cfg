SPECIFICATION MCSpec
CONSTANTS
  TThreads = {t1, t2}
  t1 = t1
  t2 = t2
  TSS_MAX = 2
  Iterations = 2
  Objects = {1, 2}
  Kinds = {"r", "w", "mem"}
  Modes = {"full", "line", "none"}
  Bytes = {1, 2}
  Newline = 1
  BUFSIZ = 2
  MaxLen = 4
  Eof = Eof
  Temps = {0, 1, 2}
  RaClasses <- MCRaClasses
  IntRegs = 2
  Pairs = 1
  FpRegs = 1
  MaxPending = 2
  NInsns = 3
  Objs = {1, 2, 3}
  NVars = 1
  MinThreshold = 2
  Procs = {Root, p1, p2}
  Root = Root
  p1 = p1
  p2 = p2
  Fds = {3, 4}
  Chunk = 1
  Cap = 2
  WriteLens = {3}
  ReadLens = {1}
  MaxUnits = 3
  DIR_BLOCKS = 3
  Names = {n1, n2}
  n1 = n1
  n2 = n2
  Contents = {"short", "long"}
  Need <- MCNeed
  Disciplined = TRUE
  MaxFaults = 1
INVARIANTS
  DestroyedOnce HomesApart StreamIntact SavesIntact NoBlockLost
PROPERTIES
  StreamSpec CollectsGarbage 
CHECK_DEADLOCK FALSE

SPECIFICATION WritevSpec
CONSTANTS
  Procs = {Root, a}
  Root = Root
  a = a
  Fds = {3, 4}
  Chunk = 1
  Cap = 2
  WriteLens = {1, 2}
  ReadLens = {1}
  MaxUnits = 4
INVARIANT StreamIntact
CHECK_DEADLOCK FALSE

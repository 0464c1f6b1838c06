SPECIFICATION MCSpec
CONSTANTS
  MaxProc = 3
  GenMod = 4
  MaxGen = 2
  Vdso = TRUE
  VdsoLoads = {TRUE, FALSE}
  MAXFID = 3
  MAXWELEM = 2
  HostFds = {3, 4}
  Asks <- MCAsks
  Fixed <- MCFixed
  Loose <- MCLoose
  MAXNODES = 3
  FdNums = {3, 4, 5, 6}
  RamPaths <- MCRamPaths
  Settled = TRUE
  NBINS = 4
  MaxBrk = 128
  Requests = {1, 20}
  Arrays <- MCArrays
  SizeMod = 256
INVARIANTS
  NoCpuLeaks TablesAgree HandlesCounted  ArenaTiled
PROPERTIES
  TableSpec CallsReturn

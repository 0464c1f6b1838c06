SPECIFICATION NineSpec
CONSTANTS
  MAXFID = 3
  MAXWELEM = 2
  HostFds = {3, 4}
  Asks <- MCAsks
  Fixed <- MCFixed
  Loose <- MCLoose
INVARIANT FailedWalkHitsNoFid
CHECK_DEADLOCK FALSE

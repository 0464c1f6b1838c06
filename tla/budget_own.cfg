SPECIFICATION MCSpec
CONSTANTS
  MaxProc = 3
  Quantum = 3
  MaxInsns = 7
  ChildMax = 4
  Word = 32
  Guests = {g1, g2}
  Mappers = {g1}
  g1 = g1
  g2 = g2
  Top = 6
  MmapBase = 2
  MaxRegions = 4
  MaxMap = 2
  ReachTop = FALSE
  Limit = 2
  PoolLimit = 2
INVARIANTS
  OwnBudgetKept ChargesBalance CachesAgree 
PROPERTIES
  NobodyOutlivesLimit 

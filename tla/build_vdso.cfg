SPECIFICATION Spec
CONSTANTS
  MaxProc = 3
  GenMod = 4
  MaxGen = 2
  Vdso = TRUE
  VdsoLoads = {TRUE, FALSE}
INVARIANT RejectedIsGone

SPECIFICATION Spec
CONSTANTS
  MaxProc = 3
  Quantum = 3
  MaxInsns = 7
  ChildMax = 4
  Word = 32
INVARIANT LimitMetExactly

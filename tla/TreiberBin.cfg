CONSTANTS
  Threads = {t1, t2, t3}
  Blocks = {b1, b2, b3}
  NULL = NULL
  MIN_ALIGN = 4
  MaxCalls = 6
SPECIFICATION Spec
SYMMETRY Sym
INVARIANTS
  IInv
  BinSafe
PROPERTY RefinesStack
CHECK_DEADLOCK FALSE

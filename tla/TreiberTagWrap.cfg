CONSTANTS
  Threads = {t1, t2}
  Blocks = {b1, b2, b3}
  NULL = NULL
  MIN_ALIGN = 16
  MaxCalls = 20
SPECIFICATION Spec
SYMMETRY Sym
INVARIANT PoppedBlockIsPrivate
CHECK_DEADLOCK FALSE

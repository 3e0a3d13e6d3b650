CONSTANTS
  MIN_ALIGN = 16
  LNR_FLOOR = 32
  EXP_FLOOR = 64
  EXP_CEIL = 128
  SPLIT_MIN = 32
  CARVE_MAX = 2
  WORD_BITS = 12
  Threads = {t1}
  HEAP_BASE = 16
  HEAP_SIZE = 512
  AllocSizes = {16, 4000, 4090}
  ReallocSizes = {16}
  MaxCalls = 3
  Scrap = 16
  Verifiers = {}
  SecondFrees = FALSE
  EarlyCalls = FALSE
SPECIFICATION Spec
INVARIANTS
  AllocKeepsItsPromise
CHECK_DEADLOCK FALSE

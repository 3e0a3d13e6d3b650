CONSTANTS
  MIN_ALIGN = 16
  LNR_FLOOR = 32
  EXP_FLOOR = 32
  EXP_CEIL = 32
  SPLIT_MIN = 32
  CARVE_MAX = 1
  WORD_BITS = 10
  Threads = {t1, t2}
  HEAP_BASE = 16
  HEAP_SIZE = 208
  AllocSizes = {16, 64}
  ReallocSizes = {16, 32}
  MaxCalls = 3
  Scrap = 16
  Verifiers = {}
  SecondFrees = TRUE
  EarlyCalls = FALSE
SPECIFICATION Spec
INVARIANTS
  NotReturnedTwice
CHECK_DEADLOCK FALSE

CONSTANTS
  MIN_ALIGN = 16
  LNR_FLOOR = 32
  EXP_FLOOR = 64
  EXP_CEIL = 128
  SPLIT_MIN = 128
  CARVE_MAX = 2
  WORD_BITS = 12
  Threads = {t1}
  HEAP_BASE = 256
  HEAP_SIZE = 512
  AllocSizes = {16, 60}
  ReallocSizes = {16}
  MaxCalls = 3
  Scrap = 0
  Verifiers = {}
  SecondFrees = FALSE
  EarlyCalls = TRUE
SPECIFICATION Spec
INVARIANTS
  NullBeforeInit
CHECK_DEADLOCK FALSE

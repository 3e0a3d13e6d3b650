CONSTANTS
  MIN_ALIGN = 16
  LNR_FLOOR = 64
  EXP_FLOOR = 128
  EXP_CEIL = 256
  SPLIT_MIN = 16
  CARVE_MAX = 1
  WORD_BITS = 12
  Threads = {t1}
  HEAP_BASE = 16
  HEAP_SIZE = 576
  AllocSizes = {40, 150, 250, 2047}
  ReallocSizes = {96, 200}
  MaxCalls = 6
  Scrap = 16
  Verifiers = {}
  SecondFrees = TRUE
  EarlyCalls = FALSE
SPECIFICATION Spec
INVARIANTS
  NoOverlap
  FreeListsValid
  LiveBlocksValid
  ContentsSurvive
  FailureJustified
PROPERTIES
  NothingLeaks
  RefinesMalloc
CHECK_DEADLOCK FALSE

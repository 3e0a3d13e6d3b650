CONSTANTS
  Threads = {t1, t2}
  Addrs = {1}
  WORD_BITS = 2
  Operands = {1, 2}
  Initial = {2}
  Backends <- SomeBackends
  MaxCalls = 3
SPECIFICATION FairSpec
INVARIANTS
  TypeOK
PROPERTIES
  RefinesWords
  CallsReturn
CHECK_DEADLOCK FALSE

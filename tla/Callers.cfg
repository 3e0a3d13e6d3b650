CONSTANTS
  WORD_BITS = 6
  Threads = {t1, t2}
  MIN_ALIGN = 16
  Lo = 16
  Hi = 48
  Payloads <- SomePayloads
  Sizes = {16, 24}
  Layouts <- SomeLayouts
  Offsets = {0, 8, 60}
  MaxViews = 2
  MaxCalls = 3
SPECIFICATION Spec
SYMMETRY Sym
INVARIANTS
  ViewsInside
  LayoutsHonoured
  ViewsMeanAddresses
CHECK_DEADLOCK FALSE

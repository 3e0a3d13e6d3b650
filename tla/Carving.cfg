CONSTANTS
  MinAligns = {16, 32}
  Powers = {32, 64, 128, 256}
  SplitMins = {8, 32, 256}
  CarveMaxs = {0, 1, 2}
  MaxSize = 600
  MaxOver = 3
  ExtraCarves = 1
  WORD_BITS = 16
SPECIFICATION Spec
INVARIANTS
  CeilingMap
  FloorMap
  AlignmentNested
  CarvableIsLargest
  RequestFits
  GapBelowClass
  SharedOnlyByHugeCarveMax
  PiecesFitTheirBins
  RetainedIsValid
  SplitLeaksASliver
  GapLeaksASliver
  FewExtraCarves
CHECK_DEADLOCK FALSE

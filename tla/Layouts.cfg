SPECIFICATION LayoutsSpec
CONSTANTS
  PageSize = 128
  HeaderSize = 20
  TupleSize <- Sizes
  TupleAlign <- Aligns
  Keys <- SevenKeys
  TidRange = 6
  KeyLen <- Lengths
  MaxDeletes = 1
  MaxColumns = 4
  Radix = 4
  StringLength = 2
CHECK_DEADLOCK FALSE
INVARIANTS
  NoOverlap
  LevelSorted
  LookupsAgree
  SplitAsserts
  PagesHoldRows
  ChunksWellFormed
  KeyOrder

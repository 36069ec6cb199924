SPECIFICATION LayoutsSpec
CONSTANTS
  PageSize = 84
  HeaderSize = 20
  TupleSize <- Sizes
  TupleAlign <- Aligns
  Keys <- FourKeys
  TidRange = 6
  KeyLen <- Lengths
  MaxDeletes = 3
  MaxColumns = 1
  Radix = 4
  StringLength = 2
CHECK_DEADLOCK FALSE
INVARIANTS
  SplitHasTwoTuples

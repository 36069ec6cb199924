SPECIFICATION Spec
CONSTANTS
  t1 = t1
  t2 = t2
  None = None
  Threads <- TwoThreads
  Ops <- MixedOps
  Load <- MixedLoad
  TidRange = 5
  Dead = {1, 4}
  LeafCap = 3
  InterCap = 2
  FreedReads = {}
  MaxPages = 16
INVARIANT LevelConsistency

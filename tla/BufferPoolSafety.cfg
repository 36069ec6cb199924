SPECIFICATION Spec
CONSTANTS
  t1 = t1
  t2 = t2
  t3 = t3
  Threads <- ThreeThreads
  PoolSize = 2
  SweepSize = 2
  DiskPages = 1
  MaxPid = 2
SYMMETRY Symmetry3
INVARIANTS
  TypeOK
  PinAccounting
  OneOwner
  SignalIOAsserts
  PageTableConsistent
  FrameHoldsItsPage
  FetcherUsesItsPage
  ReserveNeverCollides

SPECIFICATION Spec
CONSTANTS
  t1 = t1
  t2 = t2
  t3 = t3
  Threads <- TwoThreads
  PoolSize = 2
  SweepSize = 2
  DiskPages = 2
  MaxPid = 2
INVARIANT UsePageCorrect

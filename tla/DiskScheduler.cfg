SPECIFICATION SchedFairSpec
CONSTANTS
  p1 = p1
  p2 = p2
  p3 = p3
  p4 = p4
  Pages <- FourPages
  MaxInflight = 3
  RingSize = 1
CHECK_DEADLOCK FALSE
INVARIANTS
  SchedTypeOK
  TaskInOnePlace
  InflightExact
  DrainedAtExit
PROPERTIES
  ImplementsAsyncIO
  RequestsComplete

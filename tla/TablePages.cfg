SPECIFICATION TableFairSpec
CONSTANTS
  a = a
  b = b
  c = c
  Txns <- ThreeTxns
  TxnBit = 16
  MaxRecords = 2
  InitRows = 0
  MaxRows = 1
  Ops = {"insert", "update", "delete"}
CHECK_DEADLOCK FALSE
INVARIANTS
  SnapshotValues
  DeleteIsFinal
  AtomicVisibility
  NoConflictIffSeen
PROPERTIES
  SnapshotStable
  BeginReturns

SPECIFICATION TableSpec
CONSTANTS
  a = a
  b = b
  c = c
  Txns <- ThreeTxns
  TxnBit = 16
  MaxRecords = 2
  InitRows = 1
  MaxRows = 1
  Ops = {"update", "delete", "raw"}
CHECK_DEADLOCK FALSE
SYMMETRY Symmetry
INVARIANTS
  FirstUpdaterWins
  NoLostVersion

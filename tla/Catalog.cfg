SPECIFICATION CatalogSpec
CONSTANTS
  t1 = t1
  t2 = t2
  t3 = t3
  a = a
  b = b
  Txns = {t1, t2, t3}
  TxnBit = 16
  MaxRecords = 10
  AttnumRange = 2
  Scenarios <- MCScenarios
CHECK_DEADLOCK FALSE
INVARIANTS
  UniqueNames
  ExistsMeansVisible
  IndexesComplete

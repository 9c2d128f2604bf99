SPECIFICATION Spec
CONSTANTS
  Req = {r1, r2}
  Last = 3
  MaxTx = 3
  MaxLot = 3
  Amounts = {2}
  Dates = {1, 3}
  Trades <- MCTrades
  ClosePrice <- MCClose
  Order = {1, 2}
  Execution <- MCExecution
  Seed <- MCSeed
  SeedCash = 1
  r1 = r1
  r2 = r2
INVARIANTS
  FillOnce
  BooksBalance
  IncrementalIsReplay
  HistoryTrue
PROPERTIES
  ImportIsComplete
SYMMETRY MCSymmetry
CHECK_DEADLOCK FALSE

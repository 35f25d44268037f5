CONSTANTS
  t1 = t1
  t2 = t2
  None = None
  Txs <- MCTxs
  REMOVED = 2
  MinCap = 1
  MaxGen = 2
  MaxSaves = 1
SPECIFICATION Spec
INVARIANT ReplayAccepted
CHECK_DEADLOCK FALSE

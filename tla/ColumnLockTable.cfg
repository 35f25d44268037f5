CONSTANTS
  t1 = t1
  t2 = t2
  t3 = t3
  a1 = a1
  a2 = a2
  c1 = c1
  c2 = c2
  NoTx = NoTx
  Txs <- MCTxs
  Archetypes <- MCArchetypes
  AccessSets <- MCAccessSets
  Components <- MCComponents
SPECIFICATION Spec
INVARIANTS TypeOK TableIsHolders Exclusion
PROPERTY ImplementsColumnLocks

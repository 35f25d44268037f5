CONSTANTS
  t1 = t1
  t2 = t2
  e1 = e1
  c1 = c1
  c2 = c2
  v1 = v1
  v2 = v2
  NoValue = NoValue
  Txs <- MCTxs
  Entities <- MCEntities
  Components <- MCComponents
  Values <- MCValues
  AccessSets <- MCAccessSets
  Bundles <- MCBundles
  Removable <- MCRemovable
  First <- MCFirst
  MaxBuffered = 2
  MaxReads = 1
SYMMETRY MCSymmetry
SPECIFICATION Spec
INVARIANT ValidatedReadsAreCurrent
PROPERTY LockedColumnsAreStable
CHECK_DEADLOCK FALSE

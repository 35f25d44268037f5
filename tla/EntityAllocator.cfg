CONSTANTS
  t1 = t1
  t2 = t2
  None = None
  Txs <- MCTxs
  REMOVED = 2
  MinCap = 1
  MaxGen = 2
  MaxSaves = 1
SPECIFICATION Spec
INVARIANTS TypeOK FreeListIsSound EverySlotHasOneOwner NextHandleIsFresh OrphansAnnounced WouldAdoptMirrorsAdopt QuiescentReplayAccepted
PROPERTIES DeallocNeverGrows OrphansReclaimed
CHECK_DEADLOCK FALSE

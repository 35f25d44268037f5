SPECIFICATION Spec
CONSTANTS
  Total = 5
  ChunkSlots = 2
  UnitSlots = 2
  Threads = {t1, t2}
  SlabSizes <- TwoClasses
  RunSizes = {1, 2}
  TCACHE_CAPACITY = 2
  TCACHE_REFILL = 2
  TCACHE_SPILL = 1
  MaxLive = 2
  MaxEpoch = 1
  None = None
INVARIANTS TypeOK SideTableRoutesFrees EveryBlockHasOneHolder
SYMMETRY ThreadSymmetry
CHECK_DEADLOCK FALSE

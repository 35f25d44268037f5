SPECIFICATION Spec
CONSTANTS
  Total = 7
  ChunkSlots = 1
  UnitSlots = 2
  Threads = {t1, t2}
  SlabSizes <- OneClass
  RunSizes = {1, 2}
  TCACHE_CAPACITY = 1
  TCACHE_REFILL = 1
  TCACHE_SPILL = 1
  MaxLive = 2
  MaxEpoch = 0
  None = None
INVARIANTS FrontiersNeverCross
PROPERTIES CallsEnd
CHECK_DEADLOCK FALSE

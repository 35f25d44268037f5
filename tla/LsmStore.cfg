SPECIFICATION Spec
CONSTANTS
  a = a
  b = b
  EntityCol = EntityCol
  Archetypes <- OneAndBoth
  Overwritten = {1}
  PageSize = 1
  Trigger = 2
  Levels = 3
  Slots = 2
  MaxOps = 4
  MaxTags = 1
  MaxFaults = 1
INVARIANTS FlushedWorldRecovers DeadStayDead ManifestIsDurable
CHECK_DEADLOCK FALSE

SPECIFICATION Spec
CONSTANTS
  a = a
  b = b
  EntityCol = EntityCol
  Archetypes <- TwoSingles
  Overwritten = {3}
  PageSize = 1
  Trigger = 2
  Levels = 3
  Slots = 2
  MaxOps = 3
  MaxTags = 1
  MaxFaults = 0
INVARIANT RecoversSnapshot
CHECK_DEADLOCK FALSE

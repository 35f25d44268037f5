SPECIFICATION Spec
CONSTANTS
  Followers = {f1}
  Members = {m}
  SegmentFrames = 2
  MaxRecords = 2
  MaxBytes = 4
  MaxControls = 2
  MaxCommits = 2
  MaxViews = 1
  MaxAdmin = 2
  MaxFaults = 3
  None = None
INVARIANTS ConsumedIsDurable JournalRebuildsFollower
PROPERTIES ImplementsLogShipping CatchesUp
CHECK_DEADLOCK FALSE

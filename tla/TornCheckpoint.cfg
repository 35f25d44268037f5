SPECIFICATION Spec
CONSTANTS
  SegmentFrames = 3
  CheckpointEvery = 2
  FailedWrites = {"nothing", "part", "all"}
  MaxCommits = 3
  MaxViews = 0
  MaxFaults = 1
  MaxCrashes = 1
  None = None
INVARIANT AcknowledgedCommitsSurvive

SPECIFICATION Spec
CONSTANTS
  SegmentFrames = 3
  CheckpointEvery = 2
  FailedWrites = {"nothing"}
  MaxCommits = 4
  MaxViews = 1
  MaxFaults = 2
  MaxCrashes = 2
  None = None
INVARIANTS TypeOK AcknowledgedCommitsSurvive AckedIsRecoverable SegmentsPartition SequenceNumbersAreFresh PublishedPrefixIsDurable ViewsNeverRegress UncheckpointedIsCounted

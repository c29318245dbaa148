SPECIFICATION FairSpec
CONSTANTS
  Topics <- AllTopics
  Rows <- MCRows
  Values = {1, 2}
  Absent = Absent
  Objects = {"x", "y"}
  Restored = {0, 1, 3}
  BatchTXSize = 2
  MaxInserts = 2
  ChanCap = 3
  MaxCrashes = 2
INVARIANT TypeOK
INVARIANT CheckpointMatchesData
PROPERTY CheckpointAdvances
PROPERTY ExactAtCheckpoint
PROPERTY Converges
CHECK_DEADLOCK FALSE

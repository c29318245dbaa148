SPECIFICATION Spec
CONSTANTS
  Topics <- IncompleteTopics
  Rows <- MCRows
  Values = {1, 2}
  Absent = Absent
  Objects = {"x", "y"}
  Restored = {0}
  BatchTXSize = 2
  MaxInserts = 2
  ChanCap = 3
  MaxCrashes = 0
INVARIANT IncompleteIgnored
CHECK_DEADLOCK FALSE

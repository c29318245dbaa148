SPECIFICATION FairSpec
CONSTANTS
  wanted = wanted
  rejected = rejected
  Sessions = {s1, s2}
  NumChanges = 2
  Dumps = {wanted, rejected}
  Rows <- MCRows
  FilteredOut = {1, rejected}
  Debounce = TRUE
  Kinds <- Moves
  RowKey <- MCRowKey
  MaxFaults = 1
  ReadFails = TRUE
INVARIANT TypeOK
INVARIANT AtLeastOnce
INVARIANT DumpIsFresh
INVARIANT DoneWhenLastHandled
PROPERTY Drains
CHECK_DEADLOCK FALSE

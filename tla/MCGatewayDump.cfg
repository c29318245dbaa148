SPECIFICATION Spec
CONSTANTS
  wanted = wanted
  rejected = rejected
  Sessions = {s1}
  NumChanges = 1
  Dumps = {wanted}
  Rows <- MCRows
  FilteredOut = {}
  Debounce = FALSE
  Kinds <- Moves
  RowKey <- MCRowKey
  MaxFaults = 1
  ReadFails = FALSE
INVARIANT WholeDumpHandled
CHECK_DEADLOCK FALSE

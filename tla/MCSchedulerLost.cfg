SPECIFICATION Spec
CONSTANTS
  Clients = {c1, c2}
  NumDumps <- OnlyOne
  MaxSchedules = 1
  MaxFaults = 1
  MayStop = FALSE
  None = None
INVARIANT AllProcessed
CHECK_DEADLOCK FALSE

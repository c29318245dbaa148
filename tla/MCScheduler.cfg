SPECIFICATION FairSpec
CONSTANTS
  Clients = {c1, c2}
  NumDumps <- TwoThenOne
  MaxSchedules = 2
  MaxFaults = 1
  MayStop = TRUE
  None = None
INVARIANT TypeOK
INVARIANT OnePlace
INVARIANT InboxTracked
INVARIANT NothingDropped
PROPERTY ScheduleEnds
CHECK_DEADLOCK FALSE

SPECIFICATION FairSpec
CONSTANTS
  MaxPipes = 2
  ChanCap = 1
  MaxPending = 1
  MaxFaults <- FirstFails
  SignalUpTo = 1
INVARIANT TypeOK
INVARIANT ClosedAfterUse
INVARIANT CleanAfterApply
INVARIANT PollsCurrent
INVARIANT ReportsCurrent
PROPERTY PipelineEnds
CHECK_DEADLOCK FALSE

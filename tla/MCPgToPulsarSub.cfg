CONSTANTS
  Word = 2
  MaxTx = 2
  Size <- MCSize
  StartLSN = 0
  Tracker = "pulsarSub"
  ChanCap = 1
  MaxPending = 2
  SendErrors = TRUE
  MaxFaults = 2
SPECIFICATION FairSpec
INVARIANT TopicInOrder
PROPERTY BacklogAcked

CONSTANTS
  Word = 2
  MaxTx = 3
  Size <- MCSize
  StartLSN = 1
  Tracker = "pulsar"
  ChanCap = 2
  MaxPending = 2
  SendErrors = FALSE
  MaxFaults = 3
SPECIFICATION FairSpec
INVARIANTS
  TypeOK
  TopicInOrder
  NothingSkipped
  SlotKeepsUnpublished
  KeysNamePositions
  IInv
PROPERTIES
  Replicated
  WalReleased
  CopiesLog

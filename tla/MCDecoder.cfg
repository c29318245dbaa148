CONSTANTS
  Names = {"t", "u"}
  Columns <- MCColumns
  Oids = {1, 2}
  InitCatalog <- MCCatalog
  Transactions <- MCTransactions
  Misses <- MCMisses
  MaxTx = 3
  MaxCrashes = 1
  MaxBreaks = 1
SPECIFICATION Spec
INVARIANTS
  TypeOK
  ChangesFaithful
  ReplayKeepsNumbers
  BatchesUniform
CHECK_DEADLOCK FALSE

\* Two transactions, a price that rises; failed transactions, an RPC error, a reorg, a crash.
CONSTANTS
  Nil = Nil
  NumTxs = 2
  MaxPrice = 2
  MaxBlocks = 3
  MaxReverts = 2
  MaxErrors = 1
  MaxReorgs = 1
  MaxCrashes = 1
  MaxFaults = 2
SPECIFICATION FairSpec
INVARIANTS SendsOnce ConfirmedIsMined
PROPERTIES DoneIsFinal Resolved
CHECK_DEADLOCK FALSE

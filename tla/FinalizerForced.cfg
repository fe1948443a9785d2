\* Forced batches, one of them with a transaction of the pool.
CONSTANTS
  t1 = t1
  t2 = t2
  Nil = Nil
  Txs <- TwoTxs
  ForcedData <- TwoForced
  MaxResources = 5
  BlockCost = 1
  TxCost = 3
  Margin = 0
  MaxTxsPerBatch = 2
  Configs <- Sequential
  MaxBlocks = 4
  MaxBatches = 2
  MaxStarts = 2
SPECIFICATION Spec
INVARIANTS TrustedChain ForcedInOrder
CHECK_DEADLOCK FALSE

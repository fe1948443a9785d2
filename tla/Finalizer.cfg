\* No forced batches; sequential L2 blocks with parallel sanity checks, or the opposite.
CONSTANTS
  t1 = t1
  t2 = t2
  Nil = Nil
  Txs <- TwoTxs
  ForcedData <- NoForcedData
  MaxResources = 5
  BlockCost = 1
  TxCost = 3
  Margin = 0
  MaxTxsPerBatch = 2
  Configs <- DefaultAndOpposite
  MaxBlocks = 3
  MaxBatches = 3
  MaxStarts = 2
SPECIFICATION FairSpec
INVARIANTS RootsFollow  SelectedStoredOnce
PROPERTIES ClosedIsFinal TxSettled
CHECK_DEADLOCK FALSE

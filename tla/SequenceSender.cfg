\* A fork upgrade after batch 3, and a reorg.
CONSTANTS
  NumBatches = 4
  Size <- SizeDef
  Timestamp <- TimestampDef
  MaxTxSizeForL1 = 3
  ForkUpgradeBatchNumber = 3
  L1BlockTimestampMargin = 1
  Retries = 2
  Width = 4
  MaxTime = 4
  MaxReorgs = 1
SPECIFICATION FairSpec
INVARIANT SequencesSound
PROPERTY AllVirtual
CHECK_DEADLOCK FALSE

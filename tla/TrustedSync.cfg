SPECIFICATION Spec
CONSTANTS
  MaxBatches = 3
  MaxData = 1
  MaxL1 = 4
  ReprocessFullBatchOnClose = TRUE
  AcceptEmptyClosedBatches = FALSE
  Faults = {"error", "restart", "reorg", "trusted", "forced"}
  MaxFaults = 1
INVARIANTS
  BatchesChain
  VirtualFollowsL1
  
PROPERTY CatchesUp
CHECK_DEADLOCK FALSE

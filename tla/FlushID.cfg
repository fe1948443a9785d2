SPECIFICATION FairSpec
CONSTANTS
  MaxBlocks = 3
  MaxRestarts = 1
INVARIANTS StoredAfterFlush PipelineOrder
PROPERTY PolledIsStored
CHECK_DEADLOCK FALSE

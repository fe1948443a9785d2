\* Two blocks before the genesis block, four after it, ranges of two blocks.
CONSTANTS
  Upgrade = 1
  Genesis = 3
  SyncChunkSize = 1
  MaxBlocks = 7
  MaxReorgs = 1
  MaxFaults = 1
  Faults = {"error", "crash", "lost", "desync"}
SPECIFICATION FairSpec
INVARIANTS NoEventMissed LastIsStored
PROPERTY CatchesUp
CHECK_DEADLOCK FALSE

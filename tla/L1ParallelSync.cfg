SPECIFICATION Spec
CONSTANTS
  Genesis = 2
  SyncChunkSize = 1
  Unsafe = 2
  Workers = 2
  ChannelCap = 1
  CmdCap = 3
  MaxBlocks = 5
  MaxFaults = 1
  Faults = {"error", "process", "reset", "crash", "reorg"}

  
  
PROPERTY CatchesUp
CHECK_DEADLOCK FALSE

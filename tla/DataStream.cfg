\* The data stream with one crash and one error of the stream file.
SPECIFICATION Spec
CONSTANTS
  Indexes = {0, 1}
  MaxBatches = 4
  MaxBlocks = 4
  MaxForcedBlocks = 1
  ChannelCap = 1
  PageSize = 1
  Faults = {"crash", "recrash", "forcedcrash", "abort", "stream", "prev", "tx", "rollback"}
  MaxFaults = 2
 
PROPERTIES StreamsTheState StreamCatchesUp
CHECK_DEADLOCK FALSE

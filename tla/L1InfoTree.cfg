\* The L1 info tree under reorgs, failed transactions and restarts.
SPECIFICATION Spec
CONSTANTS
  Height = 3
  Chains <- AllChains
  MaxReorgs = 2
  MaxFaults = 3
INVARIANTS RootsStored CacheFollows ProofsVerify
PROPERTY LeavesStored
CHECK_DEADLOCK FALSE

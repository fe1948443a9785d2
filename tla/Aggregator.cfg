\* Two provers, a sequence of two batches and one of one batch; a database error, a cleanup
\* of a locked row or a crash.
CONSTANTS
  p1 = p1
  p2 = p2
  Nil = Nil
  Provers <- TwoProvers
  NumBatches = 3
  Sequences <- TwoSequences
  BlobInnerNum = 0
  MaxErrors = 1
  MaxCleanups = 1
  MaxCrashes = 1
  MaxFaults = 1
SPECIFICATION FairSpec
INVARIANTS NoBatchTwice SentExtendsL1
 
CHECK_DEADLOCK FALSE

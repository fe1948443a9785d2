----------------------------- MODULE MCFinalizer -----------------------------
(* Instances of Finalizer for TLC. *)
EXTENDS Finalizer

CONSTANTS t1, t2

TwoTxs == {t1, t2}
Symmetry == Permutations(TwoTxs)
\* The default configuration, one that does the opposite, and all sequential.
Cfg(seqBlocks, seqSanity) ==
  [SequentialProcessL2Block |-> seqBlocks, SequentialBatchSanityCheck |-> seqSanity]
Default == {Cfg(TRUE, FALSE)}
DefaultAndOpposite == {Cfg(TRUE, FALSE), Cfg(FALSE, TRUE)}
Sequential == {Cfg(TRUE, TRUE)}
NoForcedData == << >>
OneForced == << <<t1>> >>
TwoForced == << << >>, <<t1>> >>
==============================================================================

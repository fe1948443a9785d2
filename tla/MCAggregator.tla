----------------------------- MODULE MCAggregator -----------------------------
(* Small instances of Aggregator. *)
EXTENDS Aggregator, TLC

CONSTANTS p1, p2

TwoProvers == {p1, p2}
Symmetry == Permutations(TwoProvers)

\* A sequence of two batches and one of one batch.
TwoSequences == {<<1, 2>>, <<3, 3>>}
==============================================================================

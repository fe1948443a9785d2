-------------------------- MODULE MCSequenceSender --------------------------
(* Small instances of SequenceSender. *)
EXTENDS SequenceSender

\* Two consecutive batches fit in a transaction of size 3, three do not.
SizeDef == [n \in Batches |-> IF n % 2 = 1 THEN 2 ELSE 1]
TimestampDef == [n \in Batches |-> IF n = 1 THEN 1 ELSE 2]
==============================================================================

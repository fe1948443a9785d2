---------------------------- MODULE L2BlockStream ----------------------------
(***************************************************************************)
(* What the data stream promises its readers: the L2 blocks of the trusted *)
(* state, each one once, in order and without a gap, and nothing taken     *)
(* back.  The stream may lag behind the state by any number of blocks.     *)
(* The promise is kept until something breaks that nothing guards against. *)
(***************************************************************************)
EXTENDS Integers, Sequences

CONSTANT Block          \* the L2 blocks there may be

VARIABLES stored,       \* L2 blocks of the trusted state, in order
          streamed,     \* L2 blocks a reader of the stream has been given
          broken        \* a failure has happened that ends the promise

vars == <<stored, streamed, broken>>

Init == stored \in Seq(Block) /\ streamed = <<>> /\ broken = FALSE

\* The sequencer stores a block.
Store ==
  /\ \E b \in Block : stored' = Append(stored, b)
  /\ UNCHANGED streamed

\* The stream takes over the next blocks.
Publish ==
  /\ \E n \in Len(streamed)+1..Len(stored) : streamed' = SubSeq(stored, 1, n)
  /\ UNCHANGED stored

\* A block whose transaction does not commit is given up; a block that a
\* reader has been given never is.
GiveUp ==
  /\ \E n \in Len(streamed)..Len(stored) : stored' = SubSeq(stored, 1, n)
  /\ UNCHANGED streamed

Next == \/ ~broken' /\ ~broken /\ (Store \/ Publish \/ GiveUp)
        \/ broken'

Spec == Init /\ [][Next]_vars
=============================================================================

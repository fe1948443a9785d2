--------------------------- MODULE SequenceSender ---------------------------
(***************************************************************************)
(* The sequence sender (sequencesender/sequencesender.go): a loop that     *)
(* waits for its monitored transactions, checks that the state is synced,  *)
(* selects a run of closed and checked batches after the last virtual one, *)
(* waits until L1 time and local time pass the last L2 block by a margin,  *)
(* and adds an L1 transaction.  The sequencer, L1, the synchronizer and    *)
(* the transaction manager are modelled by what the sender sees of them.   *)
(***************************************************************************)
EXTENDS Integers, Sequences, SequencesExt, FiniteSetsExt

CONSTANTS
  NumBatches,
  Size,                    \* encoded size of each batch
  Timestamp,               \* time of the last L2 block of each batch
  MaxTxSizeForL1,
  ForkUpgradeBatchNumber,  \* 0: no upgrade ahead
  L1BlockTimestampMargin,
  Retries,                 \* retriesSanityCheck
  Width,                   \* bits of the timestamps
  MaxTime, MaxReorgs       \* bounds

Batches == 1..NumBatches

ASSUME SenderAssumption ==
  /\ {NumBatches, Retries, Width} \subseteq Nat \ {0}
  /\ {ForkUpgradeBatchNumber, L1BlockTimestampMargin, MaxTime, MaxReorgs, MaxTxSizeForL1}
       \subseteq Nat
  /\ Size \in [Batches -> Nat] /\ Timestamp \in [Batches -> Nat]

VARIABLES
  closed,    \* last closed trusted batch
  checked,   \* batches whose sanity check has passed
  l1,        \* L1: the sequences <<from, to>> of the contract
  st,        \* the state's copy of l1
  pool,      \* L1: sequences sent and not mined
  ids,       \* ids of the monitored transactions
  pending,   \* monitored transactions that are not done
  snd,       \* the sender: [pc, v, c, tries, from, to]
  l1time, now, reorgs

vars == <<closed, checked, l1, st, pool, ids, pending, snd, l1time, now, reorgs>>
sequencer == <<closed, checked>>
chain == <<l1, st, pool, ids, pending>>
time == <<l1time, now, reorgs>>

Sequenced(s) == IF s = <<>> THEN 0 ELSE Last(s)[2]

Start == [pc |-> "process", v |-> 0, c |-> 0, tries |-> 0, from |-> 0, to |-> 0]

Init ==
  /\ closed = 0 /\ checked = {} /\ l1 = <<>> /\ st = <<>> /\ pool = {} /\ ids = {} /\ pending = {}
  /\ snd = Start /\ l1time = 0 /\ now = 0 /\ reorgs = 0

------------------------------------------------------------------------------
(* tryToSendSequence *)

\* ProcessPendingMonitoredTxs returns.
ProcessPending ==
  /\ snd.pc = "process" /\ pending = {}
  /\ snd' = [snd EXCEPT !.pc = "virtual"]
  /\ UNCHANGED <<sequencer, chain, time>>

\* isSynced reads the last virtual batch and the last closed one ...
ReadVirtual ==
  /\ snd.pc = "virtual"
  /\ snd' = [snd EXCEPT !.pc = "synced", !.v = Sequenced(st), !.c = closed]
  /\ UNCHANGED <<sequencer, chain, time>>

\* The state has the last sequenced batch; halt when the trusted state has not.
Trusted == IF snd.c >= snd.v THEN "select" ELSE "halted"

\* ... and compares the first with the contract.
IsSynced ==
  /\ snd.pc = "synced"
  /\ \/ /\ snd.v < Sequenced(l1)
        /\ snd' = Start
     \/ /\ snd.v > Sequenced(l1)
        /\ snd' = [snd EXCEPT !.pc = "retry", !.tries = 0]
     \/ /\ snd.v = Sequenced(l1)
        /\ snd' = [snd EXCEPT !.pc = Trusted]
  /\ UNCHANGED <<sequencer, chain, time>>

LastRetry(tries) == tries = Retries - 1

\* The contract is behind: it is read again, and the last retry halts.
RetrySynced ==
  /\ snd.pc = "retry"
  /\ \/ /\ snd.v = Sequenced(l1)
        /\ snd' = [snd EXCEPT !.pc = Trusted]
     \/ /\ snd.v # Sequenced(l1)
        /\ snd' = IF LastRetry(snd.tries) THEN [snd EXCEPT !.pc = "halted"]
                  ELSE [snd EXCEPT !.tries = @ + 1]
  /\ UNCHANGED <<sequencer, chain, time>>

\* Mutant: closed batches are ready before their sanity check.
Ready_Closed(n) == n <= closed

\* IsBatchChecked
Ready(n) == n <= closed /\ n \in checked

SumSize(from, to) == MapThenSumSet(LAMBDA n : Size[n], from..to)

Fits(from, to) == SumSize(from, to) <= MaxTxSizeForL1

\* The last batch before the upgrade.
AtFork(n) == ForkUpgradeBatchNumber # 0 /\ n = ForkUpgradeBatchNumber

\* getSequencesToSend: the batches from the first one up to `to' can be sent together; it
\* stops at a batch that is too large or at the upgrade, or at the last ready batch when
\* the last virtual batch is old enough, or earlier when a gas estimation fails.
Selectable(from) ==
  {to \in from..NumBatches :
     /\ \A n \in from..to : Ready(n)
     /\ \A n \in from..(to - 1) : ~AtFork(n)
     /\ Fits(from, to)}

\* Mutant: the last virtual batch is sent again.
FirstToSend_Last == Sequenced(st)

FirstToSend == Sequenced(st) + 1

Select ==
  /\ snd.pc = "select"
  /\ LET from == FirstToSend
     IN  \/ snd' = Start
         \/ /\ ~(ForkUpgradeBatchNumber # 0 /\ from = ForkUpgradeBatchNumber + 1)
            /\ Sequenced(l1) = Sequenced(st)
            /\ \E to \in Selectable(from) :
                 snd' = [snd EXCEPT !.pc = "waitL1", !.from = from, !.to = to]
  /\ UNCHANGED <<sequencer, chain, time>>

\* int64(u) of an unsigned number
Signed(u) == LET w == u % 2^Width IN IF w >= 2^(Width - 1) THEN w - 2^Width ELSE w

marginTimeElapsed(ts, current) ==
  LET diff == IF ts >= current THEN Signed(-(ts - current)) ELSE Signed(current - ts)
  IN  diff >= L1BlockTimestampMargin

WaitL1 ==
  /\ snd.pc = "waitL1" /\ marginTimeElapsed(Timestamp[snd.to], l1time)
  /\ snd' = [snd EXCEPT !.pc = "waitNow"]
  /\ UNCHANGED <<sequencer, chain, time>>

WaitNow ==
  /\ snd.pc = "waitNow" /\ marginTimeElapsed(Timestamp[snd.to], now)
  /\ snd' = [snd EXCEPT !.pc = "add"]
  /\ UNCHANGED <<sequencer, chain, time>>

\* EthTxManager.Add: fails when the contract rejects the sequence or the id exists.
AddSequence ==
  /\ snd.pc = "add"
  /\ LET s == <<snd.from, snd.to>>
     IN  IF snd.from = Sequenced(l1) + 1 /\ s \notin ids
         THEN /\ ids' = ids \union {s} /\ pending' = pending \union {s}
              /\ pool' = pool \union {s}
         ELSE UNCHANGED <<ids, pending, pool>>
  /\ snd' = Start
  /\ UNCHANGED <<sequencer, l1, st, time>>

------------------------------------------------------------------------------
(* The environment (external) *)

\* The sequencer closes batches and checks them, in any order.
CloseBatch ==
  /\ closed < NumBatches /\ closed' = closed + 1
  /\ UNCHANGED <<checked, chain, snd, time>>

CheckBatch ==
  /\ \E n \in 1..closed \ checked : checked' = checked \union {n}
  /\ UNCHANGED <<closed, chain, snd, time>>

\* L1 mines a sequence; the contract reverts one that does not follow the last.
MineSequence ==
  /\ \E s \in pool :
       /\ pool' = pool \ {s}
       /\ l1' = IF s[1] = Sequenced(l1) + 1 THEN Append(l1, s) ELSE l1
  /\ UNCHANGED <<sequencer, st, ids, pending, snd, time>>

\* The synchronizer stores a sequence; the transaction manager confirms it.
SyncSequence ==
  /\ IsStrictPrefix(st, l1)
  /\ st' = Append(st, l1[Len(st) + 1])
  /\ UNCHANGED <<sequencer, l1, pool, ids, pending, snd, time>>

Confirm ==
  /\ \E s \in pending : s \in Range(st) /\ pending' = pending \ {s}
  /\ UNCHANGED <<sequencer, l1, st, pool, ids, snd, time>>

\* L1 drops its last sequence, whose transaction returns to the pool.
DropSequence ==
  /\ l1 # <<>> /\ reorgs < MaxReorgs /\ reorgs' = reorgs + 1
  /\ l1' = Front(l1) /\ pool' = pool \union {Last(l1)}
  /\ UNCHANGED <<sequencer, st, ids, pending, snd, l1time, now>>

\* The synchronizer resets the state; Reorg makes the transactions pending again.
ProcessReorg ==
  /\ ~IsPrefix(st, l1)
  /\ st' = Front(st) /\ pending' = pending \union {Last(st)}
  /\ UNCHANGED <<sequencer, l1, pool, ids, snd, time>>

Tick ==
  /\ now < MaxTime /\ now' = now + 1
  /\ UNCHANGED <<sequencer, chain, snd, l1time, reorgs>>

\* An L1 block is not later than now.
L1Block ==
  /\ l1time < now /\ l1time' = now
  /\ UNCHANGED <<sequencer, chain, snd, now, reorgs>>

Sender ==
  ProcessPending \/ ReadVirtual \/ IsSynced \/ RetrySynced \/ Select \/ WaitL1 \/ WaitNow
  \/ AddSequence

Next ==
  \/ Sender \/ CloseBatch \/ CheckBatch \/ MineSequence \/ SyncSequence \/ Confirm
  \/ DropSequence \/ ProcessReorg \/ Tick \/ L1Block

Spec == Init /\ [][Next]_vars

\* The sender's loop runs and in the end finds the time to send; the rest of the system runs.
FairSpec ==
  /\ Spec /\ WF_vars(Sender) /\ SF_vars(Select /\ snd'.pc = "waitL1")
  /\ WF_vars(CloseBatch) /\ WF_vars(CheckBatch) /\ WF_vars(MineSequence)
  /\ WF_vars(SyncSequence) /\ WF_vars(Confirm) /\ WF_vars(ProcessReorg)
  /\ WF_vars(Tick) /\ WF_vars(L1Block)
------------------------------------------------------------------------------
(* Properties *)

Sent == pool \union Range(l1)

\* Types of the variables.
TypeOK ==
  /\ closed \in 0..NumBatches /\ checked \subseteq 1..closed
  /\ Sent \subseteq Batches \X Batches /\ Range(st) \subseteq Sent /\ pending \subseteq ids
  /\ snd.tries \in 0..(Retries - 1) /\ l1time \in 0..now /\ now <= MaxTime

\* A batch sent to L1 is closed and its sanity check has passed, across reorgs.
SentIsChecked == \A s \in Sent : s[1]..s[2] \subseteq checked

\* No sequence has batches of both sides of a fork upgrade, nor of the upgrade.
NotAcrossFork ==
  ForkUpgradeBatchNumber # 0 => \A s \in Sent : s[2] <= ForkUpgradeBatchNumber

\* A sequence fits in an L1 transaction.
WithinTxSize == \A s \in Sent : SumSize(s[1], s[2]) <= MaxTxSizeForL1

\* What getSequencesToSend collects batch by batch respects both limits.
WithinLimits == NotAcrossFork /\ WithinTxSize

\* When a sequence is sent, an L1 block and the clock have passed its last L2 block by the
\* margin.
SentAfterMargin ==
  \A s \in Sent : l1time >= Timestamp[s[2]] + L1BlockTimestampMargin

\* What is sent, although each of its conditions was read at another moment: checked
\* batches, within both limits, old enough for L1 to accept their timestamps.
SequencesSound == SentIsChecked /\ WithinLimits /\ SentAfterMargin

\* "process monitored sequences before starting a next cycle": no batch is in two
\* sequences whose transactions are pending.
PendingDisjoint == \A s, t \in pending : s # t => s[2] < t[1] \/ t[2] < s[1]

\* "we will retry some times to check that really the last sequenced batch in the SC is
\* lower that the las virtual batch": the sender halts only when it is.
HaltIsReal == [][snd'.pc = "halted" /\ snd.pc # "halted" => Sequenced(st) > Sequenced(l1)]_vars

\* Every batch, up to a fork upgrade, is virtual in the end when L1 keeps its blocks.
AllVirtual ==
  LET last == IF ForkUpgradeBatchNumber = 0 THEN NumBatches ELSE ForkUpgradeBatchNumber
  IN  [](reorgs = 0) => <>(Sequenced(st) = last)
==============================================================================

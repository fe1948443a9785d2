------------------------------ MODULE Finalizer ------------------------------
(***************************************************************************)
(* The sequencer's finalizer: finalizeBatches and the goroutines that      *)
(* process L2 blocks, store them, re-execute closed batches and look for   *)
(* forced batches (sequencer/finalizer.go, l2block.go, batch.go and        *)
(* forcedbatch.go), over the trusted-state tables and the pool statuses    *)
(* that survive a restart.                                                 *)
(*                                                                         *)
(* A state root is the sequence of what was executed to reach it: the      *)
(* timestamps of the L2 blocks and the transactions.  The executor skips a *)
(* transaction that the root already contains (its nonce is used).  The    *)
(* batch constraints are one scalar; an L2 block and a transaction have    *)
(* fixed costs.  Waiting for flush ids is the subject of FlushID.          *)
(***************************************************************************)
EXTENDS Integers, Sequences, FiniteSets, TLC, Functions

CONSTANTS
  Txs,                         \* transactions of the pool
  ForcedData,                  \* ForcedData[n]: the transactions of forced batch n
  MaxResources, BlockCost, TxCost, Margin, MaxTxsPerBatch,
  Configs,                     \* the configurations a start may find
  MaxBlocks, MaxBatches, MaxStarts,  \* bounds on optional block and batch closings, starts
  Nil

\* A block fits an empty batch and leaves room for one transaction over the margin.
ASSUME ResourceAssumption ==
  /\ {MaxResources, BlockCost, TxCost, Margin} \subseteq Nat
  /\ BlockCost + TxCost <= MaxResources
  /\ BlockCost + Margin < MaxResources

ASSUME ConfigAssumption ==
  /\ ForcedData \in Seq(Seq(Txs))
  /\ Configs \subseteq [SequentialProcessL2Block : BOOLEAN, SequentialBatchSanityCheck : BOOLEAN]
  /\ Configs # {}
  /\ {MaxTxsPerBatch, MaxBlocks, MaxBatches, MaxStarts} \subseteq Nat

VARIABLES
  db,         \* state.batch: sequence of batches, the index is the batch number
  pool,       \* pool status of each transaction; "wip" is pending with is_wip set
  l1Forced,   \* number of confirmed rows of state.forced_batch
  clock,      \* timestamp of the last opened L2 block
  starts,     \* number of starts of the process
  proc,       \* "down", "up" or "stuck" (the main goroutine called Halt)
  halted,     \* f.haltFinalizer
  fault,      \* history: how the process last stopped
  worker,     \* transactions held by the worker
  fin,        \* the finalizer: [cfg, batch, l2, toProcess, toStore, committed]
  calls,      \* active calls of closeAndOpenNewWIPBatch, the last one runs
  sanity,     \* running sanity checks
  forced,     \* [next, deadline, last]: the finalizer's forced batch fields
  reexecuted  \* history: batches re-executed with success, with their blocks then

durable == <<db, pool, l1Forced, clock>>
process == <<proc, halted, fault, starts>>
vars == <<db, pool, l1Forced, clock, starts, proc, halted, fault, worker, fin, calls,
          sanity, forced, reexecuted>>

------------------------------------------------------------------------------
(* The executor (external) *)

NonceUsed(root, t) == t \in Range(root)

\* A transaction whose nonce is already used leaves the state as it is.
ExecTx(root, t) == IF NonceUsed(root, t) THEN root ELSE Append(root, t)

\* Root after executing an L2 block.
Exec(root, b) ==
  LET r[k \in 0..Len(b.txs)] == IF k = 0 THEN Append(root, b.ts)
                                ELSE ExecTx(r[k - 1], b.txs[k])
  IN  r[Len(b.txs)]

\* Root after executing the data of a whole batch.
ExecBatch(root, blocks) ==
  LET r[k \in 0..Len(blocks)] == IF k = 0 THEN root ELSE Exec(r[k - 1], blocks[k])
  IN  r[Len(blocks)]

Used(b) == BlockCost + TxCost * Len(b.txs)

------------------------------------------------------------------------------
(* Trusted state *)

LastBatch == db[Len(db)]

Data(num) == [num |-> num, blocks |-> db[num].blocks]

\* OpenWIPBatch accepts the number after the last batch, when that one is closed.
CanOpen(num) == num = Len(db) + 1 /\ ~LastBatch.wip

\* Number of the L2 block whose execution ended in root, and of the last stored block.
BlockNumber(root) == Cardinality({i \in DOMAIN root : root[i] \notin Txs})
LastBlockNumber ==
  LET count[i \in 0..Len(db)] == IF i = 0 THEN 0 ELSE count[i - 1] + Len(db[i].blocks)
  IN  count[Len(db)]

\* Mutant: any block number is accepted.
FollowsLastBlock_Always(b) == TRUE

\* StoreL2Block needs the block before b and inserts the number of b as a primary key.
FollowsLastBlock(b) == BlockNumber(b.root) = LastBlockNumber + 1

WIPBatch(root) == [wip |-> TRUE, checked |-> FALSE, root |-> root, blocks |-> << >>,
                   resources |-> 0, forced |-> 0]

\* Mutant: the whole row is saved again, without its resources.
UpdateBatchAsChecked_Row(batches, num) ==
  [batches EXCEPT ![num].checked = TRUE, ![num].resources = 0]

UpdateBatchAsChecked(batches, num) == [batches EXCEPT ![num].checked = TRUE]

\* GetLastTrustedForcedBatchNumber
LastTrustedForced ==
  LET nums == {db[i].forced : i \in DOMAIN db}
  IN  CHOOSE n \in nums : \A m \in nums : m <= n

------------------------------------------------------------------------------
(* Work in progress: each operator maps the finalizer's fields to their new values *)

\* The Batch returned by openNewWIPBatch.
NewBatch(num, root) ==
  [num |-> num, initial |-> root, im |-> root, final |-> root, rem |-> MaxResources,
   blocks |-> 0, txs |-> 0]

\* setWIPBatch: the finalizer's view of the wip batch found in the state.
FromState(num) ==
  LET b == db[num]
      count[k \in 0..Len(b.blocks)] ==
        IF k = 0 THEN 0 ELSE count[k - 1] + Len(b.blocks[k].txs)
  IN  [num |-> num, initial |-> db[num - 1].root, im |-> b.root, final |-> b.root,
       rem |-> MaxResources - b.resources, blocks |-> Len(b.blocks),
       txs |-> count[Len(b.blocks)]]

\* processL2Block: executes the block on the final root and hands it to the store goroutine.
Process(f, b) ==
  LET root == Exec(f.batch.final, b)
  IN  [f EXCEPT !.batch.final = root,
                !.toStore = Append(@, [ts |-> b.ts, txs |-> b.txs, root |-> root])]

\* Mutant: the intermediate root is taken before the block is processed.
CloseL2Block_Early(f) ==
  LET b == [ts |-> f.l2.ts, txs |-> f.l2.txs]
      counted == [f EXCEPT !.batch.blocks = @ + 1, !.l2 = Nil]
  IN  IF f.cfg.SequentialProcessL2Block
      THEN [Process(counted, b) EXCEPT !.batch.im = f.batch.final]
      ELSE [counted EXCEPT !.toProcess = Append(@, b)]

\* closeWIPL2Block
CloseL2Block(f) ==
  LET b == [ts |-> f.l2.ts, txs |-> f.l2.txs]
      counted == [f EXCEPT !.batch.blocks = @ + 1, !.l2 = Nil]
      done == Process(counted, b)
  IN  IF f.cfg.SequentialProcessL2Block THEN [done EXCEPT !.batch.im = done.batch.final]
      ELSE [counted EXCEPT !.toProcess = Append(@, b)]

\* openNewWIPL2Block up to the resource check: the block is executed on the
\* intermediate root and its resources are subtracted when they fit.
L2BlockFits(f) == BlockCost <= f.batch.rem

OpenL2Block(f) ==
  LET root == Append(f.batch.im, clock + 1)
  IN  [f EXCEPT !.l2 = [ts |-> clock + 1, txs |-> << >>, im |-> root],
                !.batch.im = root,
                !.batch.rem = IF L2BlockFits(f) THEN @ - BlockCost ELSE @]

\* GetBestFittingTx, and the check of the reserved counters after the execution.
TxFits(f) == TxCost <= f.batch.rem


\* handleProcessTransactionResponse of a successful transaction.
AddTx(f, t) ==
  [f EXCEPT !.l2.txs = Append(@, t), !.batch.im = ExecTx(@, t),
            !.batch.rem = @ - TxCost, !.batch.txs = @ + 1]

EmptyL2Block(f) == f.l2 # Nil /\ f.l2.txs = << >>

------------------------------------------------------------------------------
(* Stopping *)

NoBatch == [cfg |-> Nil, batch |-> NewBatch(0, << >>), l2 |-> Nil, toProcess |-> << >>, toStore |-> << >>,
            committed |-> FALSE]

NoForced == [next |-> << >>, deadline |-> FALSE, last |-> 0]

\* The process ends: everything in memory is lost.
Exit(cause) ==
  /\ proc' = "down" /\ fault' = cause /\ halted' = FALSE
  /\ worker' = {} /\ fin' = NoBatch /\ calls' = << >> /\ sanity' = {}
  /\ forced' = NoForced
  /\ UNCHANGED starts
Alive == proc # "down"

\* A call of Halt that is not fatal never returns to the main goroutine.
Halt(cause) ==
  /\ proc' = "stuck" /\ halted' = TRUE /\ fault' = cause
  /\ UNCHANGED <<starts, worker, sanity, forced>>

Crash ==
  /\ Alive
  /\ starts < MaxStarts
  /\ Exit("crash")
  /\ UNCHANGED <<durable, reexecuted>>

------------------------------------------------------------------------------
(* Closing a batch: closeAndOpenNewWIPBatch *)

\* Entry of closeAndOpenNewWIPBatch with the given pending forced batches.
\* closeWIPL2Block dereferences the wip L2 block.
CloseAndOpenNewWIPBatch(f, stack, next, reopen) ==
  IF next # << >> /\ f.l2 = Nil
  THEN Exit("panic")
  ELSE /\ fin' = IF next = << >> THEN f ELSE CloseL2Block(f)
       /\ calls' = Append(stack, [pc |-> "drain", forced |-> next # << >>, last |-> 0,
                                  root |-> << >>, index |-> 1, reopen |-> reopen])
       /\ forced' = [forced EXCEPT !.next = next]
       /\ UNCHANGED <<process, worker, sanity>>

Top == calls[Len(calls)]
At(pc) == proc = "up" /\ calls # << >> /\ Top.pc = pc
SetTop(call) == [calls EXCEPT ![Len(calls)] = call]

\* batchSanityCheck succeeds: the re-execution gives the expected root.
SanityOK(num, initial, expected) == ExecBatch(initial, db[num].blocks) = expected

\* pendingL2BlocksToProcessWG.Wait() and pendingL2BlocksToStoreWG.Wait() return.
Drained(f) == f.toProcess = << >> /\ f.toStore = << >>

\* Both wait groups are zero; closeWIPBatch and the sanity check, done now or spawned.
CloseWIPBatch ==
  /\ At("drain")
  /\ Drained(fin)
  /\ LET b == fin.batch
         closed == [db EXCEPT ![b.num].wip = FALSE,
                              ![b.num].resources = MaxResources - b.rem]
         next == SetTop([Top EXCEPT !.pc = IF Top.forced THEN "forced" ELSE "open",
                                    !.last = b.num, !.root = b.final])
     IN  CASE b.blocks = 0 ->
                Halt("empty batch") /\ UNCHANGED <<db, calls, reexecuted>>
           [] b.blocks > 0 /\ ~fin.cfg.SequentialBatchSanityCheck ->
                /\ db' = closed /\ calls' = next
                /\ sanity' = sanity \union {[of |-> b.num, seen |-> Nil]}
                /\ UNCHANGED <<process, worker, forced, reexecuted>>
           [] b.blocks > 0 /\ fin.cfg.SequentialBatchSanityCheck ->
                IF SanityOK(b.num, b.initial, b.final)
                THEN /\ db' = UpdateBatchAsChecked(closed, b.num) /\ calls' = next
                     /\ reexecuted' = reexecuted \union {Data(b.num)}
                     /\ UNCHANGED <<process, worker, sanity, forced>>
                ELSE Halt("sanity") /\ db' = closed /\ UNCHANGED <<calls, reexecuted>>
  /\ UNCHANGED <<pool, l1Forced, clock, fin>>

\* openNewWIPBatch and the rest of the call: the kept wip L2 block moves to the new
\* batch, or finalizeWIPBatch opens a new one.
OpenNewWIPBatch ==
  /\ At("open")
  /\ LET num == Top.last + 1
         new == NewBatch(num, Top.root)
         f == [fin EXCEPT !.batch =
                 IF fin.l2 = Nil THEN new
                 ELSE [new EXCEPT !.im = fin.l2.im, !.rem = @ - BlockCost]]
         reopen == Top.reopen /\ fin.l2 = Nil
     IN  IF ~CanOpen(num)
         THEN Exit("fatal") /\ UNCHANGED <<db, clock>>
         ELSE /\ db' = Append(db, WIPBatch(Top.root))
              /\ fin' = IF reopen THEN OpenL2Block(f) ELSE f
              /\ clock' = IF reopen THEN clock + 1 ELSE clock
              /\ calls' = SubSeq(calls, 1, Len(calls) - 1)
              /\ UNCHANGED <<process, worker, sanity, forced>>
  /\ UNCHANGED <<pool, l1Forced, reexecuted>>

------------------------------------------------------------------------------
(* Forced batches *)

\* processForcedBatches takes nextForcedBatchesMux and clears the deadline.
BeginForcedBatches ==
  /\ At("forced")
  /\ calls' = SetTop([Top EXCEPT !.pc = "forcing"])
  /\ forced' = [forced EXCEPT !.deadline = FALSE]
  /\ UNCHANGED <<durable, process, worker, fin, sanity, reexecuted>>

\* Mutant: the number of the entry is taken, processed or not.
NextForced_Entry(i) == forced.next[i]

\* nextForcedBatchNumber: one more than the last forced batch of the trusted state.
NextForced(i) == LastTrustedForced + 1

\* processForcedBatch of the next forced batch number, for the entry of the list or for
\* one that is missing before it; an entry already processed is skipped.
ProcessForcedBatch ==
  /\ At("forcing")
  /\ Top.index <= Len(forced.next)
  /\ LET n == NextForced(Top.index)
         b == [ts |-> clock + 1, txs |-> ForcedData[n]]
         root == Exec(Top.root, b)
     IN  IF forced.next[Top.index] < n
         THEN /\ calls' = SetTop([Top EXCEPT !.index = @ + 1])
              /\ UNCHANGED <<db, clock>>
         ELSE /\ CanOpen(Top.last + 1)
              /\ db' = Append(db, [wip |-> FALSE, checked |-> TRUE, root |-> root,
                                   blocks |-> <<[ts |-> b.ts, txs |-> b.txs,
                                                 root |-> root]>>,
                                   resources |-> Used(b), forced |-> n])
              /\ clock' = clock + 1
              /\ calls' = SetTop([Top EXCEPT !.index = @ + 1, !.last = @ + 1,
                                             !.root = root])
  /\ UNCHANGED <<pool, l1Forced, process, worker, fin, sanity, forced, reexecuted>>

\* processForcedBatches returns with the given list, then initWIPL2Block opens a block on
\* the batch that was closed.
EndForcedBatches(next) ==
  LET stack == SetTop([Top EXCEPT !.pc = "open"])
      f == OpenL2Block(fin)
  IN  /\ clock' = clock + 1
      /\ IF L2BlockFits(fin)
         THEN /\ fin' = f /\ calls' = stack /\ forced' = [forced EXCEPT !.next = next]
              /\ UNCHANGED <<process, worker, sanity>>
         ELSE CloseAndOpenNewWIPBatch(f, stack, next, FALSE)
      /\ UNCHANGED <<db, pool, l1Forced, reexecuted>>

ForcedBatchesDone == At("forcing") /\ Top.index > Len(forced.next) /\ EndForcedBatches(<< >>)

\* An error of the database or of the executor: the list is kept.
ForcedBatchError ==
  /\ At("forcing")
  /\ clock < MaxBlocks
  /\ Top.index <= Len(forced.next)
  /\ EndForcedBatches(forced.next)

\* checkForcedBatches: the next confirmed forced batch is queued and the deadline armed.
CheckForcedBatches ==
  LET last == IF forced.last = 0 THEN LastTrustedForced ELSE forced.last
  IN  /\ Alive
      /\ ~\E i \in DOMAIN calls : calls[i].pc = "forcing"
      /\ last < l1Forced
      /\ forced' = [next |-> SortSeq(Append(forced.next, last + 1), <), deadline |-> TRUE,
                    last |-> last + 1]
      /\ UNCHANGED <<durable, process, worker, fin, calls, sanity, reexecuted>>

\* The synchronizer stores a forced batch that L1 confirmed (external).
L1ForcedBatch ==
  /\ l1Forced < Len(ForcedData)
  /\ l1Forced' = l1Forced + 1
  /\ UNCHANGED <<db, pool, clock, process, worker, fin, calls, sanity, forced, reexecuted>>

------------------------------------------------------------------------------
(* The loop of finalizeBatches *)

InLoop == proc = "up" /\ ~halted /\ calls = << >>

\* finalizeWIPL2Block, when the L2 block time is reached.
FinalizeWIPL2Block ==
  /\ InLoop
  /\ EmptyL2Block(fin) => clock < MaxBlocks
  /\ LET f == CloseL2Block(fin)
     IN  IF L2BlockFits(f)
         THEN fin' = OpenL2Block(f) /\ UNCHANGED <<process, worker, calls, sanity, forced>>
         ELSE CloseAndOpenNewWIPBatch(OpenL2Block(f), calls, forced.next, FALSE)
  /\ clock' = clock + 1
  /\ UNCHANGED <<db, pool, l1Forced, reexecuted>>

\* GetBestFittingTx and processTransaction: a used nonce fails the transaction.
ProcessTransaction(t) ==
  /\ InLoop
  /\ t \in worker /\ TxFits(fin)
  /\ worker' = worker \ {t}
  /\ IF NonceUsed(fin.batch.im, t)
     THEN pool' = [pool EXCEPT ![t] = "failed"] /\ UNCHANGED fin
     ELSE fin' = AddTx(fin, t) /\ UNCHANGED pool
  /\ UNCHANGED <<db, l1Forced, clock, process, calls, sanity, forced, reexecuted>>

\* ErrNoFittingTransaction or checkIfFinalizeBatch.
NoTxFits == worker # {} /\ ~TxFits(fin)
MustFinalizeBatch ==
  \/ MaxTxsPerBatch # 0 /\ fin.batch.txs >= MaxTxsPerBatch
  \/ fin.batch.rem <= Margin
  \/ forced.deadline
  \/ fin.batch.blocks > 0 /\ Len(db) < MaxBatches

FinalizeWIPBatch ==
  /\ InLoop
  /\ NoTxFits \/ MustFinalizeBatch
  /\ CloseAndOpenNewWIPBatch(IF EmptyL2Block(fin) THEN fin ELSE CloseL2Block(fin),
                             calls, forced.next, TRUE)
  /\ UNCHANGED <<durable, reexecuted>>

------------------------------------------------------------------------------
(* The other goroutines *)

\* processPendingL2Blocks, used when L2 blocks are not processed sequentially.
ProcessPendingL2Block ==
  /\ Alive
  /\ fin.toProcess # << >>
  /\ fin' = [Process(fin, Head(fin.toProcess)) EXCEPT !.toProcess = Tail(@)]
  /\ UNCHANGED <<durable, process, worker, calls, sanity, forced, reexecuted>>

\* storeL2Block: the database transaction, into whatever f.wipBatch is.  A block number
\* that does not follow the last stored one is a database error, which is fatal.
StoreL2Block ==
  /\ Alive
  /\ fin.toStore # << >> /\ ~fin.committed
  /\ LET b == Head(fin.toStore)
     IN  IF FollowsLastBlock(b)
         THEN /\ db' = [db EXCEPT ![fin.batch.num].blocks = Append(@, b),
                                  ![fin.batch.num].root = b.root,
                                  ![fin.batch.num].resources = @ + Used(b)]
              /\ fin' = [fin EXCEPT !.committed = TRUE]
              /\ UNCHANGED <<process, worker, calls, sanity, forced>>
         ELSE Exit("fatal") /\ UNCHANGED db
  /\ UNCHANGED <<pool, l1Forced, clock, reexecuted>>

\* Mutant: the pool is updated before the commit.
Committed_Early(f) == f.toStore # << >>

Committed(f) == f.committed

\* storeL2Block after the commit: the transactions are selected in the pool.
SelectTxs ==
  /\ Alive
  /\ Committed(fin)
  /\ pool' = [t \in Txs |-> IF t \in Range(Head(fin.toStore).txs) THEN "selected"
                            ELSE pool[t]]
  /\ fin' = [fin EXCEPT !.toStore = Tail(@), !.committed = FALSE]
  /\ UNCHANGED <<db, l1Forced, clock, process, worker, calls, sanity, forced, reexecuted>>

\* The goroutine of the parallel sanity check evaluates its arguments: f.wipBatch is read
\* when the goroutine runs.
ReadSanityArguments ==
  /\ Alive
  /\ \E s \in sanity :
       /\ s.seen = Nil
       /\ sanity' = (sanity \ {s}) \union
            {[s EXCEPT !.seen = [num |-> fin.batch.num, initial |-> fin.batch.initial,
                                 final |-> fin.batch.final]]}
  /\ UNCHANGED <<durable, process, worker, fin, calls, forced, reexecuted>>

\* batchSanityCheck of the parallel goroutine.
SanityCheck ==
  /\ Alive
  /\ \E s \in sanity :
       /\ s.seen # Nil
       /\ sanity' = sanity \ {s}
       /\ IF SanityOK(s.seen.num, s.seen.initial, s.seen.final)
          THEN /\ db' = UpdateBatchAsChecked(db, s.seen.num)
               /\ reexecuted' = reexecuted \union {Data(s.seen.num)}
               /\ UNCHANGED process
          ELSE /\ halted' = TRUE /\ fault' = "sanity"
               /\ UNCHANGED <<db, reexecuted, proc, starts>>
  /\ UNCHANGED <<pool, l1Forced, clock, worker, fin, calls, forced>>

\* loadFromPool: a nonce already used in the stored state drops the transaction.
LoadFromPool(t) ==
  /\ Alive
  /\ pool[t] = "pending"
  /\ IF NonceUsed(LastBatch.root, t)
     THEN pool' = [pool EXCEPT ![t] = "failed"] /\ UNCHANGED worker
     ELSE pool' = [pool EXCEPT ![t] = "wip"] /\ worker' = worker \union {t}
  /\ UNCHANGED <<db, l1Forced, clock, process, fin, calls, sanity, forced, reexecuted>>

------------------------------------------------------------------------------
(* Starting *)

\* GetNotCheckedBatches, in order.
NotChecked == SelectSeq([i \in DOMAIN db |-> i], LAMBDA i : ~db[i].wip /\ ~db[i].checked)

\* processBatchesPendingtoCheck: the initial root of a batch is the root of the batch
\* checked before it, for the first one that of the batch before it.
PendingRoot(k) == IF k = 1 THEN db[NotChecked[1] - 1].root ELSE db[NotChecked[k - 1]].root
PendingOK(k) == SanityOK(NotChecked[k], PendingRoot(k), db[NotChecked[k]].root)
CheckedAtStart ==
  {NotChecked[k] : k \in {j \in DOMAIN NotChecked : \A i \in 1..j : PendingOK(i)}}

\* Mutant: the flag is_wip is kept.
MarkWIPTxsAsPending_Keep(p) == p

MarkWIPTxsAsPending(p) == [t \in Txs |-> IF p[t] = "wip" THEN "pending" ELSE p[t]]

\* Sequencer.Start and finalizer.Start up to the loop, with the configuration found.  A failed check halts; resources
\* of the wip batch that exceed the constraints are fatal.
Start ==
  /\ proc = "down"
  /\ starts < MaxStarts
  /\ starts' = starts + 1
  /\ pool' = MarkWIPTxsAsPending(pool)
  /\ LET done == CheckedAtStart
         checked == [i \in DOMAIN db |-> [db[i] EXCEPT !.checked = @ \/ i \in done]]
         batch == IF LastBatch.wip THEN FromState(Len(db))
                  ELSE NewBatch(Len(db) + 1, LastBatch.root)
     IN  /\ reexecuted' = reexecuted \union {Data(i) : i \in done}
         /\ CASE done # Range(NotChecked) ->
                   /\ db' = checked
                   /\ proc' = "stuck" /\ halted' = TRUE /\ fault' = "startup"
                   /\ UNCHANGED <<fin, clock, calls>>
              [] done = Range(NotChecked) /\ batch.rem < 0 ->
                   /\ db' = checked
                   /\ fault' = "fatal"
                   /\ UNCHANGED <<proc, halted, fin, clock, calls>>
              [] done = Range(NotChecked) /\ batch.rem >= 0 ->
                   /\ db' = IF LastBatch.wip THEN checked
                            ELSE Append(checked, WIPBatch(LastBatch.root))
                   /\ proc' = "up"
                   /\ \E cfg \in Configs :
                        fin' = OpenL2Block([NoBatch EXCEPT !.cfg = cfg, !.batch = batch])
                   /\ clock' = clock + 1
                   /\ calls' = IF BlockCost <= batch.rem THEN << >>
                               ELSE <<[pc |-> "drain", forced |-> FALSE, last |-> 0,
                                       root |-> << >>, index |-> 1, reopen |-> FALSE]>>
                   /\ UNCHANGED <<halted, fault>>
  /\ UNCHANGED <<l1Forced, worker, sanity, forced>>

Init ==
  /\ db = <<[wip |-> FALSE, checked |-> TRUE, root |-> << >>, blocks |-> << >>,
             resources |-> 0, forced |-> 0]>>
  /\ pool = [t \in Txs |-> "pending"]
  /\ l1Forced = 0 /\ clock = 0 /\ starts = 0
  /\ proc = "down" /\ halted = FALSE /\ fault = "none"
  /\ worker = {} /\ fin = NoBatch /\ calls = << >> /\ sanity = {} /\ forced = NoForced
  /\ reexecuted = {}

Main == FinalizeWIPL2Block \/ FinalizeWIPBatch \/ CloseWIPBatch \/ OpenNewWIPBatch
        \/ BeginForcedBatches \/ ProcessForcedBatch \/ ForcedBatchesDone
        \/ \E t \in Txs : ProcessTransaction(t)

Next == Main \/ Start \/ Crash \/ ForcedBatchError \/ CheckForcedBatches \/ L1ForcedBatch
        \/ ProcessPendingL2Block \/ StoreL2Block \/ SelectTxs \/ ReadSanityArguments
        \/ SanityCheck \/ \E t \in Txs : LoadFromPool(t)

Spec == Init /\ [][Next]_vars

\* The goroutines and the loop keep running, pool transactions keep being loaded and a
\* stopped process is started again.
FairSpec ==
  /\ Spec
  /\ WF_vars(Start) /\ WF_vars(CheckForcedBatches) /\ WF_vars(L1ForcedBatch)
  /\ WF_vars(ProcessPendingL2Block) /\ WF_vars(StoreL2Block) /\ WF_vars(SelectTxs)
  /\ WF_vars(ReadSanityArguments) /\ WF_vars(SanityCheck)
  /\ WF_vars(CloseWIPBatch \/ OpenNewWIPBatch \/ BeginForcedBatches
             \/ ProcessForcedBatch \/ ForcedBatchesDone)
  /\ SF_vars(FinalizeWIPL2Block) /\ SF_vars(FinalizeWIPBatch)
  /\ \A t \in Txs : WF_vars(LoadFromPool(t)) /\ SF_vars(ProcessTransaction(t))
------------------------------------------------------------------------------
(* Properties *)

\* Types of the stored batches, the pool and the process state.
TypeOK ==
  /\ \A i \in DOMAIN db :
       /\ {db[i].wip, db[i].checked} \subseteq BOOLEAN
       /\ db[i].forced \in 0..Len(ForcedData) /\ db[i].resources \in Nat
  /\ pool \in [Txs -> {"pending", "wip", "selected", "failed"}]
  /\ worker \subseteq Txs
  /\ l1Forced \in 0..Len(ForcedData) /\ clock \in Nat /\ starts \in 0..MaxStarts
  /\ proc \in {"down", "up", "stuck"} /\ {halted, fin.committed} \subseteq BOOLEAN
  /\ fin.batch.rem \in 0..MaxResources
  /\ \A i \in DOMAIN calls : calls[i].pc \in {"drain", "forced", "forcing", "open"}

\* Root of the trusted state before block j of batch i.
RootBefore(i, j) == IF j = 1 THEN db[i - 1].root ELSE db[i].blocks[j - 1].root

\* The stored L2 blocks form one chain: each block's root is the execution of the block
\* on the root before it, across batches, crashes and forced batches, and a batch's root
\* is the root of its last block.
RootChain ==
  \A i \in 2..Len(db) :
    LET blocks == db[i].blocks
    IN  /\ \A j \in DOMAIN blocks : blocks[j].root = Exec(RootBefore(i, j), blocks[j])
        /\ db[i].root = RootBefore(i, Len(blocks) + 1)

\* Only the last batch can be a wip batch, and it is the one of the finalizer.
WIPIsLast ==
  /\ \A i \in DOMAIN db : db[i].wip => i = Len(db)
  /\ proc = "up" /\ LastBatch.wip => fin.batch.num = Len(db)

\* The trusted state is one chain of L2 blocks that only the last batch extends: no crash
\* and no forced batch leaves two batches open or a root that its blocks do not give.
TrustedChain == RootChain /\ WIPIsLast

\* The intermediate root, on which transactions are executed one by one, is always the
\* final root followed by the L2 blocks still to be processed and the wip L2 block.
ImFollowsFinal ==
  proc = "up" /\ calls = << >> =>
    fin.batch.im = Exec(ExecBatch(fin.batch.final, fin.toProcess), fin.l2)

\* State roots are in step: the stored L2 blocks form one chain, and what is executed but not
\* yet stored continues it, with L2 blocks processed in sequence or in parallel.
RootsFollow == RootChain /\ ImFollowsFinal

\* What a stored batch uses.
UsedBy(i) ==
  LET sum[k \in 0..Len(db[i].blocks)] ==
        IF k = 0 THEN 0 ELSE sum[k - 1] + Used(db[i].blocks[k])
  IN  sum[Len(db[i].blocks)]


\* A transaction is selected in the pool only if it was executed in the stored state.
SelectedIsStored == \A t \in Txs : pool[t] = "selected" => t \in Range(LastBatch.root)

\* No transaction is in the data of two stored L2 blocks.
StoredOnce ==
  \A i, k \in DOMAIN db : \A j \in DOMAIN db[i].blocks, l \in DOMAIN db[k].blocks :
    <<i, j>> # <<k, l>> =>
      Range(db[i].blocks[j].txs) \intersect Range(db[k].blocks[l].txs) = {}

\* The pool and the state agree: a selected transaction was executed in the stored state, and
\* none was executed in two L2 blocks, although crashes return transactions to the worker.
SelectedStoredOnce == SelectedIsStored /\ StoredOnce

\* The content of a closed batch never changes again.
ClosedIsFinal ==
  [][\A i \in DOMAIN db : ~db[i].wip =>
       /\ i \in DOMAIN db'
       /\ db'[i] = [db[i] EXCEPT !.checked = db'[i].checked]]_vars

\* Forced batches enter the trusted state in the order of their numbers, none twice and
\* none skipped.
ForcedInOrder ==
  LET nums == SelectSeq([i \in DOMAIN db |-> db[i].forced], LAMBDA n : n > 0)
  IN  \A k \in DOMAIN nums : nums[k] = k

\* Every transaction of the pool ends selected or failed.
TxSettled == \A t \in Txs : <>(pool[t] \in {"selected", "failed"} \/ halted)

\* "IsBatchChecked indicates if the batch is closed and checked (sequencer sanity check
\* was successful)": a closed batch marked as checked was re-executed with its final data.
CheckedWasReexecuted ==
  \A i \in 2..Len(db) :
    db[i].checked /\ ~db[i].wip /\ db[i].forced = 0 => Data(i) \in reexecuted

\* Closing the wip batch while forced batches are pending never dereferences a nil block.
NoPanic == fault # "panic"

\* A process that stopped starts again on its own trusted state.
StartupSucceeds == fault # "startup"

\* A transaction marked as failed in the pool is not part of the stored state.
FailedIsNotStored == \A t \in Txs : pool[t] = "failed" => t \notin Range(LastBatch.root)

\* A closed batch records the resources that its L2 blocks use.
ResourcesRecorded ==
  \A i \in DOMAIN db : ~db[i].wip => db[i].resources = UsedBy(i)
==============================================================================

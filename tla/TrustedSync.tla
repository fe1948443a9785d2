---------------------------- MODULE TrustedSync ----------------------------
(***************************************************************************)
(* The synchronizer of a permissionless node (synchronizer.go, l2_sync and *)
(* actions/etrog), which fills one table of batches from two sources: the  *)
(* trusted node, which serves batches that are still growing, and L1, on   *)
(* which the closed ones are sequenced and which has the last word.  One   *)
(* loop alternates the two.  Each trusted batch and each L1 block is one   *)
(* database transaction; a cache of the last batches outlives them.        *)
(*                                                                         *)
(* A batch's data is a sequence of L2 blocks and its state root the        *)
(* sequence of all blocks up to its end: what the executor computes from   *)
(* the previous root and the data.  A block may use a global exit root,    *)
(* named by the L1 block that published it.                                *)
(***************************************************************************)
EXTENDS Naturals, FiniteSets, SequencesExt

CONSTANTS MaxBatches,        \* batches of the trusted node
          MaxData,           \* L2 blocks of a batch
          MaxL1,             \* L1 blocks
          ReprocessFullBatchOnClose, AcceptEmptyClosedBatches,  \* cfg.L2Synchronization
          Faults, MaxFaults  \* the kinds of faults, and how many happen

FaultKinds == {"error", "restart", "reorg", "trusted", "forced", "empty", "lost"}

ASSUME TrustedSyncAssumption ==
  /\ {MaxBatches, MaxData, MaxL1} \subseteq Nat \ {0}
  /\ {ReprocessFullBatchOnClose, AcceptEmptyClosedBatches} \subseteq BOOLEAN
  /\ Faults \subseteq FaultKinds /\ MaxFaults \in Nat

VARIABLES
  l1,       \* the blocks of L1, those with events
  trusted,  \* the trusted node's batches
  db,       \* this node's database: rows of L1 blocks, batches, virtual batches
  cache,    \* TrustedStateMngr.Cache: batch number -> batch
  node,     \* the loop: where it is and what it holds in memory
  hist      \* faults so far, reorganisations so far

vars == <<l1, trusted, db, cache, node, hist>>

NoCache == [x \in {} |-> {}]

Fault(f) == 
  /\ f \in Faults /\ hist.faults < MaxFaults
  /\ hist' = [faults |-> hist.faults + 1,
              epoch |-> hist.epoch + IF f \in {"error", "restart", "lost"} THEN 0 ELSE 1]

-----------------------------------------------------------------------------
(* L1 and the trusted node, as this node sees them *)

\* A block of L1: a hash, whether it publishes a global exit root, and the
\* batches it sequences, the first of which has number from.
L1Block(id, ger, from, seq) == [id |-> id, ger |-> ger, from |-> from, seq |-> seq]

L2Block(n, i, ger) == [batch |-> n, pos |-> i, epoch |-> hist.epoch, ger |-> ger]

NoGER == <<0, 0>>

\* The rollup's genesis block sequences batch 1; the next block is final too.
InitialBlock == [batch |-> 1, pos |-> 1, epoch |-> 0, ger |-> NoGER]
Base == << L1Block(<<1, 0>>, FALSE, 1, <<<<InitialBlock>>>>),
           L1Block(<<2, 0>>, TRUE, 0, <<>>) >>

Num(b) == b.id[1]

\* GetLatestBatchNumber of the rollup contract.
LatestSequenced ==
  Max({l1[i].from + Len(l1[i].seq) - 1 : i \in {j \in DOMAIN l1 : l1[j].seq # <<>>}})

\* The data a chain of blocks holds for batch n.
Sequenced(chain, n) ==
  LET i == CHOOSE j \in DOMAIN chain :
             /\ chain[j].seq # <<>>
             /\ n \in chain[j].from..(chain[j].from + Len(chain[j].seq) - 1)
  IN chain[i].seq[n + 1 - chain[i].from]

\* The trusted node's state root after its batch n.
TrustedRoot(n) == FlattenSeq([i \in 1..n |-> trusted[i].data])

GERs(data) == {data[i].ger : i \in DOMAIN data} \ {NoGER}

\* trustedBatch.GlobalExitRoot: the last one its blocks use.
BatchGER(data) ==
  LET uses == {i \in DOMAIN data : data[i].ger # NoGER}
  IN IF uses = {} THEN NoGER ELSE data[Max(uses)].ger

\* A batch on which the trusted node and L1 disagree.
Conflict == {n \in 1..LatestSequenced :
               \/ n > Len(trusted)
               \/ trusted[n].data # Sequenced(l1, n)
               \/ ~trusted[n].closed}

-----------------------------------------------------------------------------
(* The database *)

LastVirtual(d) == Max({0} \cup {v.n : v \in d.virtual})

StateRoot(d, n) == IF n = 0 THEN <<>> ELSE d.batches[n].root

Batch(data, root, wip) == [data |-> data, root |-> root, wip |-> wip]

\* The global exit roots of the blocks this node has stored.
KnownGERs(d) == {d.rows[i].id : i \in {j \in DOMAIN d.rows : d.rows[j].ger}}

\* GetL1InfoTreeDataFromBatchL2Data finds every leaf the data use.
HasLeaves(d, data) == GERs(data) \subseteq KnownGERs(d)

\* OpenBatch accepts only the batch after the last one, which must be closed.
CanOpen(d, n) ==
  /\ n = Len(d.batches) + 1
  /\ d.batches = <<>> \/ ~Last(d.batches).wip

\* ResetTrustedState: the batches above n go, and their virtual rows with them.
ResetTrustedState(d, n) ==
  [d EXCEPT !.batches = SubSeq(@, 1, n), !.virtual = {v \in @ : v.n <= n}]

\* state.Reset: the blocks above num go, and their virtual rows with them.
ResetToBlock(d, num) ==
  [d EXCEPT !.rows = SelectSeq(@, LAMBDA r : Num(r) <= num),
            !.virtual = {v \in @ : v.num <= num}]
-----------------------------------------------------------------------------
(* Syncing one trusted batch: GetModeForProcessBatch and the executor's    *)
(* steps.  A result is an error, or the new database and the batch to      *)
(* cache; "generic" is any error the loop does not know.                   *)

Error(e) == [err |-> e, db |-> db, batch |-> {}]
Done(d, batch) == [err |-> "none", db |-> d, batch |-> batch]

\* FullProcess and CreateEmptyBatch, on top of old's root.  An empty batch is
\* not executed: its root is the one the trusted node tells.
FullProcess(d, n, t, old) ==
  LET root == IF t.data = <<>> THEN TrustedRoot(n) ELSE old \o t.data
      new == Batch(t.data, root, ~t.closed)
  IN IF CanOpen(d, n) /\ HasLeaves(d, t.data) /\ root = TrustedRoot(n)
     THEN Done([d EXCEPT !.batches = Append(@, new)], new)
     ELSE Error("generic")

\* ReProcess never deletes a virtual batch.
ReProcess(d, n, t, old) ==
  IF LastVirtual(d) >= n THEN Error("missing")
  ELSE FullProcess(ResetTrustedState(d, n - 1), n, t, old)

\* CloseBatch: a batch that is closed already must be the expected one.
CloseBatch(d, n, new) ==
  IF n # Len(d.batches) THEN Error("generic")
  ELSE IF d.batches[n].wip \/ d.batches[n] = new
       THEN Done([d EXCEPT !.batches[n] = new], new)
       ELSE Error("generic")

\* IncrementalProcess executes only the new blocks, on the root that it holds.
\* UpdateWIPBatch rewrites the row without a look at its wip column.
IncrementalProcess(d, n, t, cur, close) ==
  LET part == SubSeq(t.data, Len(cur.data) + 1, Len(t.data))
      root == cur.root \o part
      new == Batch(t.data, root, ~close)
  IN IF ~HasLeaves(d, part) THEN Error("missing")
     ELSE IF root # TrustedRoot(n) THEN Error("generic")
     ELSE IF close THEN CloseBatch(d, n, new)
     ELSE Done([d EXCEPT !.batches[n] = Batch(t.data, root, @.wip)], new)

\* NothingProcess: the same data; what differs may only be the root.
NothingProcess(d, n, t, cur, old, close) ==
  IF cur.root # TrustedRoot(n)
  THEN IF cur.wip THEN ReProcess(d, n, t, old) ELSE Error("generic")
  ELSE IF close THEN CloseBatch(d, n, [cur EXCEPT !.wip = FALSE])
  ELSE Done(d, cur)

\* ThereAreNewBatchL2Data fails unless the trusted data extend ours.
ThereAreNewBatchL2Data(old, new) == IsPrefix(old, new)

\* Mutant: a batch is not executed again when it closes.
ProcessTrustedBatch_NoReprocess(n, t, cur, old) ==
  LET new == CHOOSE c \in cur : TRUE
      same == new.data = t.data
      close == t.closed /\ (same => new.wip)
  IN IF t.data = <<>> /\ t.closed /\ ~AcceptEmptyClosedBatches
       THEN Error("generic")
     ELSE IF cur = {} THEN FullProcess(db, n, t, old)
     ELSE IF ~ThereAreNewBatchL2Data(new.data, t.data) THEN Error("generic")
     ELSE IF same THEN NothingProcess(db, n, t, new, old, close)
     ELSE IncrementalProcess(db, n, t, new, close)

\* cur is {} when the batch is not in the database, old the previous root.
ProcessTrustedBatch(n, t, cur, old) ==
  LET new == CHOOSE c \in cur : TRUE
      same == new.data = t.data
      close == t.closed /\ (same => new.wip)
  IN IF t.data = <<>> /\ t.closed /\ ~AcceptEmptyClosedBatches
       THEN Error("generic")
     ELSE IF cur = {} THEN FullProcess(db, n, t, old)
     ELSE IF ~ThereAreNewBatchL2Data(new.data, t.data) THEN Error("generic")
     ELSE IF close /\ ReprocessFullBatchOnClose THEN ReProcess(db, n, t, old)
     ELSE IF same THEN NothingProcess(db, n, t, new, old, close)
     ELSE IncrementalProcess(db, n, t, new, close)

\* CheckL1SyncGlobalExitRootEnoughToProcessBatch: the trusted node tells the
\* L1 block of a root that this node lacks.
CheckL1Sync(data) ==
  LET ger == BatchGER(data)
  IN IF ger = NoGER \/ ger \in KnownGERs(db) THEN "none"
     ELSE IF ger[1] > Num(Last(db.rows)) THEN "missing" ELSE "fatal"

-----------------------------------------------------------------------------
(* Storing the batches that an L1 block sequences: ProcessSequenceBatches *)

Stored(d, n, data) ==
  [d EXCEPT !.batches = Append(@, Batch(data, StateRoot(d, n - 1) \o data, FALSE))]

\* Mutant: a batch with L1's data is not compared further.
checkTrustedState_DataOnly(d, n, data) == d.batches[n].data # data

\* checkTrustedState: L1 and the trusted batch differ, or it is not closed.
checkTrustedState(d, n, data) ==
  d.batches[n] # Batch(data, StateRoot(d, n - 1) \o data, FALSE)


\* One batch of the loop.  acc: the transaction's database, whether it can go
\* on, and whether the cache has been cleared.
SequenceBatch(acc, num, n, data) ==
  LET d == acc.db
      found == n <= Len(d.batches)
      reset == found /\ checkTrustedState(d, n, data)
      base == IF reset THEN ResetTrustedState(d, n - 1) ELSE d
      new == IF found /\ ~reset THEN d ELSE Stored(base, n, data)
  IN [ok |-> /\ acc.ok /\ HasLeaves(d, data)
             /\ (found /\ ~reset) \/ CanOpen(base, n)
             /\ \A v \in new.virtual : v.n # n,
      clean |-> acc.clean \/ reset,
      db |-> IF ~acc.ok THEN d
             ELSE [new EXCEPT !.virtual = @ \cup {[n |-> n, num |-> num]}]]

ProcessSequenceBatches(d, b) ==
  FoldLeft(LAMBDA acc, i : SequenceBatch(acc, Num(b), b.from + i - 1, b.seq[i]),
           [ok |-> TRUE, clean |-> FALSE, db |-> d],
           [i \in DOMAIN b.seq |-> i])

-----------------------------------------------------------------------------
Loop == [pc |-> "loop", last |-> node.last, n |-> 0, to |-> 0]

\* The synchronizer starts with the last block and the last batches stored.
Init ==
  /\ l1 = Base
  /\ trusted = << [data |-> <<InitialBlock>>, closed |-> TRUE],
                  [data |-> <<>>, closed |-> FALSE] >>
  /\ db = [rows |-> Base,
           batches |-> <<Batch(<<InitialBlock>>, <<InitialBlock>>, FALSE)>>,
           virtual |-> {[n |-> 1, num |-> 1]}]
  /\ cache = NoCache
  /\ node = [pc |-> "loop", last |-> Last(Base).id, n |-> 0, to |-> 0]
  /\ hist = [faults |-> 0, epoch |-> 0]

\* The trusted state is synced only when L1 has no batch that is missing here.
Iterate ==
  /\ node.pc = "loop"
  /\ node' = IF Len(db.batches) >= LatestSequenced
             THEN [node EXCEPT !.pc = "trusted", !.n = Len(db.batches), !.to = Len(trusted)]
             ELSE [node EXCEPT !.pc = "l1"]
  /\ UNCHANGED <<l1, trusted, db, cache, hist>>

\* Mutant: every error restarts the loop, also one that waits for L1.
TrustedFails_Restart(err, d) ==
  /\ cache' = NoCache
  /\ db' = d
  /\ node' = Loop

\* The loop gives up a batch: some errors let it sync L1, others restart it.
TrustedFails(err, d) ==
  /\ cache' = NoCache
  /\ db' = d
  /\ node' = [Loop EXCEPT !.pc = IF err = "generic" THEN "loop" ELSE "l1"]

\* syncTrustedBatchesToFrom, one batch, after which the loop ends when the batch
\* is not closed.  Entries of the cache that kept does not hold are outdated.
SyncTrustedBatch(kept) ==
  LET n == node.n
      t == trusted[n]
      read == [x \in (DOMAIN cache \cap kept) \cup ({n - 1, n} \cap DOMAIN db.batches) |->
                 IF x \in DOMAIN cache \cap kept THEN cache[x] ELSE db.batches[x]]
  IN /\ node.pc = "trusted" /\ n <= node.to /\ n <= Len(trusted)
     /\ \E status \in {read}, check \in {CheckL1Sync(t.data)} :
        \E res \in {ProcessTrustedBatch(n, t,
                       IF n \in DOMAIN status THEN {status[n]} ELSE {},
                       IF n = 1 THEN <<>> ELSE status[n - 1].root)} :
          IF check = "fatal"
            THEN TrustedFails("fatal", ResetToBlock(db, BatchGER(t.data)[1] - 1))
          ELSE IF check = "missing" THEN TrustedFails("missing", db)
          ELSE IF res.err # "none" THEN TrustedFails(res.err, db)
          ELSE /\ db' = res.db
               /\ cache' = [x \in DOMAIN status \cup {n} |->
                             IF x = n THEN res.batch ELSE status[x]]
               /\ node' = IF t.closed THEN [node EXCEPT !.n = n + 1]
                          ELSE [Loop EXCEPT !.pc = "l1"]
     /\ UNCHANGED <<l1, trusted, hist>>

\* All the batches that the trusted node had are synced.
TrustedSynced ==
  /\ node.pc = "trusted" /\ node.n > node.to
  /\ node' = [Loop EXCEPT !.pc = "l1"]
  /\ UNCHANGED <<l1, trusted, db, cache, hist>>

\* A call to the trusted node, or the transaction, fails; so does a request for
\* a batch that the trusted node no longer has.
SyncTrustedError ==
  /\ node.pc = "trusted" /\ node.n <= node.to
  /\ IF node.n > Len(trusted) THEN UNCHANGED hist ELSE Fault("error")
  /\ TrustedFails("generic", db)
  /\ UNCHANGED <<l1, trusted>>

-----------------------------------------------------------------------------
(* syncBlocksSequential *)

Synced == node.last[1] <= Len(l1) /\ l1[node.last[1]].id = node.last

\* checkReorg: the newest stored block, after the last one, that is still on L1.
LastOK ==
  LET older == SubSeq(db.rows, 1, Len(db.rows) - 1)
  IN Last(SelectSeq(older, LAMBDA r : Num(r) <= Len(l1) /\ l1[Num(r)].id = r.id))

ResetState ==
  /\ node.pc = "l1" /\ node.last[1] <= Len(l1) /\ ~Synced
  /\ db' = ResetToBlock(db, Num(LastOK))
  /\ node' = [Loop EXCEPT !.last = LastOK.id]
  /\ UNCHANGED <<l1, trusted, cache, hist>>

\* Any error in the L1 sync: the cache goes, and the last block is read again.
L1Fails ==
  /\ cache' = NoCache
  /\ node' = [Loop EXCEPT !.last = Last(db.rows).id]
  /\ UNCHANGED <<l1, trusted, db>>

\* L1 no longer has the last block's number, or a call or the transaction fails.
SyncBlocksError ==
  /\ node.pc = "l1"
  /\ IF node.last[1] > Len(l1) THEN UNCHANGED hist ELSE Fault("error")
  /\ L1Fails

\* processBlock in a transaction of its own.  With the fault "lost", L1's
\* provider does not return the block's exit root event.
ProcessBlock(b) ==
  \E res \in {ProcessSequenceBatches([db EXCEPT !.rows = Append(@, b)], b)} :
    IF res.ok
    THEN /\ db' = res.db
         /\ cache' = IF res.clean THEN NoCache ELSE cache
         /\ node' = [node EXCEPT !.last = b.id]
         /\ UNCHANGED <<l1, trusted>>
    ELSE L1Fails

SyncBlock ==
  /\ node.pc = "l1" /\ Synced /\ node.last[1] < Len(l1)
  /\ LET b == l1[node.last[1] + 1]
     IN \E ger \in BOOLEAN :
          /\ ger => b.ger
          /\ IF ger = b.ger THEN UNCHANGED hist ELSE Fault("lost")
          /\ \E block \in {[b EXCEPT !.ger = ger]} : ProcessBlock(block)

BlocksSynced ==
  /\ node.pc = "l1" /\ Synced /\ node.last[1] = Len(l1)
  /\ node' = Loop
  /\ UNCHANGED <<l1, trusted, db, cache, hist>>

Restart ==
  /\ Fault("restart")
  /\ cache' = NoCache
  /\ node' = [pc |-> "loop", last |-> Last(db.rows).id, n |-> 0, to |-> 0]
  /\ UNCHANGED <<l1, trusted, db>>

-----------------------------------------------------------------------------
(* The trusted node and L1 *)

\* A new L2 block may use the newest exit root on L1.
AddL2Block ==
  LET n == Len(trusted)
      gers == {l1[i].id : i \in {j \in DOMAIN l1 : l1[j].ger}}
      newest == CHOOSE g \in gers : \A h \in gers : h[1] <= g[1]
  IN /\ ~trusted[n].closed /\ Len(trusted[n].data) < MaxData
     /\ \E g \in {NoGER, newest} :
          trusted' = [trusted EXCEPT ![n].data =
                        Append(@, L2Block(n, Len(@) + 1, g))]
     /\ UNCHANGED <<l1, db, cache, node, hist>>

CloseTrustedBatch ==
  /\ ~Last(trusted).closed /\ Last(trusted).data # <<>>
  /\ trusted' = [trusted EXCEPT ![Len(trusted)].closed = TRUE]
  /\ UNCHANGED <<l1, db, cache, node, hist>>

OpenTrustedBatch ==
  /\ Last(trusted).closed /\ Len(trusted) < MaxBatches
  /\ trusted' = Append(trusted, [data |-> <<>>, closed |-> FALSE])
  /\ UNCHANGED <<l1, db, cache, node, hist>>

\* The trusted node loses the batches from some number on, none of them on L1.
TrustedReorg ==
  /\ Fault("trusted")
  /\ \E n \in (LatestSequenced + 1)..Len(trusted) :
       trusted' = SubSeq(trusted, 1, n - 1) \o <<[data |-> <<>>, closed |-> FALSE]>>
  /\ UNCHANGED <<l1, db, cache, node>>

Mined(ger, from, seq) == Append(l1, L1Block(<<Len(l1) + 1, hist.epoch>>, ger, from, seq))

UpdateGER ==
  /\ Len(l1) < MaxL1
  /\ l1' = Mined(TRUE, 0, <<>>)
  /\ UNCHANGED <<trusted, db, cache, node, hist>>

\* The trusted node's next closed batches, up to two, are sequenced.
SequenceBatches ==
  /\ Len(l1) < MaxL1 /\ Conflict = {}
  /\ \E k \in 1..2 :
       LET from == LatestSequenced + 1
           ns == from..(from + k - 1)
       IN /\ \A n \in ns : n <= Len(trusted) /\ trusted[n].closed
          /\ l1' = Mined(FALSE, from, [i \in 1..k |-> trusted[from + i - 1].data])
  /\ UNCHANGED <<trusted, db, cache, node, hist>>

\* Somebody else sequences a forced batch, which may be empty.
ForceBatch ==
  /\ Len(l1) < MaxL1 /\ Conflict = {}
  /\ LET n == LatestSequenced + 1
     IN /\ n <= MaxBatches
        /\ \E kind \in {"forced", "empty"} :
             /\ Fault(kind)
             /\ l1' = Mined(FALSE, n, << IF kind = "empty" THEN <<>>
                                        ELSE <<[L2Block(n, 0, NoGER) EXCEPT !.epoch = 0]>> >>)
  /\ UNCHANGED <<trusted, db, cache, node>>

\* The trusted node gives up what contradicts L1.
AdoptL1 ==
  /\ \E cs \in {Conflict} : \E n \in cs :
       /\ \A m \in cs : n <= m
       /\ trusted' = SubSeq(trusted, 1, n - 1)
                       \o <<[data |-> Sequenced(l1, n), closed |-> TRUE]>>
  /\ UNCHANGED <<l1, db, cache, node, hist>>

\* L1 drops its newest blocks, but none that is final: the trusted node uses
\* only exit roots of final blocks.
L1Reorg ==
  /\ Fault("reorg")
  /\ \E k \in Len(Base)..(Len(l1) - 1) :
       /\ \A i \in DOMAIN trusted : \A g \in GERs(trusted[i].data) : g[1] <= k
       /\ l1' = SubSeq(l1, 1, k)
  /\ UNCHANGED <<trusted, db, cache, node>>

-----------------------------------------------------------------------------
Node ==
  \/ Iterate \/ TrustedSynced \/ ResetState \/ SyncBlock \/ BlocksSynced
  \/ \E kept \in SUBSET DOMAIN cache : SyncTrustedBatch(kept)
  \/ node.pc = "trusted" /\ node.n > Len(trusted) /\ SyncTrustedError
  \/ node.pc = "l1" /\ node.last[1] > Len(l1) /\ SyncBlocksError

Next ==
  \/ Node \/ SyncTrustedError \/ SyncBlocksError \/ Restart
  \/ AddL2Block \/ CloseTrustedBatch \/ OpenTrustedBatch \/ TrustedReorg
  \/ UpdateGER \/ SequenceBatches \/ ForceBatch \/ AdoptL1 \/ L1Reorg

Spec == /\ Init /\ [][Next]_vars
        /\ WF_vars(Node) /\ WF_vars(AdoptL1) /\ WF_vars(UpdateGER \/ SequenceBatches)

-----------------------------------------------------------------------------
(* Properties *)

\* Whatever the trusted node answers, and however its batches are interleaved
\* with those of L1, a closed batch in the database has the state root that the
\* executor computes from its data on the previous batch's root, although the
\* incremental steps and the empty batches of l2_sync start from roots that
\* the trusted node told; and only the last batch is work in progress.
BatchesChain ==
  \A n \in DOMAIN db.batches :
    IF db.batches[n].wip THEN n = Len(db.batches)
    ELSE db.batches[n].root = StateRoot(db, n - 1) \o db.batches[n].data

\* The virtual batches have no gaps, and each of them is closed with the data
\* that the L1 block the node stored sequences, whatever was synced from the
\* trusted node before or after: ProcessSequenceBatches replaces what differs,
\* ReProcess never deletes it, and a reset of the L1 blocks takes the virtual
\* rows with it.
VirtualFollowsL1 ==
  /\ {v.n : v \in db.virtual} = 1..Cardinality(db.virtual)
  /\ \A v \in db.virtual :
       /\ db.batches[v.n].data = Sequenced(db.rows, v.n)
       /\ ~db.batches[v.n].wip

\* The cache of trusted batches never differs from the rows of the database:
\* the L1 sync that rewrites them clears it, and so does every failure.
CacheFollows ==
  \A n \in DOMAIN cache : n \in DOMAIN db.batches /\ cache[n] = db.batches[n]

InSync ==
  /\ [n \in DOMAIN db.batches |-> [data |-> db.batches[n].data, closed |-> ~db.batches[n].wip]]
       = trusted
  /\ Last(db.rows).id = Last(l1).id

\* The node holds a batch that the trusted node has given up, and L1 has none
\* beyond: the error restarts the loop before its L1 sync.
Forked ==
  /\ Len(db.batches) >= LatestSequenced
  /\ \/ Len(db.batches) > Len(trusted)
     \/ \E n \in DOMAIN db.batches : ~IsPrefix(db.batches[n].data, trusted[n].data)

\* Once faults end, and while L1 goes on, the node's batches and blocks become
\* those of the trusted node and of L1, for ever, unless it is forked: an exit
\* root that it lacks always lets the loop sync L1.
CatchesUp == <>[](InSync \/ Forked)

\* The same without the exception.  It fails: after the trusted node has lost a
\* batch, or L1 has replaced one, `continue` in Sync skips the L1 sync that
\* would repair the node, until L1 sequences one batch more.
AlwaysCatchesUp == <>[]InSync

=============================================================================

------------------------------ MODULE Aggregator ------------------------------
(***************************************************************************)
(* The aggregator (aggregator/aggregator.go, batch.go, final.go) over the  *)
(* table state.batch_proof (state/pgstatestorage/proof.go).  Each prover   *)
(* connection runs the loop of Channel: build the final proof of a stored  *)
(* proof, else aggregate two stored proofs, else prove the next virtual    *)
(* batch.  A row with generating_since set is locked.  sendFinalProof      *)
(* sends final proofs to L1 one at a time, cleanupLockedProofs deletes     *)
(* rows that are locked for too long.  The blob proofs, whose functions    *)
(* are empty, are left out.                                                *)
(***************************************************************************)
EXTENDS Naturals, FiniteSets

CONSTANTS
  Provers,
  NumBatches,    \* virtual batches 1..NumBatches
  Sequences,     \* state.sequences: set of <<from, to>>
  BlobInnerNum,  \* blob_inner_num of new rows; AddBatchProof leaves it NULL
  Nil,           \* NULL
  MaxErrors, MaxCleanups, MaxCrashes, \* bounds on database errors, cleanups and crashes
  MaxFaults                           \* bound on all of them

ASSUME AggregatorAssumption ==
  /\ {NumBatches, MaxErrors, MaxCleanups, MaxCrashes, MaxFaults} \subseteq Nat
  /\ Sequences \subseteq (1..NumBatches) \X (1..NumBatches)
  /\ Nil \notin Nat

VARIABLES
  rows,       \* state.batch_proof: [from, to, blob, gen, proof]
  prover,     \* per connection: [pc, from, to, mid, own, last]
  sender,     \* sendFinalProof: [pc, from, to]
  verifying,  \* a.verifyingProof
  tx,         \* the monitored transaction of the aggregator, or Nil
  l1,         \* last verified batch of the contract
  synced,     \* last verified batch of the state
  up,         \* the aggregator serves provers
  errors, cleanups, crashes

vars == <<rows, prover, sender, verifying, tx, l1, synced, up, errors, cleanups, crashes>>
chain == <<tx, l1, synced>>
bounds == <<up, errors, cleanups, crashes>>
MayFail == errors + cleanups + crashes < MaxFaults

NoJob == [pc |-> "idle", from |-> 0, to |-> 0, mid |-> 0, own |-> FALSE, last |-> 0]
NoMsg == [pc |-> "idle", from |-> 0, to |-> 0]

------------------------------------------------------------------------------
(* state.batch_proof *)

Row(from, to, gen) == [from |-> from, to |-> to, blob |-> BlobInnerNum, gen |-> gen,
                       proof |-> from < to]

\* UpdateBatchProof: nothing happens when the row is gone.
UpdateBatchProof(R, from, to, gen) ==
  {IF r.from = from /\ r.to = to THEN [r EXCEPT !.gen = gen, !.proof = TRUE] ELSE r : r \in R}

DeleteBatchProofs(R, from, to) == {r \in R : ~(from <= r.from /\ r.to <= to)}

CleanupBatchProofs(R, to) == {r \in R : r.to > to}

\* A batch that is proved or is being proved.
Covered(n) == \E r \in rows : r.from <= n /\ n <= r.to

\* GetVirtualBatchToProve
BatchesToProve == {n \in synced + 1..NumBatches : ~Covered(n)}

\* GetBatchProofsToAggregate: the first pair of adjacent unlocked proofs.  NULL is not
\* equal to NULL.
Pairs == {pair \in rows \X rows :
            /\ pair[1].to = pair[2].from - 1
            /\ pair[1].blob # Nil /\ pair[1].blob = pair[2].blob
            /\ ~pair[1].gen /\ ~pair[2].gen /\ pair[1].proof /\ pair[2].proof}
FirstPair == CHOOSE pair \in Pairs : \A other \in Pairs : pair[1].from <= other[1].from

\* CheckProofContainsCompleteSequences
CompleteSequences(from, to) == (\E s \in Sequences : s[1] = from) /\ (\E s \in Sequences : s[2] = to)

\* Mutant: locked proofs are taken too.
ProofsReadyForFinal_Locked(last) == {r \in rows : r.from = last + 1 /\ CompleteSequences(r.from, r.to)}

\* GetProofReadyForFinal
ProofsReadyForFinal(last) ==
  {r \in rows : r.from = last + 1 /\ ~r.gen /\ CompleteSequences(r.from, r.to)}

Init ==
  /\ rows = {} /\ prover = [p \in Provers |-> NoJob] /\ sender = NoMsg /\ verifying = FALSE
  /\ tx = Nil /\ l1 = 0 /\ synced = 0
  /\ up = TRUE /\ errors = 0 /\ cleanups = 0 /\ crashes = 0

\* The prover p is at pc and goes on to next.
At(p, pc) == up /\ prover[p].pc = pc
Goto(p, next) == prover' = [prover EXCEPT ![p].pc = next]
Done(p) == prover' = [prover EXCEPT ![p] = NoJob]

------------------------------------------------------------------------------
(* tryBuildFinalProof, without a proof (own = FALSE) or with the one just generated *)

\* canVerifyProof: the time is reached and no verification is in progress.
BeginFinal(p) ==
  /\ At(p, "idle") /\ ~verifying
  /\ Goto(p, "sync")
  /\ UNCHANGED <<rows, sender, verifying, chain, bounds>>

SkipFinal(p) ==
  /\ At(p, "idle")
  /\ Goto(p, "aggregate")
  /\ UNCHANGED <<rows, sender, verifying, chain, bounds>>

\* isSynced holds, then the last verified batch is read.
ReadLastVerified(p) ==
  /\ At(p, "sync") /\ synced >= l1
  /\ prover' = [prover EXCEPT ![p].last = synced,
                              ![p].pc = IF prover[p].own THEN "eligible" ELSE "lock"]
  /\ UNCHANGED <<rows, sender, verifying, chain, bounds>>

\* getAndLockProofReadyForFinal
LockProofReadyForFinal(p) ==
  /\ At(p, "lock")
  /\ LET ready == ProofsReadyForFinal(prover[p].last)
     IN  \/ /\ ready = {}
            /\ Goto(p, "aggregate")
            /\ UNCHANGED rows
         \/ \E r \in ready :
              /\ rows' = UpdateBatchProof(rows, r.from, r.to, TRUE)
              /\ prover' = [prover EXCEPT ![p] = [@ EXCEPT !.pc = "final", !.from = r.from,
                                                          !.to = r.to]]
  /\ UNCHANGED <<sender, verifying, chain, bounds>>

\* Mutant: a proof of later batches is eligible.
Eligible_Later(from, to, next) == next <= to /\ CompleteSequences(from, to)

Eligible(from, to, next) == from <= next /\ next <= to /\ CompleteSequences(from, to)

\* validateEligibleFinalProof: a proof of verified batches is deleted.
ValidateEligible(p) ==
  /\ At(p, "eligible")
  /\ LET j == prover[p]
         next == j.last + 1
     IN  /\ rows' = IF j.to < next THEN DeleteBatchProofs(rows, j.from, j.to) ELSE rows
         /\ Goto(p, IF Eligible(j.from, j.to, next) THEN "final" ELSE "store")
  /\ UNCHANGED <<sender, verifying, chain, bounds>>

\* buildFinalProof succeeds.
FinalProofBuilt(p) ==
  /\ At(p, "final")
  /\ Goto(p, "send")
  /\ UNCHANGED <<rows, sender, verifying, chain, bounds>>

\* buildFinalProof fails: a proof taken from the table is unlocked.
FinalProofFailed(p) ==
  /\ At(p, "final")
  /\ LET j == prover[p]
     IN  IF j.own THEN Goto(p, "store") /\ UNCHANGED rows
         ELSE /\ rows' = UpdateBatchProof(rows, j.from, j.to, FALSE)
              /\ Goto(p, "aggregate")
  /\ UNCHANGED <<sender, verifying, chain, bounds>>

\* The final proof has not been built: the generated proof is stored and unlocked.
StoreProof(p) ==
  /\ At(p, "store")
  /\ rows' = UpdateBatchProof(rows, prover[p].from, prover[p].to, FALSE)
  /\ Done(p)
  /\ UNCHANGED <<sender, verifying, chain, bounds>>

------------------------------------------------------------------------------
(* tryAggregateBatchProofs and tryGenerateBatchProof *)

\* getAndLockBatchProofsToAggregate
LockProofsToAggregate(p) ==
  /\ At(p, "aggregate")
  /\ IF Pairs = {}
     THEN Goto(p, "generate") /\ UNCHANGED rows
     ELSE LET a == FirstPair[1]
              b == FirstPair[2]
          IN  /\ rows' = UpdateBatchProof(UpdateBatchProof(rows, a.from, a.to, TRUE),
                                          b.from, b.to, TRUE)
              /\ prover' = [prover EXCEPT ![p] = [NoJob EXCEPT !.pc = "aggregating",
                                                    !.from = a.from, !.mid = a.to, !.to = b.to]]
  /\ UNCHANGED <<sender, verifying, chain, bounds>>

\* The aggregated proof replaces the proofs of its range, in one transaction.
ProofsAggregated(p) ==
  /\ At(p, "aggregating")
  /\ LET j == prover[p]
     IN  /\ rows' = DeleteBatchProofs(rows, j.from, j.to) \union {Row(j.from, j.to, TRUE)}
         /\ \/ ~verifying /\ prover' = [prover EXCEPT ![p].pc = "sync", ![p].own = TRUE]
            \/ prover' = [prover EXCEPT ![p].pc = "store", ![p].own = TRUE]
  /\ UNCHANGED <<sender, verifying, chain, bounds>>

\* unlockBatchProofsToAggregate; the loop goes on to generate.
AggregationFailed(p) ==
  /\ At(p, "aggregating")
  /\ LET j == prover[p]
     IN  rows' = UpdateBatchProof(UpdateBatchProof(rows, j.from, j.mid, FALSE),
                                  j.mid + 1, j.to, FALSE)
  /\ Goto(p, "generate")
  /\ UNCHANGED <<sender, verifying, chain, bounds>>

\* getAndLockBatchToProve
LockBatchToProve(p) ==
  /\ At(p, "generate")
  /\ IF BatchesToProve = {}
     THEN Done(p) /\ UNCHANGED rows
     ELSE LET n == CHOOSE n \in BatchesToProve : \A m \in BatchesToProve : n <= m
          IN  /\ rows' = rows \union {Row(n, n, TRUE)}
              /\ prover' = [prover EXCEPT ![p] = [NoJob EXCEPT !.pc = "generating",
                                                    !.from = n, !.to = n]]
  /\ UNCHANGED <<sender, verifying, chain, bounds>>

\* The batch proof is generated: tryBuildFinalProof with it, when that is possible.
BatchProofGenerated(p) ==
  /\ At(p, "generating")
  /\ \/ ~verifying /\ prover' = [prover EXCEPT ![p].pc = "sync", ![p].own = TRUE]
     \/ prover' = [prover EXCEPT ![p].pc = "store", ![p].own = TRUE]
  /\ UNCHANGED <<rows, sender, verifying, chain, bounds>>

BatchProofFailed(p) ==
  /\ At(p, "generating")
  /\ rows' = DeleteBatchProofs(rows, prover[p].from, prover[p].to)
  /\ Done(p)
  /\ UNCHANGED <<sender, verifying, chain, bounds>>

------------------------------------------------------------------------------
(* sendFinalProof *)

\* The unbuffered channel a.finalProof.
ReceiveFinalProof(p) ==
  /\ At(p, "send") /\ sender.pc = "idle"
  /\ sender' = [pc |-> "start", from |-> prover[p].from, to |-> prover[p].to]
  /\ IF prover[p].own THEN Done(p) ELSE Goto(p, "aggregate")
  /\ UNCHANGED <<rows, verifying, chain, bounds>>

StartProofVerification ==
  /\ up /\ sender.pc = "start"
  /\ verifying' = TRUE
  /\ sender' = [sender EXCEPT !.pc = "add"]
  /\ UNCHANGED <<rows, prover, chain, bounds>>

\* GetBatchByNumber fails: the row stays locked.
FinalBatchError ==
  /\ up /\ sender.pc = "add"
  /\ MayFail /\ errors < MaxErrors /\ errors' = errors + 1
  /\ verifying' = FALSE /\ sender' = NoMsg
  /\ UNCHANGED <<rows, prover, chain, up, cleanups, crashes>>

\* The contract accepts a proof that starts at a verified batch and verifies new ones;
\* otherwise the gas estimation of EthTxManager.Add fails and the row is unlocked.
Accepted(from, to) == from - 1 <= l1 /\ l1 < to

AddMonitoredTx ==
  /\ up /\ sender.pc = "add"
  /\ IF Accepted(sender.from, sender.to)
     THEN /\ tx' = [from |-> sender.from, to |-> sender.to]
          /\ sender' = [sender EXCEPT !.pc = "wait"]
          /\ UNCHANGED <<rows, verifying>>
     ELSE /\ rows' = UpdateBatchProof(rows, sender.from, sender.to, FALSE)
          /\ verifying' = FALSE /\ sender' = NoMsg
          /\ UNCHANGED tx
  /\ UNCHANGED <<prover, l1, synced, bounds>>

\* L1 executes the transaction; the synchronizer reads it (external).
VerifyBatches ==
  /\ tx # Nil /\ l1 < tx.to
  /\ l1' = tx.to
  /\ UNCHANGED <<rows, prover, sender, verifying, tx, synced, bounds>>

Synchronize ==
  /\ synced < l1
  /\ synced' = l1
  /\ UNCHANGED <<rows, prover, sender, verifying, tx, l1, bounds>>

\* handleMonitoredTxResult, in sendFinalProof or before the aggregator starts to serve.
HandleMonitoredTx ==
  /\ tx # Nil
  /\ synced >= tx.to /\ synced >= l1
  /\ rows' = CleanupBatchProofs(rows, tx.to)
  /\ tx' = Nil
  /\ sender' = NoMsg /\ verifying' = FALSE
  /\ UNCHANGED <<prover, l1, synced, bounds>>

------------------------------------------------------------------------------
(* Cleanup, crash, start *)

\* CleanupLockedBatchProofs: a row has been locked for longer than the threshold.
CleanupLockedProofs ==
  /\ up
  /\ MayFail /\ cleanups < MaxCleanups /\ cleanups' = cleanups + 1
  /\ \E r \in rows : r.gen /\ rows' = rows \ {r}
  /\ UNCHANGED <<prover, sender, verifying, chain, up, errors, crashes>>

Crash ==
  /\ up /\ MayFail /\ crashes < MaxCrashes
  /\ crashes' = crashes + 1 /\ up' = FALSE
  /\ prover' = [p \in Provers |-> NoJob] /\ sender' = NoMsg /\ verifying' = FALSE
  /\ UNCHANGED <<rows, chain, errors, cleanups>>


DeleteUngeneratedBatchProofs(R) == {r \in R : ~r.gen}

Start ==
  /\ ~up /\ tx = Nil
  /\ up' = TRUE
  /\ rows' = DeleteUngeneratedBatchProofs(rows)
  /\ UNCHANGED <<prover, sender, verifying, chain, errors, cleanups, crashes>>

ProverStep(p) ==
  \/ ReadLastVerified(p) \/ LockProofReadyForFinal(p) \/ ValidateEligible(p) \/ StoreProof(p)
  \/ LockProofsToAggregate(p) \/ LockBatchToProve(p) \/ ReceiveFinalProof(p) \/ SkipFinal(p)

Success(p) == FinalProofBuilt(p) \/ ProofsAggregated(p) \/ BatchProofGenerated(p)

Next ==
  \/ \E p \in Provers :
       \/ ProverStep(p) \/ BeginFinal(p) \/ Success(p)
       \/ FinalProofFailed(p) \/ AggregationFailed(p) \/ BatchProofFailed(p)
  \/ StartProofVerification \/ FinalBatchError \/ AddMonitoredTx \/ HandleMonitoredTx
  \/ VerifyBatches \/ Synchronize \/ CleanupLockedProofs \/ Crash \/ Start

Spec == Init /\ [][Next]_vars

\* Goroutines, L1 and the synchronizer keep running; a prover asked again and again
\* succeeds, and its loop finds the time to verify reached again and again.
FairSpec ==
  /\ Spec
  /\ WF_vars(StartProofVerification) /\ WF_vars(AddMonitoredTx) /\ WF_vars(HandleMonitoredTx)
  /\ WF_vars(VerifyBatches) /\ WF_vars(Synchronize) /\ WF_vars(Start)
  /\ \A p \in Provers : WF_vars(ProverStep(p)) /\ SF_vars(BeginFinal(p)) /\ SF_vars(Success(p))
                        /\ SF_vars(ReceiveFinalProof(p))
------------------------------------------------------------------------------
(* Properties *)

\* Types of the rows and of the provers' jobs.
TypeOK ==
  /\ \A r \in rows : r.from \in 1..NumBatches /\ r.to \in r.from..NumBatches
                     /\ {r.gen, r.proof} \subseteq BOOLEAN
  /\ {verifying, up} \subseteq BOOLEAN
  /\ l1 \in 0..NumBatches /\ synced \in 0..l1
  /\ \A p \in Provers : prover[p].pc \in {"idle", "sync", "lock", "eligible", "final", "send",
                           "store", "aggregate", "aggregating", "generate", "generating"}

\* "GetVirtualBatchToProve return the next batch that is not proved, neither in proved
\* process": while no locked row is cleaned up, no batch is covered by two rows of the table.
NoOverlap ==
  cleanups = 0 => \A r, s \in rows : r # s => r.to < s.from \/ s.to < r.from

\* Jobs that work on a proof, and the final proof that is sent.
Working == {p \in Provers : prover[p].pc \in {"final", "send", "store", "aggregating",
                                              "generating", "eligible"}
                            \/ (prover[p].pc = "sync" /\ prover[p].own)}

\* "Avoid other prover to process the same batch": the batches of two jobs differ.
WorkDisjoint ==
  \A p, q \in Working : p # q => prover[p].to < prover[q].from \/ prover[q].to < prover[p].from

\* The same, while no locked row is cleaned up: two provers never work on the same batch.
JobsDisjoint == cleanups = 0 => WorkDisjoint

\* GetProofReadyForFinal does not ask whether the proof is NULL: a row that is not locked
\* has its proof, across failures, cleanups and restarts.
UnlockedHasProof == \A r \in rows : ~r.gen => r.proof

\* The rows of the table are sound: they do not overlap, and one that any prover may take has
\* its proof.
RowsSound == NoOverlap /\ UnlockedHasProof

\* No batch is proved twice, by two rows or by two provers, and a row that is free to be
\* taken has its proof.
NoBatchTwice == RowsSound /\ JobsDisjoint

\* A final proof that reaches L1 extends the last verified batch, although the eligibility
\* was checked long before, and in another goroutine, while no locked row is cleaned up.
SentExtendsL1 == cleanups = 0 /\ sender.pc = "add" => Accepted(sender.from, sender.to)

==============================================================================

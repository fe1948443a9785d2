---------------------------- MODULE EthTxManager ----------------------------
(***************************************************************************)
(* The manager of L1 transactions (ethtxmanager/ethtxmanager.go and        *)
(* pgstorage.go).  An owner (the sequence sender, the aggregator) adds a   *)
(* transaction and waits for it in ProcessPendingMonitoredTxs.  A cycle of *)
(* monitorTxs loads the rows of state.monitored_txs and runs monitorTx on  *)
(* each copy: it reads receipts, signs, records, sends, waits, and writes  *)
(* the whole row back.  L1, its transaction pool and the synchronizer,     *)
(* which calls Reorg, are external.  One L1 block holds one transaction.   *)
(***************************************************************************)
EXTENDS Naturals, Sequences, FiniteSets

CONSTANTS
  NumTxs,      \* monitored transactions 1..NumTxs, added in this order by one owner
  MaxPrice,    \* MaxGasPriceLimit; prices start at 1
  Nil,
  MaxBlocks,   \* L1 blocks
  MaxReverts, MaxErrors, MaxReorgs, MaxCrashes, \* bounds on L1 reverts, RPC errors, ...
  MaxFaults                                     \* bound on all of them

Ids == 1..NumTxs
Statuses == {"created", "sent", "failed", "confirmed", "reorged", "done"}
Hashes == [id : Ids, nonce : 0..MaxBlocks, price : 1..MaxPrice]
Rows == [status : Statuses, nonce : 0..MaxBlocks, price : 1..MaxPrice,
         history : SUBSET Hashes, block : 0..MaxBlocks]

ASSUME EthTxAssumption ==
  /\ {NumTxs, MaxPrice, MaxBlocks} \subseteq Nat \ {0}
  /\ {MaxReverts, MaxErrors, MaxReorgs, MaxCrashes, MaxFaults} \subseteq Nat
  /\ Nil \notin Rows

VARIABLES
  db,        \* state.monitored_txs: row or Nil; block is 0 when it is NULL
  mon,       \* monitorTx per transaction: [pc, m, receipt], m is its copy of the row
  owner,     \* ProcessPendingMonitoredTxs: [pc, id, m]
  chain,     \* L1: sequence of [tx, ok]; the sender's nonce is its length
  pool,      \* L1: transactions that are not mined
  price,     \* L1: suggested gas price
  synced,    \* last L1 block of the state
  reorg,     \* first L1 block of a reorg the synchronizer has not processed, or 0
  reverts, errors, reorgs, crashes

vars == <<db, mon, owner, chain, pool, price, synced, reorg, reverts, errors, reorgs, crashes>>
L1 == <<chain, pool, price, synced, reorg, reverts, reorgs>>
Faults == reverts + errors + reorgs + crashes

Idle == [pc |-> "done", m |-> Nil, receipt |-> 0]
Waiting == [pc |-> "process", id |-> 0, m |-> Nil]

Init ==
  /\ db = [i \in Ids |-> Nil] /\ mon = [i \in Ids |-> Idle] /\ owner = Waiting
  /\ chain = <<>> /\ pool = {} /\ price = 1 /\ synced = 0 /\ reorg = 0
  /\ reverts = 0 /\ errors = 0 /\ reorgs = 0 /\ crashes = 0

------------------------------------------------------------------------------
(* L1 as the manager sees it *)

Receipts(h) == {n \in DOMAIN chain : chain[n].tx = h}
Mined(h) == Receipts(h) # {}
Succeeded(h) == \E n \in Receipts(h) : chain[n].ok
MinedAt(h) == CHOOSE n \in Receipts(h) : TRUE

\* The contract accepts the data of the transactions once and in order.
Accepted == {chain[n].tx.id : n \in {k \in DOMAIN chain : chain[k].ok}}
Valid(i) == i \notin Accepted /\ 1..(i - 1) \subseteq Accepted

\* The next nonce, the pool's transactions included.
PendingNonce == CHOOSE n \in Len(chain)..(MaxBlocks + 1) :
                  /\ n \notin {h.nonce : h \in pool}
                  /\ Len(chain)..(n - 1) \subseteq {h.nonce : h \in pool}

\* getTxNonce: one more than the transactions that are created and not sent.
getTxNonce ==
  LET created == {db[i].nonce : i \in {j \in Ids : db[j] # Nil /\ db[j].status = "created"}}
  IN  IF created = {} THEN PendingNonce
      ELSE 1 + CHOOSE n \in created : \A k \in created : k <= n

suggestedGasPrice == IF price > MaxPrice THEN MaxPrice ELSE price

Hash(i, m) == [id |-> i, nonce |-> m.nonce, price |-> m.price]

\* The pool accepts a transaction whose nonce is not used, at a higher price than the one
\* it replaces.
Accepts(h) == h.nonce >= Len(chain) /\ \A o \in pool : o.nonce = h.nonce => o.price < h.price
------------------------------------------------------------------------------
(* The owner *)

\* No row is pending: the next transaction is added; its gas estimation succeeds.
Add(i) ==
  /\ owner.pc = "process" /\ db[i] = Nil
  /\ \A j \in Ids : db[j] # Nil => db[j].status = "done"
  /\ Valid(i) /\ getTxNonce <= MaxBlocks
  /\ db' = [db EXCEPT ![i] = [status |-> "created", nonce |-> getTxNonce,
                              price |-> suggestedGasPrice, history |-> {}, block |-> 0]]
  /\ UNCHANGED <<mon, owner, L1, errors, crashes>>

\* The loop finds a confirmed row; setStatusDone reads it ...
ReadConfirmed(i) ==
  /\ owner.pc = "process" /\ db[i] # Nil /\ db[i].status = "confirmed"
  /\ owner' = [pc |-> "setdone", id |-> i, m |-> db[i]]
  /\ UNCHANGED <<db, mon, L1, errors, crashes>>

\* ... and writes it.
SetStatusDone ==
  /\ owner.pc = "setdone"
  /\ db' = [db EXCEPT ![owner.id] = [owner.m EXCEPT !.status = "done"]]
  /\ owner' = Waiting
  /\ UNCHANGED <<mon, L1, errors, crashes>>

------------------------------------------------------------------------------
(* monitorTxs and monitorTx *)

\* Mutants: the transactions that are done are monitored, the sent ones are not.
MonitoredStatuses_Done == {"created", "sent", "reorged", "done"}
MonitoredStatuses_Created == {"created", "reorged"}

MonitoredStatuses == {"created", "sent", "reorged"}

\* A cycle loads the rows once all goroutines of the last one are done.
Load ==
  LET due == {i \in Ids : db[i] # Nil /\ db[i].status \in MonitoredStatuses}
  IN  /\ due # {} /\ \A i \in Ids : mon[i].pc = "done"
      /\ mon' = [i \in Ids |-> IF i \in due THEN [pc |-> "check", m |-> db[i], receipt |-> 0]
                               ELSE Idle]
      /\ UNCHANGED <<db, owner, L1, errors, crashes>>

At(i, pc) == mon[i].pc = pc
Return(i) == mon' = [mon EXCEPT ![i] = Idle]

\* storage.Update writes the whole row.
Update(i, m) == db' = [db EXCEPT ![i] = m]

\* Mutant: a failed receipt is enough.
NonceUsed_AnyFailed(history) == \E h \in history : Mined(h)

\* All transactions whose receipts could be read are mined, and there is one.
NonceUsed(history) == history # {} /\ \A h \in history : Mined(h)

\* The receipts of the history are read; those in failing cannot be.  The nonce is
\* reviewed when all others are mined and failed.
CheckHistory(i) ==
  /\ At(i, "check")
  /\ \E failing \in SUBSET mon[i].m.history :
       LET m == mon[i].m
           read == m.history \ failing
           good == {h \in read : Succeeded(h)}
           review == [m EXCEPT !.nonce = IF getTxNonce > @ THEN getTxNonce ELSE @]
           next(n) == [pc |-> IF m.status = "sent" THEN "review" ELSE "sign", m |-> n,
                       receipt |-> 0]
       IN  /\ failing # {} => /\ errors + Cardinality(failing) <= MaxErrors
                              /\ Faults + Cardinality(failing) <= MaxFaults
           /\ errors' = errors + Cardinality(failing)
           /\ \/ \E h \in good :
                   /\ mon' = [mon EXCEPT ![i] = [pc |-> "confirm", m |-> m, receipt |-> MinedAt(h)]]
                   /\ UNCHANGED db
              \/ /\ good = {} /\ NonceUsed(read) /\ review.nonce <= MaxBlocks
                 /\ Update(i, review)
                 /\ mon' = [mon EXCEPT ![i] = IF m.status = "reorged" THEN Idle ELSE next(review)]
              \/ /\ good = {} /\ ~NonceUsed(read)
                 /\ mon' = [mon EXCEPT ![i] = IF m.status = "reorged" THEN Idle ELSE next(m)]
                 /\ UNCHANGED db
  /\ UNCHANGED <<owner, L1, crashes>>

\* reviewMonitoredTx: the gas estimation fails when the contract rejects the data.
ReviewMonitoredTx(i) ==
  /\ At(i, "review")
  /\ LET m == [mon[i].m EXCEPT !.price = IF suggestedGasPrice > @ THEN suggestedGasPrice ELSE @]
     IN  IF Valid(i)
         THEN Update(i, m) /\ mon' = [mon EXCEPT ![i].m = m, ![i].pc = "sign"]
         ELSE Return(i) /\ UNCHANGED db
  /\ UNCHANGED <<owner, L1, errors, crashes>>

\* The transaction is signed and recorded in the history of the row.
AddHistory(i) ==
  /\ At(i, "sign")
  /\ LET m == mon[i].m
         n == [m EXCEPT !.history = @ \union {Hash(i, m)}]
     IN  /\ IF m = n THEN UNCHANGED db ELSE Update(i, n)
         /\ mon' = [mon EXCEPT ![i].m = n, ![i].pc = "send"]
  /\ UNCHANGED <<owner, L1, errors, crashes>>

\* GetTx, SendTx
SendTx(i) ==
  /\ At(i, "send")
  /\ LET h == Hash(i, mon[i].m)
     IN  \/ /\ h \in pool \/ Mined(h)
            /\ mon' = [mon EXCEPT ![i].pc = "wait"]
            /\ UNCHANGED pool
         \/ /\ h \notin pool /\ ~Mined(h) /\ ~Accepts(h)
            /\ Return(i)
            /\ UNCHANGED pool
         \/ /\ h \notin pool /\ ~Mined(h) /\ Accepts(h)
            /\ pool' = {o \in pool : o.nonce # h.nonce} \union {h}
            /\ mon' = [mon EXCEPT ![i].pc = "sent"]
  /\ UNCHANGED <<db, owner, chain, price, synced, reorg, reverts, reorgs, errors, crashes>>

\* The status of the row that was created changes to sent.
UpdateSent(i) ==
  /\ At(i, "sent")
  /\ LET n == [mon[i].m EXCEPT !.status = "sent"]
     IN  /\ IF mon[i].m = n THEN UNCHANGED db ELSE Update(i, n)
         /\ mon' = [mon EXCEPT ![i].m = n, ![i].pc = "wait"]
  /\ UNCHANGED <<owner, L1, errors, crashes>>

\* WaitTxToBeMined: mined; a failed transaction or the timeout ends the goroutine.
WaitMined(i) ==
  /\ At(i, "wait") /\ Succeeded(Hash(i, mon[i].m))
  /\ mon' = [mon EXCEPT ![i].pc = "receipt"]
  /\ UNCHANGED <<db, owner, L1, errors, crashes>>

WaitTimeout(i) ==
  /\ At(i, "wait")
  /\ Return(i)
  /\ UNCHANGED <<db, owner, L1, errors, crashes>>

\* GetTxReceipt; shouldContinueToMonitorThisTx when L1 has changed and it is a failure now.
ReadReceipt(i) ==
  /\ At(i, "receipt")
  /\ LET m == mon[i].m
         h == Hash(i, m)
     IN  \/ /\ Succeeded(h)
            /\ mon' = [mon EXCEPT ![i].pc = "confirm", ![i].receipt = MinedAt(h)]
            /\ UNCHANGED db
         \/ /\ ~Succeeded(h)
            /\ Return(i)
            /\ UNCHANGED db
         \/ /\ Mined(h) /\ ~Succeeded(h)
            /\ Update(i, [m EXCEPT !.status = "failed", !.block = MinedAt(h)])
            /\ Return(i)
  /\ UNCHANGED <<owner, L1, errors, crashes>>

\* Mutant: the state need not know the block.
StateHas_Always(block) == TRUE

StateHas(block) == synced >= block

\* The receipt is good and the state has its block: the row is confirmed.
Confirm(i) ==
  /\ At(i, "confirm")
  /\ IF StateHas(mon[i].receipt)
     THEN Update(i, [mon[i].m EXCEPT !.status = "confirmed", !.block = mon[i].receipt])
     ELSE UNCHANGED db
  /\ Return(i)
  /\ UNCHANGED <<owner, L1, errors, crashes>>

------------------------------------------------------------------------------
(* L1 and the synchronizer (external), Reorg, crash *)

\* A transaction is mined; one the contract accepts may fail all the same, e.g. run out of gas.
Mine ==
  /\ Len(chain) < MaxBlocks
  /\ \E h \in pool, ok \in BOOLEAN :
       /\ h.nonce = Len(chain)
       /\ ok => Valid(h.id)
       /\ reverts' = IF Valid(h.id) /\ ~ok THEN reverts + 1 ELSE reverts
       /\ reverts' # reverts => reverts < MaxReverts /\ Faults < MaxFaults
       /\ chain' = Append(chain, [tx |-> h, ok |-> ok])
       /\ pool' = pool \ {h}
  /\ UNCHANGED <<db, mon, owner, price, synced, reorg, errors, reorgs, crashes>>

RaisePrice ==
  /\ price <= MaxPrice
  /\ price' = price + 1
  /\ UNCHANGED <<db, mon, owner, chain, pool, synced, reorg, reverts, errors, reorgs, crashes>>

Synchronize ==
  /\ reorg = 0 /\ synced < Len(chain)
  /\ synced' = synced + 1
  /\ UNCHANGED <<db, mon, owner, chain, pool, price, reorg, reverts, errors, reorgs, crashes>>

\* L1 drops its last block; its transaction returns to the pool or is lost.
DropBlock ==
  /\ chain # <<>> /\ reorg = 0 /\ reorgs < MaxReorgs /\ Faults < MaxFaults
  /\ reorgs' = reorgs + 1
  /\ chain' = SubSeq(chain, 1, Len(chain) - 1)
  /\ \/ pool' = pool \union {chain[Len(chain)].tx}
     \/ pool' = pool
  /\ reorg' = IF synced = Len(chain) THEN Len(chain) ELSE 0
  /\ UNCHANGED <<db, mon, owner, price, synced, reverts, errors, crashes>>

\* The synchronizer finds the reorg, resets the state and calls Reorg, in one transaction.
Reorg ==
  /\ reorg # 0
  /\ db' = [i \in Ids |-> IF db[i] # Nil /\ db[i].block >= reorg
                          THEN [db[i] EXCEPT !.status = "reorged", !.block = 0] ELSE db[i]]
  /\ synced' = reorg - 1 /\ reorg' = 0
  /\ UNCHANGED <<mon, owner, chain, pool, price, reverts, errors, reorgs, crashes>>

\* The process ends and starts again.
Crash ==
  /\ crashes < MaxCrashes /\ Faults < MaxFaults /\ crashes' = crashes + 1
  /\ mon' = [i \in Ids |-> Idle] /\ owner' = Waiting
  /\ UNCHANGED <<db, L1, errors>>

MonitorStep(i) ==
  \/ CheckHistory(i) \/ ReviewMonitoredTx(i) \/ AddHistory(i) \/ SendTx(i) \/ UpdateSent(i)
  \/ WaitMined(i) \/ WaitTimeout(i) \/ ReadReceipt(i) \/ Confirm(i)

OwnerStep == (\E i \in Ids : Add(i) \/ ReadConfirmed(i)) \/ SetStatusDone

Next ==
  \/ Load \/ OwnerStep \/ \E i \in Ids : MonitorStep(i)
  \/ Mine \/ RaisePrice \/ Synchronize \/ DropBlock \/ Reorg \/ Crash

Spec == Init /\ [][Next]_vars

\* The goroutines and the synchronizer run, and L1 mines what is in its pool.
FairSpec ==
  /\ Spec
  /\ WF_vars(Load) /\ WF_vars(OwnerStep) /\ \A i \in Ids : WF_vars(MonitorStep(i))
  /\ WF_vars(Mine) /\ WF_vars(Synchronize) /\ WF_vars(Reorg)
------------------------------------------------------------------------------
(* Properties *)

\* Types of the variables.
TypeOK ==
  /\ \A i \in Ids : db[i] \in Rows \union {Nil} /\ mon[i].m \in Rows \union {Nil}
  /\ owner.m \in Rows \union {Nil}
  /\ pool \subseteq Hashes /\ \A n \in DOMAIN chain : chain[n].tx \in Hashes
  /\ Len(chain) <= MaxBlocks /\ synced <= MaxBlocks

MinedTxs == {chain[n].tx : n \in DOMAIN chain}

\* A transaction that reached L1 is in the history of its row, also when the process
\* crashes between storing the row and sending: its receipt will be looked for.
SentIsRecorded == \A h \in pool \union MinedTxs : h \in db[h.id].history

\* "to avoid sending duplicated data to the roll-up": all transactions of one row that are
\* in the pool or have succeeded use the same nonce, so that one of them at most takes effect.
SingleNonce ==
  \A g, h \in pool \union {t \in MinedTxs : Succeeded(t)} : g.id = h.id => g.nonce = h.nonce

\* The same, while every receipt can be read and L1 keeps its blocks: a new nonce is taken
\* only when no transaction of the row can take effect any more.
NoDuplicate == errors + reorgs = 0 => SingleNonce

\* The data of a row takes effect on L1 once at most, and whatever was sent is looked for.
SendsOnce == SentIsRecorded /\ NoDuplicate

\* A row that is confirmed or done has its transaction in the L1 block it names, and the
\* state has that block, once the synchronizer has processed the reorgs.
ConfirmedOnL1 ==
  reorg = 0 => \A i \in Ids : db[i] # Nil /\ db[i].status \in {"confirmed", "done"} =>
    /\ db[i].block \in 1..synced
    /\ chain[db[i].block].ok /\ chain[db[i].block].tx \in db[i].history

\* The same, while L1 keeps its blocks.
ConfirmedIsMined == reorgs = 0 => ConfirmedOnL1

\* A row that is done stays so until a reorg: no goroutine that still holds a copy of the
\* row writes it back.
DoneIsFinal ==
  [][\A i \in Ids : reorgs = 0 /\ db[i] # Nil /\ db[i].status = "done" => db'[i] = db[i]]_vars

\* "keep monitoring them until they get mined": a row that was added is done in the end.
AllResolved == \A i \in Ids : (db[i] # Nil) ~> (db[i] # Nil /\ db[i].status = "done")

\* The same, when no transaction fails, no receipt read fails and L1 keeps its blocks.
Resolved == [](reverts + errors + reorgs = 0) => AllResolved

Ended(statuses) == \E i \in Ids : db[i] # Nil /\ db[i].status \in statuses

\* ProcessPendingMonitoredTxs waits "until all of them are either confirmed or failed before
\* continuing": once its row has ended, it is done with it.
OwnerReturns == <>[]Ended({"confirmed", "failed", "done"}) => <>Ended({"done"})
==============================================================================

-------------------------------- MODULE Worker --------------------------------
(***************************************************************************)
(* The worker of the sequencer (sequencer/worker.go, txsorted_list.go) and *)
(* the goroutines that call it: the loader (loadFromPool in sequencer.go), *)
(* the main loop of the finalizer (finalizer.go), the expiry of old        *)
(* transactions (expireOldWorkerTxs) and the goroutine that stores L2      *)
(* blocks.  Every method of the worker holds workerMutex, so it is one     *)
(* step; AddTxTracker releases it while it reads the account of a new      *)
(* sender from the last stored state.                                      *)
(*                                                                         *)
(* A transaction pays its whole cost to To[t].  The txSortedList is the    *)
(* set of its members.  Resources are abstract: any ready transaction may  *)
(* be the best one that fits.                                              *)
(***************************************************************************)
EXTENDS AddrQueue, Sequences

CONSTANTS
  To,           \* receiver of each transaction
  InitBalance,  \* balance of each sender in the first state
  Rejected,     \* transactions with an invalid IP or beyond the batch constraints
  MaxForced     \* bound on forced transactions

ASSUME WorkerAssumption ==
  /\ To \in [Txs -> Addrs] /\ InitBalance \in [Addrs -> Nat] /\ Rejected \subseteq Txs
  /\ MaxForced \in Nat

VARIABLES
  status,    \* status of each transaction in the pool; "failed" is also TxStatusInvalid
  isWIP,     \* transactions with is_wip set in the pool
  queue,     \* w.pool
  sorted,    \* w.txSortedList
  wipTx,     \* w.wipTx
  accounts,  \* nonce and balance of each sender at the intermediate root
  stored,    \* the same in the last stored L2 block
  block,     \* transactions of the wip L2 block
  toStore,   \* L2 blocks to store, with the accounts after each
  loader,    \* [pc, tx, replaced, account]: the call of addTxToWorker
  main,      \* [pc, tx, failed]: the call of processTransaction
  failing,   \* pool updates that other goroutines still have to do
  forced     \* number of forced transactions executed

vars == <<status, isWIP, queue, sorted, wipTx, accounts, stored, block, toStore, loader,
          main, failing, forced>>
chain == <<accounts, stored, block, toStore, forced>>

NoLoad == [pc |-> "idle", tx |-> Nil, replaced |-> Nil, account |-> Nil]
Idle == [pc |-> "idle", tx |-> Nil, failed |-> {}]

Init ==
  /\ status = [t \in Txs |-> "pending"] /\ isWIP = {}
  /\ queue = [a \in Addrs |-> Nil] /\ sorted = {} /\ wipTx = Nil
  /\ accounts = [a \in Addrs |-> [nonce |-> 0, balance |-> InitBalance[a]]]
  /\ stored = accounts /\ block = << >> /\ toStore = << >>
  /\ loader = NoLoad /\ main = Idle /\ failing = {} /\ forced = 0

\* The txSortedList loses prev and gets new.
Resort(S, prev, new) == (S \ {prev}) \union ({new} \ {Nil})

\* UpdateTxStatus of the transactions of S.
SetStatus(S, value) ==
  /\ status' = [t \in Txs |-> IF t \in S THEN value ELSE status[t]]
  /\ isWIP' = isWIP \ S

------------------------------------------------------------------------------
(* The loader *)

AddToQueue(q, t) ==
  LET r == addTx(q, t)
  IN  /\ queue' = [queue EXCEPT ![From[t]] = r.queue]
      /\ sorted' = IF r.dropped THEN sorted ELSE Resort(sorted, r.prev, r.new)
      /\ loader' = [NoLoad EXCEPT !.pc = IF r.dropped THEN "drop" ELSE "replaced", !.tx = t,
                                  !.replaced = r.replaced]

\* Another transaction with the nonce of the one in process is a duplicate.
DuplicatesWIP(t) == wipTx # Nil /\ From[wipTx] = From[t] /\ Nonce[wipTx] = Nonce[t]

\* AddTxTracker up to the return, or up to the unlock when the sender has no queue.
AddTxTracker(t) ==
  /\ loader.pc = "idle"
  /\ status[t] = "pending" /\ t \notin isWIP
  /\ IF t \in Rejected \/ DuplicatesWIP(t)
     THEN loader' = [NoLoad EXCEPT !.pc = "drop", !.tx = t] /\ UNCHANGED <<queue, sorted>>
     ELSE IF queue[From[t]] = Nil
          THEN loader' = [NoLoad EXCEPT !.pc = "read", !.tx = t] /\ UNCHANGED <<queue, sorted>>
          ELSE AddToQueue(queue[From[t]], t)
  /\ UNCHANGED <<status, isWIP, wipTx, chain, main, failing>>

\* The account of the sender at the last stored root; an error drops the transaction.
ReadAccount ==
  /\ loader.pc = "read"
  /\ \/ loader' = [loader EXCEPT !.pc = "create", !.account = stored[From[loader.tx]]]
     \/ loader' = [loader EXCEPT !.pc = "drop"]
  /\ UNCHANGED <<status, isWIP, queue, sorted, wipTx, chain, main, failing>>

\* AddTxTracker locks again: the new queue is set and the transaction added.
CreateQueue ==
  /\ loader.pc = "create"
  /\ AddToQueue(newAddrQueue(loader.account.nonce, loader.account.balance), loader.tx)
  /\ UNCHANGED <<status, isWIP, wipTx, chain, main, failing>>

\* addTxToWorker after AddTxTracker: the pool updates.
DropTx ==
  /\ loader.pc = "drop"
  /\ SetStatus({loader.tx}, "failed")
  /\ loader' = NoLoad
  /\ UNCHANGED <<queue, sorted, wipTx, chain, main, failing>>

FailReplaced ==
  /\ loader.pc = "replaced"
  /\ SetStatus({loader.replaced} \ {Nil}, "failed")
  /\ loader' = [loader EXCEPT !.pc = "wip"]
  /\ UNCHANGED <<queue, sorted, wipTx, chain, main, failing>>

UpdateTxWIPStatus ==
  /\ loader.pc = "wip"
  /\ isWIP' = isWIP \union {loader.tx}
  /\ loader' = NoLoad
  /\ UNCHANGED <<status, queue, sorted, wipTx, chain, main, failing>>

------------------------------------------------------------------------------
(* The main loop of the finalizer *)

\* Nothing to process, or nothing that fits.
NoFittingTx ==
  /\ main.pc = "idle" /\ wipTx # Nil
  /\ wipTx' = Nil
  /\ UNCHANGED <<status, isWIP, queue, sorted, chain, loader, main, failing>>

GetBestFittingTx ==
  /\ main.pc = "idle"
  /\ \E t \in sorted : wipTx' = t /\ main' = [Idle EXCEPT !.pc = "execute", !.tx = t]
  /\ UNCHANGED <<status, isWIP, queue, sorted, chain, loader, failing>>

\* Accounts after t.
Apply(acc, t) ==
  LET paid == [acc EXCEPT ![From[t]] = [nonce |-> @.nonce + 1, balance |-> @.balance - Cost[t]]]
  IN  [paid EXCEPT ![To[t]].balance = @ + Cost[t]]

Executable(t) == accounts[From[t]].nonce = Nonce[t] /\ Cost[t] <= accounts[From[t]].balance

\* The executor answers: success, a failure of the transaction, or an error that leaves
\* it in the worker (database error, or the batch has no resources left).
ExecuteTx ==
  /\ main.pc = "execute"
  /\ LET t == main.tx
     IN  \/ /\ Executable(t)
            /\ accounts' = Apply(accounts, t) /\ block' = Append(block, t)
            /\ main' = [main EXCEPT !.pc = "delete"]
         \/ /\ ~Executable(t)
            /\ main' = [main EXCEPT !.pc = "move"]
            /\ UNCHANGED <<accounts, block>>
         \/ /\ Executable(t)
            /\ main' \in {[main EXCEPT !.pc = "reject"], Idle}
            /\ UNCHANGED <<accounts, block>>
  /\ UNCHANGED <<status, isWIP, queue, sorted, wipTx, stored, toStore, forced, loader,
                 failing>>

\* DeleteTx of a transaction that was executed or that failed; the goroutine that sets the
\* status of the failed one runs later.
DeleteTx ==
  /\ main.pc \in {"delete", "reject"}
  /\ LET t == main.tx
     IN  /\ wipTx' = IF wipTx = t THEN Nil ELSE wipTx
         /\ queue' = [queue EXCEPT ![From[t]] = deleteTx(@, t)]
         /\ sorted' = IF queue[From[t]].ready = t THEN sorted \ {t} ELSE sorted
         /\ main' = IF main.pc = "delete" THEN [main EXCEPT !.pc = "update"] ELSE Idle
         /\ failing' = IF main.pc = "delete" THEN failing ELSE failing \union {t}
  /\ UNCHANGED <<status, isWIP, chain, loader>>

\* Senders with a queue whose account the transaction changed.
Touched(t) == {a \in {From[t], To[t]} : queue[a] # Nil}

\* applyAddressUpdate of the senders of S with their accounts.
ApplyAddressUpdates(S) ==
  LET r == [a \in S |-> updateCurrentNonceBalance(queue[a], accounts[a].nonce,
                                                  accounts[a].balance)]
  IN  [queue |-> [a \in Addrs |-> IF a \in S THEN r[a].queue ELSE queue[a]],
       sorted |-> (sorted \ {r[a].prev : a \in S}) \union ({r[a].new : a \in S} \ {Nil}),
       toDelete |-> UNION {r[a].toDelete : a \in S}]

UpdateAfterSingleSuccessfulTxExecution ==
  /\ main.pc = "update"
  /\ LET r == ApplyAddressUpdates(Touched(main.tx))
     IN  /\ queue' = r.queue /\ sorted' = r.sorted
         /\ main' = [Idle EXCEPT !.pc = "fail", !.failed = r.toDelete]
  /\ UNCHANGED <<status, isWIP, wipTx, chain, loader, failing>>

\* updateWorkerAfterSuccessfulProcessing sets the deleted transactions as failed.
FailTxs ==
  /\ main.pc = "fail"
  /\ SetStatus(main.failed, "failed")
  /\ main' = Idle
  /\ UNCHANGED <<queue, sorted, wipTx, chain, loader, failing>>

\* handleProcessTransactionError for an invalid nonce or balance.
MoveTxToNotReady ==
  /\ main.pc = "move"
  /\ wipTx' = IF wipTx = main.tx THEN Nil ELSE wipTx
  /\ LET r == ApplyAddressUpdates({From[main.tx]})
     IN  queue' = r.queue /\ sorted' = r.sorted /\ failing' = failing \union r.toDelete
  /\ main' = Idle
  /\ UNCHANGED <<status, isWIP, chain, loader>>

\* closeWIPL2Block
CloseL2Block ==
  /\ main.pc = "idle" /\ block # << >>
  /\ toStore' = Append(toStore, [txs |-> {block[i] : i \in DOMAIN block}, accounts |-> accounts])
  /\ block' = << >>
  /\ UNCHANGED <<status, isWIP, queue, sorted, wipTx, accounts, stored, forced, loader, main,
                 failing>>

\* A forced batch, after the L2 blocks before it are stored, executes and stores a
\* transaction of sender a that the pool does not know.  The worker is not updated:
\* updateWorkerAfterSuccessfulProcessing returns early.
ForcedTx(a) ==
  /\ main.pc = "idle" /\ block = << >> /\ toStore = << >>
  /\ forced < MaxForced
  /\ \E cost \in 0..accounts[a].balance :
       accounts' = [accounts EXCEPT ![a] = [nonce |-> @.nonce + 1, balance |-> @.balance - cost]]
  /\ stored' = accounts'
  /\ forced' = forced + 1
  /\ UNCHANGED <<status, isWIP, queue, sorted, wipTx, block, toStore, loader, main, failing>>

------------------------------------------------------------------------------
(* The other goroutines *)

\* storeL2Block: the commit and the status of the block's transactions.
StoreL2Block ==
  /\ toStore # << >>
  /\ stored' = Head(toStore).accounts
  /\ SetStatus(Head(toStore).txs, "selected")
  /\ toStore' = Tail(toStore)
  /\ UNCHANGED <<queue, sorted, wipTx, accounts, block, forced, loader, main, failing>>

\* ExpireTransactions finds t too old; expireOldWorkerTxs updates the pool afterwards.
ExpireTransactions(t) ==
  /\ queue[From[t]] # Nil /\ t \in Expirable(queue[From[t]])
  /\ queue' = [queue EXCEPT ![From[t]] = deleteTx(@, t)]
  /\ sorted' = IF queue[From[t]].ready = t THEN sorted \ {t} ELSE sorted
  /\ failing' = failing \union {t}
  /\ UNCHANGED <<status, isWIP, wipTx, chain, loader, main>>

FailTx(t) ==
  /\ t \in failing
  /\ SetStatus({t}, "failed")
  /\ failing' = failing \ {t}
  /\ UNCHANGED <<queue, sorted, wipTx, chain, loader, main>>

Loader == ReadAccount \/ CreateQueue \/ DropTx \/ FailReplaced \/ UpdateTxWIPStatus
Main == GetBestFittingTx \/ ExecuteTx \/ DeleteTx \/ UpdateAfterSingleSuccessfulTxExecution
        \/ FailTxs \/ MoveTxToNotReady

Next ==
  \/ Loader \/ Main \/ NoFittingTx \/ CloseL2Block \/ StoreL2Block
  \/ \E t \in Txs : AddTxTracker(t) \/ ExpireTransactions(t) \/ FailTx(t)
  \/ \E a \in Addrs : ForcedTx(a)

Spec == Init /\ [][Next]_vars

\* The goroutines keep running, the pool is read again and again, L2 blocks are closed by
\* time, and every transaction becomes too old.
FairSpec ==
  /\ Spec
  /\ WF_vars(Loader) /\ WF_vars(Main) /\ WF_vars(StoreL2Block) /\ SF_vars(CloseL2Block)
  /\ \A t \in Txs : SF_vars(AddTxTracker(t)) /\ WF_vars(ExpireTransactions(t))
                    /\ WF_vars(FailTx(t))
------------------------------------------------------------------------------
(* Properties *)

\* Types of the pool, the worker and the calls in progress.
TypeOK ==
  /\ status \in [Txs -> {"pending", "selected", "failed"}]
  /\ isWIP \subseteq Txs /\ sorted \subseteq Txs /\ failing \subseteq Txs
  /\ wipTx \in TxOrNil
  /\ queue \in [Addrs -> Queue \union {Nil}]
  /\ loader.pc \in {"idle", "read", "create", "drop", "replaced", "wip"}
  /\ main.pc \in {"idle", "execute", "delete", "reject", "update", "fail", "move"}

\* The txSortedList, from which the finalizer takes transactions, holds exactly the ready
\* transactions of the queues, whatever the loader, the finalizer and the expiry do.
SortedIsReady == sorted = {queue[a].ready : a \in {b \in Addrs : queue[b] # Nil}} \ {Nil}

\* A ready transaction has the nonce of its queue and its balance covers the cost; the
\* others have different nonces, none of them used.
QueueInOrder ==
  \A a \in Addrs : queue[a] # Nil =>
    LET q == queue[a]
    IN  /\ q.ready # Nil => Nonce[q.ready] = q.nonce /\ Cost[q.ready] <= q.balance
        /\ q.ready \notin q.notReady
        /\ \A x \in q.notReady : WithNonce(q.notReady, Nonce[x]) = {x} /\ Nonce[x] >= q.nonce

\* "Update worker with info from the transaction responses": between transactions a queue
\* has the nonce of its account, although it was created from the stored state.
NonceInStep ==
  main.pc \notin {"delete", "update"} =>
    \A a \in Addrs : queue[a] # Nil => queue[a].nonce = accounts[a].nonce

\* The same, while no forced transaction is executed.
NonceInStepUnforced == forced = 0 => NonceInStep


\* Transactions on their way from the worker to a final status.
InFlight ==
  failing \union main.failed \union {block[i] : i \in DOMAIN block}
  \union UNION {toStore[i].txs : i \in DOMAIN toStore} \union {main.tx, loader.replaced}


\* Every transaction of the pool gets a final status.
TxSettled == \A t \in Txs : <>[](status[t] # "pending")

\* "TxStatusFailed represents a tx that has been failed after processing": a transaction
\* executed in a stored L2 block does not become failed.
SelectedIsFinal == [][\A t \in Txs : status[t] = "selected" => status'[t] = "selected"]_vars

==============================================================================

------------------------------ MODULE AddrQueue ------------------------------
(***************************************************************************)
(* The queue that the worker keeps for the transactions of one sender      *)
(* (sequencer/addrqueue.go).  A queue has the sender's nonce and balance,  *)
(* at most one ready transaction, and the others, at most one per nonce.   *)
(* The sets forcedTxs and pendingTxsToStore are only read by IsEmpty,      *)
(* which nothing calls, and are left out.                                  *)
(***************************************************************************)
EXTENDS Naturals, FiniteSets

CONSTANTS
  Txs,
  From, Nonce, GasPrice, Cost,  \* functions on Txs
  Nil

Addrs == {From[t] : t \in Txs}
TxOrNil == Txs \union {Nil}

ASSUME TxAssumption ==
  /\ Nonce \in [Txs -> Nat] /\ GasPrice \in [Txs -> Nat] /\ Cost \in [Txs -> Nat]
  /\ Nil \notin Txs

Queue == [nonce : Nat, balance : Nat, ready : TxOrNil, notReady : SUBSET Txs]

newAddrQueue(nonce, balance) ==
  [nonce |-> nonce, balance |-> balance, ready |-> Nil, notReady |-> {}]

\* notReadyTxs[n]: the transactions of S with nonce n, at most one; and its value.
WithNonce(S, n) == {x \in S : Nonce[x] = n}
Element(S) == IF S = {} THEN Nil ELSE CHOOSE x \in S : TRUE

\* notReadyTxs[t.Nonce] = t
Put(S, t) == (S \ WithNonce(S, Nonce[t])) \union {t}



\* The results of addTx.
Added(q, new, prev, replaced) ==
  [queue |-> q, new |-> new, prev |-> prev, replaced |-> replaced, dropped |-> FALSE]

Affordable(q, t) == Cost[t] <= q.balance

\* Adds t: the new and the previous ready transaction, the one that t replaces, or t is
\* dropped (its nonce is used, or a transaction with its nonce pays more).
addTx(q, t) ==
  LET same == WithNonce(q.notReady, Nonce[t])
      put == [q EXCEPT !.notReady = Put(@, t)]
  IN  CASE Nonce[t] = q.nonce /\ (q.ready = Nil \/ GasPrice[t] >= GasPrice[q.ready]) ->
             IF Affordable(q, t)
             THEN Added([q EXCEPT !.ready = t], t, q.ready, Element({q.ready} \ {t}))
             ELSE Added([put EXCEPT !.ready = Nil], Nil, q.ready, Element({q.ready} \ {t}))
        [] Nonce[t] > q.nonce /\ \A x \in same : GasPrice[t] >= GasPrice[x] ->
             Added(put, Nil, Nil, Element(same \ {t}))
        [] OTHER -> [Added(q, Nil, Nil, Nil) EXCEPT !.dropped = TRUE]

\* Transactions that a queue holds.
Held(q) == (q.notReady \union {q.ready}) \ {Nil}

\* Mutant: only the ready transaction expires.
Expirable_Ready(q) == {q.ready} \ {Nil}

\* Transactions that ExpireTransactions looks at.
Expirable(q) == Held(q)

\* deleteTx, and the removal of one expired transaction.
deleteTx(q, t) == [q EXCEPT !.ready = IF @ = t THEN Nil ELSE @, !.notReady = @ \ {t}]


\* Waiting transactions whose nonce is used when the nonce changes.
Used(q, nonce) == IF nonce = q.nonce THEN {} ELSE {x \in q.notReady : Nonce[x] < nonce}

\* The ready transaction has another nonce than the account, or costs more than it has.
LeavesReady(q, nonce, balance) ==
  q.ready # Nil /\ (Nonce[q.ready] # nonce \/ balance < Cost[q.ready])

\* Sets nonce and balance: the new ready transaction, the one that no longer is, and the
\* transactions to delete.  A nonce that is not given is the one of the queue.
updateCurrentNonceBalance(q, nonce, balance) ==
  LET used == Used(q, nonce)
      kept == q.notReady \ used
      old == IF LeavesReady(q, nonce, balance) THEN q.ready ELSE Nil
      ready == IF q.ready # Nil /\ old = Nil THEN q.ready
               ELSE Element({x \in WithNonce(kept, nonce) : Cost[x] <= balance})
      waiting == kept \ (IF q.ready # Nil /\ old = Nil THEN {} ELSE {ready})
      back == old # Nil /\ Nonce[old] > nonce
  IN  [queue |-> [nonce |-> nonce, balance |-> balance, ready |-> ready,
                  notReady |-> IF back THEN Put(waiting, old) ELSE waiting],
       new |-> ready, prev |-> old,
       toDelete |-> used \union (IF back THEN {} ELSE {old} \ {Nil})]
==============================================================================

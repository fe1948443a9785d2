------------------------------- MODULE MCWorker -------------------------------
(* Small instances of Worker: account a pays b, b pays a. *)
EXTENDS Worker, TLC

CONSTANTS a, b, t1, t2, t3, t4

\* Two transactions with the same nonce, one that pays a, and a later one of a that needs
\* that payment.
FourTxs == {t1, t2, t3, t4}
ThreeTxs == {t1, t2, t3}
PayingTxs == {t1, t3, t4}
FromDef == [t \in Txs |-> IF t = t3 THEN b ELSE a]
ToDef == [t \in Txs |-> IF t = t3 THEN a ELSE b]
NonceDef == [t \in Txs |-> IF t = t4 THEN 1 ELSE 0]
GasPriceDef == [t \in Txs |-> IF t = t2 THEN 2 ELSE 1]
CostDef == [t \in Txs |-> 1]
BalanceDef == [x \in Addrs |-> 1]
NoneRejected == {}
PayerRejected == {t3}

\* The two transactions of a cost more than a has.
PoorDef == [x \in Addrs |-> IF x = a THEN 0 ELSE 1]
==============================================================================

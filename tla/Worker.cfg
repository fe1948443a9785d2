\* Replacement, expiry and balance updates of two senders.
CONSTANTS
  a = a
  b = b
  t1 = t1
  t2 = t2
  t3 = t3
  t4 = t4
  Nil = Nil
  Txs <- FourTxs
  From <- FromDef
  To <- ToDef
  Nonce <- NonceDef
  GasPrice <- GasPriceDef
  Cost <- CostDef
  InitBalance <- BalanceDef
  Rejected <- PayerRejected
  MaxForced = 1
SPECIFICATION FairSpec
  
PROPERTIES  TxSettled
CHECK_DEADLOCK FALSE

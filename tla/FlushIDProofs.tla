---------------------------- MODULE FlushIDProofs ----------------------------
(***************************************************************************)
(* Theorems about FlushID, for every number of blocks and restarts.        *)
(***************************************************************************)
EXTENDS FlushID, TLAPS

\* Every copy of the executor's stored flush id that a goroutine holds is at most the
\* executor's: the fact that makes StoredAfterFlush inductive.
KnownFlush ==
  SameExecutor =>
    /\ executor.stored <= executor.last
    /\ storedFlushID <= executor.stored
    /\ producer.stored <= executor.stored
    /\ updater.stored <= executor.stored

\* The flush counter of an executor never exceeds the number of executed blocks.
Counted == executor.last <= producer.block.num

IInv == TypeOK /\ Counted /\ KnownFlush /\ StoredAfterFlush

\* The initial state of the finalizer satisfies the inductive invariant.
LEMMA InitIInv == Init => IInv
<1> SUFFICES ASSUME Init PROVE IInv
  OBVIOUS
<1>1. NoBlock \in Block
  BY FlushAssumption DEF NoBlock, Block
<1>2. executor \in Executor /\ producer \in ProducerState /\ updater \in UpdaterState
      /\ storer \in StorerState
  BY FlushAssumption, <1>1 DEF Init, Executor, ProducerState, UpdaterState, StorerState
<1>3. TypeOK
  BY FlushAssumption, <1>2 DEF Init, TypeOK
<1>4. Counted /\ KnownFlush /\ StoredAfterFlush
  BY DEF Init, NoBlock, Counted, KnownFlush, StoredAfterFlush
<1> QED
  BY <1>3, <1>4 DEF IInv

\* Every step of the producer, the updater, the store goroutine and the executor keeps
\* the types.
LEMMA TypeStep == TypeOK /\ Counted /\ [Next]_vars => TypeOK' /\ Counted'
<1> SUFFICES ASSUME TypeOK, Counted, [Next]_vars PROVE TypeOK' /\ Counted'
  OBVIOUS
<1> USE FlushAssumption
<1>e. executor \in Executor /\ executor.last \in 0..MaxBlocks
      /\ executor.stored \in 0..MaxBlocks /\ executor.id \in Nat \ {0}
  BY DEF TypeOK, Executor
<1>p. producer \in ProducerState /\ producer.block \in Block
      /\ producer.stored \in 0..MaxBlocks
  BY DEF TypeOK, ProducerState
<1>b. producer.block.num \in 0..MaxBlocks /\ producer.block.flush \in 0..MaxBlocks
  BY <1>p DEF Block
<1>u. updater \in UpdaterState /\ updater.stored \in 0..MaxBlocks /\ updater.prover \in Nat
  BY DEF TypeOK, UpdaterState
<1>s. storer \in StorerState /\ storer.block \in Block
  BY DEF TypeOK, StorerState
<1>w. WakeStorer => storer' \in StorerState
  BY <1>s DEF WakeStorer, StorerState
<1>1. CASE ExecutorFlush
  <2>1. executor' \in Executor /\ executor'.last = executor.last
    BY <1>1, <1>e DEF ExecutorFlush, Executor
  <2> QED BY <1>1, <2>1 DEF ExecutorFlush, TypeOK, Counted
<1>2. CASE ExecutorRestart
  <2>1. executor' \in Executor /\ executor'.last = 0
    BY <1>2, <1>e DEF ExecutorRestart, Executor
  <2> QED BY <1>2, <1>b, <2>1 DEF ExecutorRestart, TypeOK, Counted
<1>3. CASE ExecuteL2Block
  <2> DEFINE b == [num |-> producer.block.num + 1, flush |-> executor.last + 1]
  <2>1. b \in Block
    BY <1>3, <1>b, <1>e DEF ExecuteL2Block, Block, Counted
  <2>2. producer' \in ProducerState /\ producer'.block.num = producer.block.num + 1
    BY <1>3, <2>1, <1>e DEF ExecuteL2Block, ProducerState
  <2>3. executor' \in Executor /\ executor'.last = executor.last + 1
    BY <1>3, <1>e, <1>b DEF ExecuteL2Block, Executor, Counted
  <2>4. UNCHANGED <<lastPendingFlushID, storedFlushID, proverID, updater, toStore, storer,
                    inState, seenProvers, running>>
    BY <1>3 DEF ExecuteL2Block
  <2>5. TypeOK'
    BY <2>2, <2>3, <2>4 DEF TypeOK
  <2>6. Counted'
    BY <1>b, <1>e, <2>2, <2>3 DEF Counted
  <2> QED BY <2>5, <2>6
<1>4. CASE SetPendingFlushID
  <2>1. producer' \in ProducerState /\ producer'.block = producer.block
    BY <1>4, <1>p DEF SetPendingFlushID, ProducerState
  <2>2. lastPendingFlushID' \in 0..MaxBlocks
    BY <1>4, <1>b DEF SetPendingFlushID, TypeOK
  <2> QED BY <1>4, <2>1, <2>2 DEF SetPendingFlushID, TypeOK, Counted
<1>5. CASE BroadcastPending
  <2>1. producer' \in ProducerState /\ producer'.block = producer.block
    BY <1>5, <1>p DEF BroadcastPending, ProducerState
  <2>2. updater' \in UpdaterState
    BY <1>5, <1>u DEF BroadcastPending, UpdaterState
  <2> QED BY <1>5, <2>1, <2>2 DEF BroadcastPending, TypeOK, Counted
<1>6. CASE UpdateStoredFlushID
  <2>1. producer' \in ProducerState /\ producer'.block = producer.block
    BY <1>6, <1>p DEF UpdateStoredFlushID, ProducerState
  <2>2. storer' \in StorerState /\ storedFlushID' \in 0..MaxBlocks
    BY <1>6, <1>p, <1>s, <1>w DEF UpdateStoredFlushID, TypeOK
  <2>3. toStore' \in Seq(Block)
    BY <1>6, <1>p DEF UpdateStoredFlushID, TypeOK
  <2> QED BY <1>6, <2>1, <2>2, <2>3 DEF UpdateStoredFlushID, TypeOK, Counted
<1>7. CASE WaitAllStored
  <2>1. producer' \in ProducerState /\ producer'.block = producer.block
    BY <1>7, <1>p DEF WaitAllStored, ProducerState
  <2> QED BY <1>7, <2>1 DEF WaitAllStored, TypeOK, Counted
<1>8. CASE TestPending
  <2>1. updater' \in UpdaterState
    BY <1>8, <1>u DEF TestPending, UpdaterState
  <2> QED BY <1>8, <2>1 DEF TestPending, TypeOK, Counted
<1>9. CASE RegisterAndPark
  <2>1. updater' \in UpdaterState
    BY <1>9, <1>u DEF RegisterAndPark, UpdaterState
  <2> QED BY <1>9, <2>1 DEF RegisterAndPark, TypeOK, Counted
<1>10. CASE PollStoredFlushID
  <2>1. updater' \in UpdaterState
    BY <1>10, <1>u, <1>e DEF PollStoredFlushID, UpdaterState
  <2> QED BY <1>10, <2>1 DEF PollStoredFlushID, TypeOK, Counted
<1>11. CASE AssignStoredFlushID
  <2>1. updater' \in UpdaterState
    BY <1>11, <1>u DEF AssignStoredFlushID, UpdaterState
  <2>2. storer' \in StorerState /\ storedFlushID' \in 0..MaxBlocks
        /\ seenProvers' \subseteq Nat /\ running' \in BOOLEAN
    BY <1>11, <1>u, <1>s, <1>w DEF AssignStoredFlushID, TypeOK
  <2> QED BY <1>11, <2>1, <2>2 DEF AssignStoredFlushID, TypeOK, Counted
<1>12. CASE ReceiveL2Block
  <2>1. Head(toStore) \in Block /\ Tail(toStore) \in Seq(Block)
    BY <1>12 DEF ReceiveL2Block, TypeOK
  <2>2. storer' \in StorerState
    BY <1>12, <2>1 DEF ReceiveL2Block, StorerState
  <2> QED BY <1>12, <2>1, <2>2 DEF ReceiveL2Block, TypeOK, Counted
<1>13. CASE StoreL2Block
  <2>1. storer' \in StorerState
    BY <1>13, <1>s DEF StoreL2Block, StorerState
  <2>2. inState \in Seq(Block) /\ Append(inState, storer.block) \in Seq(Block)
    BY <1>s DEF TypeOK
  <2>3. inState' \in {inState, Append(inState, storer.block)}
    BY <1>13 DEF StoreL2Block
  <2> QED BY <1>13, <2>1, <2>2, <2>3 DEF StoreL2Block, TypeOK, Counted
<1>14. CASE UNCHANGED vars
  BY <1>14 DEF vars, TypeOK, Counted
<1> QED
  BY <1>1, <1>2, <1>3, <1>4, <1>5, <1>6, <1>7, <1>8, <1>9, <1>10, <1>11, <1>12,
     <1>13, <1>14 DEF Next, Producer, Updater, Storer

\* No step of any goroutine lets a copy of the stored flush id run ahead of the
\* executor, nor commits a block that the executor has not stored.
LEMMA FlushStep == IInv /\ [Next]_vars => KnownFlush' /\ StoredAfterFlush'
<1> SUFFICES ASSUME IInv, [Next]_vars, SameExecutor'
             PROVE  /\ (executor.stored <= executor.last)'
                    /\ (storedFlushID <= executor.stored)'
                    /\ (producer.stored <= executor.stored)'
                    /\ (updater.stored <= executor.stored)'
                    /\ (\A i \in 1..Len(inState) : inState[i].flush <= executor.stored)'
  BY DEF KnownFlush, StoredAfterFlush
<1>t. TypeOK /\ TypeOK'
  BY TypeStep DEF IInv
<1>n. /\ executor.last \in Nat /\ executor.stored \in Nat /\ executor.id \in Nat \ {0}
      /\ storedFlushID \in Nat /\ producer.stored \in Nat /\ updater.stored \in Nat
      /\ executor'.last \in Nat /\ executor'.stored \in Nat
  BY <1>t, FlushAssumption DEF TypeOK, Executor, ProducerState, UpdaterState
<1>b. \A i \in 1..Len(inState) : inState[i] \in Block /\ inState[i].flush \in Nat
  <2>1. \A i \in 1..Len(inState) : inState[i] \in Block
    BY <1>t DEF TypeOK
  <2> QED BY <2>1, FlushAssumption DEF Block
<1>r. ~ExecutorRestart
  BY <1>n DEF ExecutorRestart, SameExecutor
<1>i. executor.id = executor'.id
  BY <1>r, <1>t DEF Next, Producer, Updater, Storer, vars, TypeOK, Executor, ExecutorFlush,
     ExecuteL2Block, SetPendingFlushID, BroadcastPending, UpdateStoredFlushID,
     WaitAllStored, TestPending, RegisterAndPark, PollStoredFlushID,
     AssignStoredFlushID, ReceiveL2Block, StoreL2Block
<1>k. /\ executor.stored <= executor.last
      /\ storedFlushID <= executor.stored
      /\ producer.stored <= executor.stored
      /\ updater.stored <= executor.stored
      /\ \A i \in 1..Len(inState) : inState[i].flush <= executor.stored
  BY <1>i DEF IInv, KnownFlush, StoredAfterFlush, SameExecutor
<1>1. CASE ExecutorFlush
  <2>1. executor'.stored = executor.stored + 1 /\ executor'.last = executor.last
    BY <1>1, <1>t DEF ExecutorFlush, TypeOK, Executor
  <2>2. executor.stored < executor.last /\ inState' = inState
        /\ UNCHANGED <<storedFlushID, producer, updater>>
    BY <1>1 DEF ExecutorFlush
  <2>3. \A i \in 1..Len(inState) : inState[i].flush <= executor'.stored
    <3> TAKE i \in 1..Len(inState)
    <3>1. inState[i].flush \in Nat /\ inState[i].flush <= executor.stored
      BY <1>b, <1>k
    <3> QED BY <3>1, <2>1, <1>n
  <2>4. (executor.stored <= executor.last)'
    BY <1>n, <2>1, <2>2
  <2>5. (storedFlushID <= executor.stored)' /\ (producer.stored <= executor.stored)'
        /\ (updater.stored <= executor.stored)'
    BY <1>n, <1>k, <2>1, <2>2
  <2> QED BY <2>2, <2>3, <2>4, <2>5
<1>2. CASE ExecuteL2Block
  <2>1. executor'.stored = executor.stored /\ executor'.last = executor.last + 1
    BY <1>2, <1>t DEF ExecuteL2Block, TypeOK, Executor
  <2> QED BY <1>2, <1>n, <1>k, <2>1 DEF ExecuteL2Block
<1>3. CASE SetPendingFlushID \/ BroadcastPending \/ WaitAllStored \/ TestPending
           \/ RegisterAndPark
  <2>1. producer'.stored = producer.stored /\ updater'.stored = updater.stored
    BY <1>3, <1>t DEF SetPendingFlushID, BroadcastPending, WaitAllStored, TestPending,
       RegisterAndPark, TypeOK, ProducerState, UpdaterState
  <2> QED BY <1>3, <1>k, <2>1 DEF SetPendingFlushID, BroadcastPending, WaitAllStored,
       TestPending, RegisterAndPark
<1>4. CASE UpdateStoredFlushID
  <2>1. producer'.stored = producer.stored
    BY <1>4, <1>t DEF UpdateStoredFlushID, TypeOK, ProducerState
  <2> QED BY <1>4, <1>k, <2>1 DEF UpdateStoredFlushID
<1>5. CASE PollStoredFlushID
  <2>1. updater'.stored \in {updater.stored, executor.stored}
    BY <1>5, <1>t DEF PollStoredFlushID, TypeOK, UpdaterState
  <2> QED BY <1>5, <1>n, <1>k, <2>1 DEF PollStoredFlushID
<1>6. CASE AssignStoredFlushID
  <2>1. updater'.stored = updater.stored
    BY <1>6, <1>t DEF AssignStoredFlushID, TypeOK, UpdaterState
  <2> QED BY <1>6, <1>k, <2>1 DEF AssignStoredFlushID
<1>7. CASE ReceiveL2Block
  BY <1>7, <1>k DEF ReceiveL2Block
<1>8. CASE StoreL2Block
  <2>1. storer.block \in Block /\ storer.block.flush \in Nat
    BY <1>t, FlushAssumption DEF TypeOK, StorerState, Block
  <2>2. CASE storedFlushID < storer.block.flush
    BY <1>8, <1>k, <2>2 DEF StoreL2Block
  <2>3. CASE ~(storedFlushID < storer.block.flush)
    <3>1. inState' = Append(inState, storer.block) /\ inState \in Seq(Block)
      BY <1>8, <1>t, <2>3 DEF StoreL2Block, TypeOK
    <3>2. storer.block.flush <= executor.stored
      BY <1>n, <1>k, <2>1, <2>3
    <3>3. \A i \in 1..Len(inState') : inState'[i].flush <= executor.stored
      BY <3>1, <3>2, <2>1, <1>k
    <3> QED BY <1>8, <1>k, <3>3 DEF StoreL2Block
  <2> QED BY <2>2, <2>3
<1>9. CASE UNCHANGED vars
  BY <1>9, <1>k DEF vars
<1> QED
  BY <1>r, <1>1, <1>2, <1>3, <1>4, <1>5, <1>6, <1>7, <1>8, <1>9
     DEF Next, Producer, Updater, Storer

\* The flush-id fields and the goroutines' positions keep their types in every
\* execution, for any number of L2 blocks and executor restarts.
THEOREM TypeCorrect == Spec => []TypeOK
<1>1. TypeOK /\ Counted /\ [Next]_vars => TypeOK' /\ Counted'
  BY TypeStep
<1>2. Init => TypeOK /\ Counted
  BY InitIInv DEF IInv
<1> QED
  BY <1>1, <1>2, PTL DEF Spec

\* storeL2Block never commits an L2 block before the executor that executed it stored
\* the block's flush id, for any number of blocks and any interleaving of the process
\* and store goroutines with the poller.
THEOREM StoreWaitsForFlush == Spec => []StoredAfterFlush
<1>1. IInv /\ [Next]_vars => IInv'
  BY TypeStep, FlushStep DEF IInv
<1>2. IInv => StoredAfterFlush
  BY DEF IInv
<1> QED
  BY InitIInv, <1>1, <1>2, PTL DEF Spec

\* Each step moves an L2 block at most one place along the pipeline and keeps the order.
LEMMA PipelineStep == TypeOK /\ TypeOK' /\ PipelineOrder /\ [Next]_vars => PipelineOrder'
<1> SUFFICES ASSUME TypeOK, TypeOK', PipelineOrder, [Next]_vars PROVE PipelineOrder'
  OBVIOUS
<1>t. /\ toStore \in Seq(Block) /\ inState \in Seq(Block)
      /\ producer \in ProducerState /\ storer \in StorerState
      /\ producer.block.num \in Nat
  BY FlushAssumption DEF TypeOK, ProducerState, Block
<1>1. CASE UNCHANGED <<inState, toStore, Held, storer.block, InFlight, producer.block>>
  BY <1>1 DEF PipelineOrder
<1>h. WakeStorer => UNCHANGED <<Held, storer.block>>
  BY <1>t DEF WakeStorer, Held, StorerState
<1>2. CASE ExecuteL2Block
  <2>1. producer'.block.num = producer.block.num + 1 /\ InFlight = 0 /\ InFlight' = 1
        /\ UNCHANGED <<inState, toStore, storer>>
    BY <1>2 DEF ExecuteL2Block, InFlight
  <2>2. Held' = Held /\ Held \in {0, 1} /\ Len(inState) \in Nat /\ Len(toStore) \in Nat
    BY <2>1, <1>t DEF Held
  <2>3. (Len(inState) + Held + Len(toStore) + InFlight = producer.block.num)'
    BY <2>1, <2>2, <1>t DEF PipelineOrder
  <2> QED BY <2>1, <2>2, <2>3 DEF PipelineOrder
<1>3. CASE SetPendingFlushID \/ BroadcastPending \/ WaitAllStored
  <2>1. UNCHANGED <<inState, toStore, storer>>
    BY <1>3 DEF SetPendingFlushID, BroadcastPending, WaitAllStored
  <2>2. UNCHANGED <<InFlight, producer.block>>
    BY <1>3, <1>t DEF SetPendingFlushID, BroadcastPending, WaitAllStored, InFlight,
       ProducerState
  <2> QED BY <1>1, <2>1, <2>2 DEF Held
<1>4. CASE UpdateStoredFlushID
  <2>1. toStore' = Append(toStore, producer.block) /\ inState' = inState
    BY <1>4 DEF UpdateStoredFlushID
  <2>2. InFlight = 1 /\ InFlight' = 0 /\ producer'.block = producer.block
    BY <1>4, <1>t DEF UpdateStoredFlushID, InFlight, ProducerState
  <2>3. UNCHANGED <<Held, storer.block>> /\ Held \in {0, 1}
    BY <1>4, <1>h DEF UpdateStoredFlushID, Held
  <2>4. producer.block \in Block /\ Len(toStore') = Len(toStore) + 1
        /\ Len(toStore) \in Nat /\ Len(inState) \in Nat
    BY <2>1, <1>t DEF ProducerState
  <2>5. \A j \in 1..Len(toStore') : toStore'[j].num = Len(inState) + Held + j
    <3> TAKE j \in 1..Len(toStore')
    <3>1. CASE j \in 1..Len(toStore)
      <4>1. toStore'[j] = toStore[j]
        BY <3>1, <2>1, <2>4, <1>t
      <4> QED BY <4>1, <3>1 DEF PipelineOrder
    <3>2. CASE j = Len(toStore) + 1
      <4>1. toStore'[j] = producer.block
        BY <3>2, <2>1, <2>4, <1>t
      <4> QED BY <4>1, <3>2, <2>2, <2>3, <2>4, <1>t DEF PipelineOrder
    <3> QED BY <3>1, <3>2, <2>4
  <2>6. (Len(inState) + Held + Len(toStore) + InFlight = producer.block.num)'
    BY <2>1, <2>2, <2>3, <2>4 DEF PipelineOrder
  <2> QED BY <2>1, <2>3, <2>5, <2>6 DEF PipelineOrder
<1>5. CASE Updater
  <2>1. UNCHANGED <<inState, toStore, producer>>
    BY <1>5 DEF Updater, TestPending, RegisterAndPark, PollStoredFlushID,
       AssignStoredFlushID
  <2>2. UNCHANGED <<Held, storer.block>>
    BY <1>5, <1>h DEF Updater, TestPending, RegisterAndPark, PollStoredFlushID,
       AssignStoredFlushID, Held
  <2> QED BY <1>1, <2>1, <2>2 DEF InFlight
<1>6. CASE ReceiveL2Block
  <2>1. Held = 0 /\ Held' = 1 /\ toStore # << >> /\ toStore' = Tail(toStore)
        /\ storer'.block = Head(toStore) /\ UNCHANGED <<inState, producer>>
    BY <1>6 DEF ReceiveL2Block, Held
  <2>2. /\ Len(toStore') = Len(toStore) - 1 /\ Len(toStore) \in Nat \ {0}
        /\ Len(inState) \in Nat /\ Head(toStore) = toStore[1]
        /\ \A j \in 1..Len(toStore') : toStore'[j] = toStore[j + 1]
    <3>1. toStore \in Seq(Block) /\ toStore # << >> /\ toStore' = Tail(toStore)
      BY <2>1, <1>t
    <3>2. Len(toStore) \in Nat \ {0} /\ Head(toStore) = toStore[1]
      BY <3>1
    <3>3. Len(toStore') = Len(toStore) - 1
      BY <3>1
    <3>4. \A j \in 1..Len(toStore') : toStore'[j] = toStore[j + 1]
      BY <3>1
    <3> QED BY <1>t, <3>2, <3>3, <3>4
  <2>3. InFlight' = InFlight /\ InFlight \in {0, 1}
    BY <2>1 DEF InFlight
  <2>4. storer'.block.num = Len(inState) + 1
    BY <2>1, <2>2 DEF PipelineOrder
  <2>5. \A j \in 1..Len(toStore') : toStore'[j].num = Len(inState) + 1 + j
    <3> TAKE j \in 1..Len(toStore')
    <3>1. j + 1 \in 1..Len(toStore) /\ toStore'[j] = toStore[j + 1]
      BY <2>2
    <3>2. toStore[j + 1].num = Len(inState) + 0 + (j + 1)
      BY <3>1, <2>1 DEF PipelineOrder
    <3> QED BY <3>1, <3>2, <2>2
  <2>6. (Len(inState) + Held + Len(toStore) + InFlight = producer.block.num)'
    BY <2>1, <2>2, <2>3, <1>t DEF PipelineOrder
  <2> QED BY <2>1, <2>4, <2>5, <2>6 DEF PipelineOrder
<1>7. CASE StoreL2Block
  <2>1. CASE storedFlushID < storer.block.flush
    <3>1. UNCHANGED <<inState, toStore, producer, storer.block>> /\ Held = 1 /\ Held' = 1
      BY <1>7, <2>1, <1>t DEF StoreL2Block, Held, StorerState
    <3> QED BY <1>1, <3>1 DEF InFlight
  <2>2. CASE ~(storedFlushID < storer.block.flush)
    <3>1. inState' = Append(inState, storer.block) /\ Held = 1 /\ Held' = 0
          /\ UNCHANGED <<toStore, producer>> /\ storer.block \in Block
      BY <1>7, <2>2, <1>t DEF StoreL2Block, Held, StorerState
    <3>2. Len(inState') = Len(inState) + 1 /\ Len(inState) \in Nat /\ Len(toStore) \in Nat
      BY <3>1, <1>t
    <3>3. \A i \in 1..Len(inState') : inState'[i].num = i
      BY <3>1, <3>2, <1>t DEF PipelineOrder
    <3>4. \A j \in 1..Len(toStore) : toStore[j].num = Len(inState') + 0 + j
      BY <3>1, <3>2, <1>t DEF PipelineOrder
    <3>5. InFlight' = InFlight /\ InFlight \in {0, 1}
      BY <3>1 DEF InFlight
    <3>6. (Len(inState) + Held + Len(toStore) + InFlight = producer.block.num)'
      BY <3>1, <3>2, <3>5, <1>t DEF PipelineOrder
    <3> QED BY <3>1, <3>3, <3>4, <3>6 DEF PipelineOrder
  <2> QED BY <2>1, <2>2
<1>8. CASE ExecutorFlush \/ ExecutorRestart \/ UNCHANGED vars
  <2>1. UNCHANGED <<inState, toStore, producer, storer>>
    BY <1>8 DEF ExecutorFlush, ExecutorRestart, vars
  <2> QED BY <1>1, <2>1 DEF Held, InFlight
<1> QED
  BY <1>2, <1>3, <1>4, <1>5, <1>6, <1>7, <1>8 DEF Next, Producer, Storer

\* Every L2 block that processL2Block executed is at exactly one place of the
\* process/store pipeline and is committed in execution order, for any number of
\* blocks and executor restarts.
THEOREM PipelineKeepsOrder == Spec => []PipelineOrder
<1>1. Init => PipelineOrder
  BY DEF Init, PipelineOrder, Held, InFlight, NoBlock
<1> QED
  BY <1>1, TypeCorrect, PipelineStep, PTL DEF Spec
==============================================================================

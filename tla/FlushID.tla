------------------------------- MODULE FlushID -------------------------------
(***************************************************************************)
(* The flush-id control of the sequencer's finalizer                       *)
(* (sequencer/finalizer.go, l2block.go, forcedbatch.go).                   *)
(*                                                                         *)
(* The executor answers every executed L2 block with a flush id and writes *)
(* the block's state to its own database later.  An L2 block may be stored *)
(* in the node's state only when the executor has stored that flush id.    *)
(* Three goroutines cooperate through two sync.Cond variables:             *)
(*   the producer  (processL2Block / processForcedBatch),                  *)
(*   the updater   (updateProverIdAndFlushId),                             *)
(*   the store goroutine (storePendingL2Blocks).                           *)
(*                                                                         *)
(* storedFlushIDCond is always used with its lock held, so a section under *)
(* that lock is one step.  pendingFlushIDCond is broadcast WITHOUT its     *)
(* lock, so the updater's test of the condition and its registration in    *)
(* the notify list (the first thing sync.Cond.Wait does) are two steps.    *)
(***************************************************************************)
EXTENDS Naturals, Sequences

CONSTANTS MaxBlocks,    \* bound: L2 blocks the producer executes
          MaxRestarts   \* bound: executor restarts

ASSUME FlushAssumption == MaxBlocks \in Nat /\ MaxRestarts \in Nat

VARIABLES
  executor,            \* external: its prover id, last and stored flush ids
  lastPendingFlushID,  \* f.lastPendingFlushID
  storedFlushID,       \* f.storedFlushID
  proverID,            \* f.proverID, 0 stands for the empty string
  producer,            \* producer: [pc, block, stored], the last executor answer;
                       \* a block is [num, flush]: f.l2BlockCounter and its FlushID
  updater,             \* updater: [pc, stored, prover], the last poll
  toStore,             \* channel f.pendingL2BlocksToStore 
  storer,              \* store goroutine: [pc, block]
  inState,             \* L2 blocks committed to the state, in order
  seenProvers,         \* history: prover ids compared by checkIfProverRestarted
  running              \* FALSE once log.Fatal ended the process

vars == <<executor, lastPendingFlushID, storedFlushID, proverID, producer,
          updater, toStore, storer, inState, seenProvers, running>>

NoBlock == [num |-> 0, flush |-> 0]

Init ==
  /\ executor = [id |-> 1, last |-> 0, stored |-> 0]
  /\ lastPendingFlushID = 0
  /\ storedFlushID = 0
  /\ proverID = 0
  /\ producer = [pc |-> "execute", block |-> NoBlock, stored |-> 0]
  /\ updater = [pc |-> "test", stored |-> 0, prover |-> 1]
  /\ toStore = << >>
  /\ storer = [pc |-> "receive", block |-> NoBlock]
  /\ inState = << >>
  /\ seenProvers = {}
  /\ running = TRUE

------------------------------------------------------------------------------
(* External executor *)

\* The executor writes the next pending flush id to its database.
ExecutorFlush ==
  /\ executor.stored < executor.last
  /\ executor' = [executor EXCEPT !.stored = @ + 1]
  /\ UNCHANGED <<lastPendingFlushID, storedFlushID, proverID, producer, updater,
                 toStore, storer, inState, seenProvers, running>>

\* The executor process is replaced: new prover id, fresh flush counters.
ExecutorRestart ==
  /\ executor.id <= MaxRestarts
  /\ executor' = [id |-> executor.id + 1, last |-> 0, stored |-> 0]
  /\ UNCHANGED <<lastPendingFlushID, storedFlushID, proverID, producer, updater,
                 toStore, storer, inState, seenProvers, running>>

------------------------------------------------------------------------------
(* Producer: executes an L2 block, calls updateFlushIDs and hands the block over *)

\* ProcessBatchV2 returns the FlushID of the block and the executor's StoredFlushID.
ExecuteL2Block ==
  /\ running
  /\ producer.pc = "execute"
  /\ producer.block.num < MaxBlocks
  /\ executor' = [executor EXCEPT !.last = @ + 1]
  /\ producer' = [pc |-> "pending",
                  block |-> [num |-> producer.block.num + 1,
                             flush |-> executor.last + 1],
                  stored |-> executor.stored]
  /\ UNCHANGED <<lastPendingFlushID, storedFlushID, proverID, updater, toStore,
                 storer, inState, seenProvers, running>>

\* updateFlushIDs, first half: the assignment, made without any lock.
SetPendingFlushID ==
  /\ running
  /\ producer.pc = "pending"
  /\ IF producer.block.flush > lastPendingFlushID
     THEN /\ lastPendingFlushID' = producer.block.flush
          /\ producer' = [producer EXCEPT !.pc = "broadcast"]
     ELSE /\ producer' = [producer EXCEPT !.pc = "stored"]
          /\ UNCHANGED lastPendingFlushID
  /\ UNCHANGED <<executor, storedFlushID, proverID, updater, toStore, storer,
                 inState, seenProvers, running>>

\* pendingFlushIDCond.Broadcast(): wakes the updater only if it is registered.
BroadcastPending ==
  /\ running
  /\ producer.pc = "broadcast"
  /\ producer' = [producer EXCEPT !.pc = "stored"]
  /\ updater' = [updater EXCEPT !.pc = IF @ = "parked" THEN "test" ELSE @]
  /\ UNCHANGED <<executor, lastPendingFlushID, storedFlushID, proverID, toStore,
                 storer, inState, seenProvers, running>>

\* Mutant: the broadcast is forgotten.
WakeStorer_Never == UNCHANGED storer

\* storedFlushIDCond.Broadcast(): the store goroutine tests its condition again.
WakeStorer == storer' = [storer EXCEPT !.pc = IF @ = "parked" THEN "wait" ELSE @]

\* updateFlushIDs, second half (under storedFlushIDCond.L), then
\* addPendingL2BlockToStore.
UpdateStoredFlushID ==
  /\ running
  /\ producer.pc = "stored"
  /\ IF producer.stored > storedFlushID
     THEN storedFlushID' = producer.stored /\ WakeStorer
     ELSE UNCHANGED <<storedFlushID, storer>>
  /\ toStore' = Append(toStore, producer.block)
  /\ \E pc \in IF producer.block.num < MaxBlocks THEN {"execute", "close"} ELSE {"close"} :
       producer' = [producer EXCEPT !.pc = pc]
  /\ UNCHANGED <<executor, lastPendingFlushID, proverID, updater, inState,
                 seenProvers, running>>

\* closeAndOpenNewWIPBatch: pendingL2BlocksToStoreWG.Wait() returns.
WaitAllStored ==
  /\ running
  /\ producer.pc = "close"
  /\ toStore = << >> /\ storer.pc = "receive"
  /\ producer' = [producer EXCEPT !.pc = "execute"]
  /\ UNCHANGED <<executor, lastPendingFlushID, storedFlushID, proverID, updater,
                 toStore, storer, inState, seenProvers, running>>

------------------------------------------------------------------------------
(* Updater: updateProverIdAndFlushId *)

\* Evaluates "for f.storedFlushID >= f.lastPendingFlushID".
TestPending ==
  /\ running
  /\ updater.pc = "test"
  /\ updater' = [updater EXCEPT !.pc = IF storedFlushID >= lastPendingFlushID
                                       THEN "register" ELSE "poll"]
  /\ UNCHANGED <<executor, lastPendingFlushID, storedFlushID, proverID, producer,
                 toStore, storer, inState, seenProvers, running>>

\* pendingFlushIDCond.Wait() adds the goroutine to the notify list and parks it.
RegisterAndPark ==
  /\ running
  /\ updater.pc = "register"
  /\ updater' = [updater EXCEPT !.pc = "parked"]
  /\ UNCHANGED <<executor, lastPendingFlushID, storedFlushID, proverID, producer,
                 toStore, storer, inState, seenProvers, running>>

\* Evaluates "for f.storedFlushID < f.lastPendingFlushID" and, when it holds, asks
\* the executor (an error of GetStoredFlushID is a repetition of this step).
PollStoredFlushID ==
  /\ running
  /\ updater.pc = "poll"
  /\ updater' = IF storedFlushID < lastPendingFlushID
                THEN [pc |-> "assign", stored |-> executor.stored,
                      prover |-> executor.id]
                ELSE [updater EXCEPT !.pc = "test"]
  /\ UNCHANGED <<executor, lastPendingFlushID, storedFlushID, proverID, producer,
                 toStore, storer, inState, seenProvers, running>>

\* checkIfProverRestarted: log.Fatal when a known prover id changed.
ProverRestarted(id) == proverID # 0 /\ proverID # id

\* The answer of the poll is applied: nothing when it equals f.storedFlushID, the end
\* of the process when the prover changed, otherwise the assignment and the broadcast.
AssignStoredFlushID ==
  /\ running
  /\ updater.pc = "assign"
  /\ updater' = [updater EXCEPT !.pc = "poll"]
  /\ IF updater.stored = storedFlushID
     THEN UNCHANGED <<storedFlushID, storer, seenProvers, running>>
     ELSE /\ seenProvers' = seenProvers \union {updater.prover}
          /\ IF ProverRestarted(updater.prover)
             THEN running' = FALSE /\ UNCHANGED <<storedFlushID, storer>>
             ELSE /\ storedFlushID' = updater.stored
                  /\ WakeStorer
                  /\ UNCHANGED running
  /\ UNCHANGED <<executor, lastPendingFlushID, proverID, producer, toStore, inState>>

------------------------------------------------------------------------------
(* Store goroutine: storePendingL2Blocks, storeL2Block *)

\* Mutant: a block is taken while the previous one still waits for its flush id.
ReceiveL2Block_Eager ==
  /\ running
  /\ storer.pc \in {"receive", "parked"}
  /\ toStore # << >>
  /\ storer' = [pc |-> "wait", block |-> Head(toStore)]
  /\ toStore' = Tail(toStore)
  /\ UNCHANGED <<executor, lastPendingFlushID, storedFlushID, proverID, producer,
                 updater, inState, seenProvers, running>>

\* case l2Block := <-f.pendingL2BlocksToStore
ReceiveL2Block ==
  /\ running
  /\ storer.pc = "receive"
  /\ toStore # << >>
  /\ storer' = [pc |-> "wait", block |-> Head(toStore)]
  /\ toStore' = Tail(toStore)
  /\ UNCHANGED <<executor, lastPendingFlushID, storedFlushID, proverID, producer,
                 updater, inState, seenProvers, running>>

\* Mutant: the flush id is compared with the last pending one.
StoreL2Block_Pending ==
  /\ running
  /\ storer.pc = "wait"
  /\ IF lastPendingFlushID < storer.block.flush
     THEN storer' = [storer EXCEPT !.pc = "parked"] /\ UNCHANGED inState
     ELSE /\ storer' = [storer EXCEPT !.pc = "receive"]
          /\ inState' = Append(inState, storer.block)
  /\ UNCHANGED <<executor, lastPendingFlushID, storedFlushID, proverID, producer,
                 updater, toStore, seenProvers, running>>

\* "for f.storedFlushID < FlushID { Wait() }" under the lock: park, or commit the block.
StoreL2Block ==
  /\ running
  /\ storer.pc = "wait"
  /\ IF storedFlushID < storer.block.flush
     THEN storer' = [storer EXCEPT !.pc = "parked"] /\ UNCHANGED inState
     ELSE /\ storer' = [storer EXCEPT !.pc = "receive"]
          /\ inState' = Append(inState, storer.block)
  /\ UNCHANGED <<executor, lastPendingFlushID, storedFlushID, proverID, producer,
                 updater, toStore, seenProvers, running>>

------------------------------------------------------------------------------
Producer == ExecuteL2Block \/ SetPendingFlushID \/ BroadcastPending
            \/ UpdateStoredFlushID \/ WaitAllStored

Updater == TestPending \/ RegisterAndPark \/ PollStoredFlushID \/ AssignStoredFlushID

Storer == ReceiveL2Block \/ StoreL2Block

Next == ExecutorFlush \/ ExecutorRestart \/ Producer \/ Updater \/ Storer

Spec == Init /\ [][Next]_vars

\* Every goroutine is scheduled and the executor keeps flushing what it executed.
FairSpec == Spec /\ WF_vars(Producer) /\ WF_vars(Updater) /\ WF_vars(Storer)
                 /\ WF_vars(ExecutorFlush)
------------------------------------------------------------------------------
(* Properties *)

Block == [num : 0..MaxBlocks, flush : 0..MaxBlocks]

Executor == [id : Nat \ {0}, last : 0..MaxBlocks, stored : 0..MaxBlocks]

ProducerState == [pc : {"execute", "pending", "broadcast", "stored", "close"},
                  block : Block, stored : 0..MaxBlocks]

UpdaterState == [pc : {"test", "register", "parked", "poll", "assign"},
                 stored : 0..MaxBlocks, prover : Nat]

StorerState == [pc : {"receive", "wait", "parked"}, block : Block]

\* Types of the finalizer's flush-id fields and of the three goroutines' positions.
TypeOK ==
  /\ executor \in Executor
  /\ lastPendingFlushID \in 0..MaxBlocks
  /\ storedFlushID \in 0..MaxBlocks
  /\ proverID \in Nat
  /\ producer \in ProducerState
  /\ updater \in UpdaterState
  /\ toStore \in Seq(Block)
  /\ storer \in StorerState
  /\ inState \in Seq(Block)
  /\ seenProvers \subseteq Nat
  /\ running \in BOOLEAN

\* The executor is still the one the sequencer was started with.
SameExecutor == executor.id = 1

\* While the executor is not restarted, storeL2Block never commits an L2 block to the
\* state before the executor stored the flush id of that block, whatever the order of
\* polls, answers and wake-ups.
StoredAfterFlush ==
  SameExecutor => \A i \in 1..Len(inState) : inState[i].flush <= executor.stored

\* Blocks held by the store goroutine, and by the producer between execution and hand-over.
Held == IF storer.pc = "receive" THEN 0 ELSE 1
InFlight == IF producer.pc \in {"pending", "broadcast", "stored"} THEN 1 ELSE 0

\* Every executed L2 block is at exactly one place of the pipeline and the blocks are
\* committed in the order in which they were executed: none is lost, stored twice or
\* overtaken between processL2Block and storeL2Block, executor restarts included.
PipelineOrder ==
  /\ Len(inState) + Held + Len(toStore) + InFlight = producer.block.num
  /\ \A i \in 1..Len(inState) : inState[i].num = i
  /\ Held = 1 => storer.block.num = Len(inState) + 1
  /\ \A j \in 1..Len(toStore) : toStore[j].num = Len(inState) + Held + j

\* L2 block n is in the state.
Stored(n) == n <= Len(inState)

\* Once the updater polls, every block whose flush id was announced is stored in the
\* end (or the executor restarts), although a stale poll may move f.storedFlushID
\* backwards.
PolledIsStored ==
  \A n \in 1..MaxBlocks :
    (SameExecutor /\ updater.pc = "poll" /\ lastPendingFlushID >= n)
      ~> (Stored(n) \/ ~SameExecutor)

\* updateFlushIDs "sends the signals conditions f.pendingFlushIDCond and
\* f.storedFlushIDCond to notify other go funcs that the values have changed": every
\* L2 block whose flush id was announced is stored in the end.
AnnouncedIsStored ==
  \A n \in 1..MaxBlocks :
    (SameExecutor /\ lastPendingFlushID >= n) ~> (Stored(n) \/ ~SameExecutor)

\* checkIfProverRestarted "checks if the proverID changed": the finalizer does not go
\* on after it was shown two different prover ids.
RestartDetected == running => \A p, q \in seenProvers : p = q
==============================================================================

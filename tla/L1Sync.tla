-------------------------------- MODULE L1Sync --------------------------------
(***************************************************************************)
(* The synchronizer's reading of L1 in sequential mode                     *)
(* (synchronizer/synchronizer.go, synchronizer_pre_rollup.go,              *)
(* synchronizer_block_range_process.go): the events before the genesis     *)
(* block, the genesis block, then ranges of blocks with a check for a      *)
(* reorg before and after each range is read.                              *)
(*                                                                         *)
(* One goroutine runs all of it.  L1 moves between any two of its calls,   *)
(* and the process may stop between any two.  An L1 block is known by its  *)
(* number and its id (the hash); a block with ev set has events of the     *)
(* rollup.  The events of a block are stored with its row in one database  *)
(* transaction, so the rows of state.block stand for both.                 *)
(***************************************************************************)
EXTENDS Naturals, Sequences, FiniteSets

CONSTANTS
  Upgrade,        \* first L1 block of the LxLy upgrade
  Genesis,        \* s.genesis.BlockNumber
  SyncChunkSize,
  MaxBlocks,      \* bound: length of L1
  MaxReorgs,      \* bounds: reorgs of L1, and all faults together
  MaxFaults,
  Faults          \* the faults that may occur

FaultKinds == {"error", "crash", "lost", "desync"}

ASSUME L1SyncAssumption ==
  /\ {Upgrade, Genesis, SyncChunkSize, MaxBlocks, MaxReorgs, MaxFaults} \subseteq Nat
  /\ 0 < Upgrade /\ Upgrade < Genesis /\ Genesis <= MaxBlocks /\ 0 < SyncChunkSize
  /\ Faults \subseteq FaultKinds

VARIABLES
  chain,   \* L1: sequence of [id, ev]
  db,      \* state.block: rows [num, id]
  snc,     \* the synchronizer: [pc, last, from, to, known, blocks, tail, stage, cand, depth];
           \* last is lastEthBlockSynced, blocks are still to be processed and tail is the
           \* last of the range, cand and depth are reorgedBlock and depth of checkReorg
  reorgs,  \* number of reorgs of L1
  blind,   \* history: a reorg replaced blocks already read that no check looks at
  faults   \* history: faults that happened, in order

vars == <<chain, db, snc, reorgs, blind, faults>>
L1 == <<chain, reorgs, blind>>

Min(a, b) == IF a < b THEN a ELSE b
Block == [num : 0..MaxBlocks, id : 0..MaxReorgs]
Zero == [num |-> 0, id |-> 0]    \* state.Block{}
EthBlock(n) == [num |-> n, id |-> chain[n].id]
OnChain(b) == b.num \in DOMAIN chain /\ EthBlock(b.num) = b

\* The blocks of a range that have events.
EventBlocks(from, to) == {EthBlock(n) : n \in {m \in DOMAIN chain : m \in from..to /\ chain[m].ev}}
First(S) == CHOOSE b \in S : \A c \in S : b.num <= c.num
Last(S) == IF S = {} THEN Zero ELSE CHOOSE b \in S : \A c \in S : c.num <= b.num

(* state.block *)
GetLastBlock == Last(db)
HasRow(n) == \E b \in db : b.num = n

\* The row with offset rows above it.
GetPreviousBlock(offset) == {b \in db : Cardinality({c \in db : c.num > b.num}) = offset}

\* Mutant: the block itself is deleted.
ResetToL1BlockNumber_Below(n) == {b \in db : b.num < n}

ResetToL1BlockNumber(n) == {b \in db : b.num <= n}

Idle == [pc |-> "down", last |-> Zero, from |-> 0, to |-> 0, known |-> 0, blocks |-> {},
         tail |-> Zero, stage |-> "pre", cand |-> Zero, depth |-> 0]

At(pc) == snc.pc = pc
Happened(f) == \E i \in DOMAIN faults : faults[i] = f
Fault(f) == /\ f \in Faults /\ Len(faults) < MaxFaults
            /\ faults' = Append(faults, f)

Init ==
  /\ chain \in {c \in [1..Genesis -> [id : {0}, ev : BOOLEAN]] : c[Genesis].ev}
  /\ db = {} /\ snc = Idle /\ reorgs = 0 /\ blind = FALSE /\ faults = << >>
------------------------------------------------------------------------------
(* Start: Sync, processGenesis, SynchronizePreGenesisRollupEvents *)

Loop(last) == [Idle EXCEPT !.pc = "loop", !.stage = "first", !.last = last]

\* An error ends the process at start; in the loop of Sync lastEthBlockSynced is read again.
Failed == IF snc.stage = "pre" \/ db = {} THEN Idle ELSE Loop(GetLastBlock)

\* getStartingL1Block: the first block to synchronize.
getStartingL1Block == IF db = {} THEN Upgrade ELSE GetLastBlock.num

Start ==
  /\ At("down")
  /\ snc' = IF GetLastBlock.num >= Genesis THEN Loop(GetLastBlock)
            ELSE [Idle EXCEPT !.pc = IF GetLastBlock.num >= Genesis - 1 THEN "genesis" ELSE "pre",
                              !.from = getStartingL1Block]
  /\ UNCHANGED <<db, L1, faults>>

\* What follows when the blocks of a range are processed; the fields not needed are cleared.
PreRangeDone(s) ==
  IF s.to = Genesis - 1 THEN [Idle EXCEPT !.pc = "genesis"]
  ELSE [Idle EXCEPT !.pc = "pre", !.from = s.to + 1]

NextRange(s, pc, last) ==
  [Loop(last) EXCEPT !.pc = pc, !.stage = "range", !.from = s.to + 1, !.known = s.known]

RangeDone(s) ==
  IF s.known <= s.to THEN Loop(IF s.tail = Zero THEN s.last ELSE s.tail)
  ELSE IF s.tail = Zero THEN [NextRange(s, "empty", s.last) EXCEPT !.to = s.to]
  ELSE NextRange(s, "fetch", s.tail)

Continue(s) ==
  CASE s.blocks # {}      -> [s EXCEPT !.pc = "proc"]
    [] s.blocks = {} /\ s.stage = "pre"   -> PreRangeDone(s)
    [] s.blocks = {} /\ s.stage = "range" -> RangeDone(s)
    [] s.blocks = {} /\ s.stage = "empty" -> NextRange(s, "fetch", s.tail)

\* ProcessL1InfoRootEvents reads a range.
FetchPre ==
  /\ At("pre")
  /\ LET to == Min(snc.from + SyncChunkSize - 1, Genesis - 1)
         blocks == EventBlocks(snc.from, to)
     IN  snc' = Continue([snc EXCEPT !.to = to, !.blocks = blocks, !.tail = Last(blocks)])
  /\ UNCHANGED <<db, L1, faults>>

SetGenesis ==
  /\ At("genesis")
  /\ db' = db \union {EthBlock(Genesis)}
  /\ snc' = Loop(EthBlock(Genesis))
  /\ UNCHANGED <<L1, faults>>
------------------------------------------------------------------------------
(* syncBlocksSequential *)

\* Mutant: one block less.
HeaderByNumber_Before == Len(chain) - 1

HeaderByNumber == Len(chain)

\* The last known block is read once in a call.
ReadHeader ==
  /\ At("loop")
  /\ snc' = [snc EXCEPT !.pc = "check", !.known = HeaderByNumber, !.cand = snc.last,
                        !.from = IF snc.last.num > 0 THEN snc.last.num + 1 ELSE 0]
  /\ UNCHANGED <<db, L1, faults>>

\* Mutant: the second check of a range does not compare.
Matches_First(b) == snc.stage = "range" \/ b.num <= Genesis \/ OnChain(b)

\* checkReorg compares a block with L1; blocks up to the genesis block are not compared.
Matches(b) == b.num <= Genesis \/ OnChain(b)

CheckMatches ==
  /\ At("check") /\ snc.cand.num <= Len(chain) /\ Matches(snc.cand)
  /\ snc' = IF snc.cand # snc.last THEN [snc EXCEPT !.pc = "reset"]
            ELSE IF snc.stage = "first" THEN [snc EXCEPT !.pc = "fetch", !.cand = Zero]
            ELSE Continue([snc EXCEPT !.cand = Zero])
  /\ UNCHANGED <<db, L1, faults>>

CheckDiffers ==
  /\ At("check") /\ snc.cand.num <= Len(chain) /\ ~Matches(snc.cand)
  /\ LET P == GetPreviousBlock(snc.depth + 1)
     IN  snc' = IF P = {} THEN [snc EXCEPT !.pc = "reset", !.cand = Zero]
                ELSE [snc EXCEPT !.cand = Last(P), !.depth = @ + 1]
  /\ UNCHANGED <<db, L1, faults>>

\* EthBlockByNumber fails for a block that L1 does not have.
CheckFails ==
  /\ At("check") /\ snc.cand.num > Len(chain)
  /\ snc' = Failed
  /\ UNCHANGED <<db, L1, faults>>

\* resetState to the block that checkReorg returned.
ResetState ==
  /\ At("reset")
  /\ db' = ResetToL1BlockNumber(snc.cand.num)
  /\ snc' = Loop(snc.cand)
  /\ UNCHANGED <<L1, faults>>

ToBlock == Min(snc.from + SyncChunkSize, snc.known)

\* GetRollupInfoByBlockRange, and the second checkReorg begins.  A range that ends after the
\* last block of L1, before the last known one, is read without blocks that L1 will have.
GetRollupInfoByBlockRange ==
  /\ At("fetch")
  /\ LET blocks == EventBlocks(snc.from, ToBlock)
     IN  snc' = [snc EXCEPT !.pc = "check", !.stage = "range", !.to = ToBlock, !.blocks = blocks,
                            !.tail = Last(blocks), !.cand = snc.last, !.depth = 0]
  /\ blind' = (blind \/ (Len(chain) < ToBlock /\ ToBlock < snc.known))
  /\ UNCHANGED <<db, chain, reorgs, faults>>

\* A range without events is recorded by its last block.
EmptyRange ==
  /\ At("empty")
  /\ snc' = IF snc.to > Len(chain) THEN Failed
            ELSE [snc EXCEPT !.pc = "proc", !.stage = "empty", !.blocks = {EthBlock(snc.to)},
                             !.tail = EthBlock(snc.to)]
  /\ UNCHANGED <<db, L1, faults>>

\* internalProcessBlockRange: one block with its events in one database transaction.
Processed == Continue([snc EXCEPT !.blocks = @ \ {First(snc.blocks)}])

ProcessBlock ==
  /\ At("proc") /\ ~HasRow(First(snc.blocks).num)
  /\ db' = db \union {First(snc.blocks)}
  /\ snc' = Processed
  /\ UNCHANGED <<L1, faults>>

\* The primary key of state.block refuses a second row.
DuplicateBlock ==
  /\ At("proc") /\ HasRow(First(snc.blocks).num)
  /\ snc' = Failed
  /\ UNCHANGED <<db, L1, faults>>

\* An error of Commit is logged and the loop goes on.
LoseCommit ==
  /\ At("proc") /\ ~HasRow(First(snc.blocks).num)
  /\ Fault("lost")
  /\ snc' = Processed
  /\ UNCHANGED <<db, L1>>
------------------------------------------------------------------------------
(* Faults *)

\* A call to L1 or to the database fails.
Error ==
  /\ ~At("down") /\ Fault("error")
  /\ snc' = Failed
  /\ UNCHANGED <<db, L1>>

Crash ==
  /\ ~At("down") /\ Fault("crash")
  /\ snc' = Idle
  /\ UNCHANGED <<db, L1>>

\* The trusted sync of a permissionless node misses the events of an L1 block it should have:
\* the state is reset to the block before it, lastEthBlockSynced keeps its value.
DesyncReset ==
  /\ At("loop") /\ Fault("desync")
  /\ \E b \in EventBlocks(Genesis + 1, GetLastBlock.num) \ db :
       db' = ResetToL1BlockNumber(b.num - 1)
  /\ UNCHANGED <<snc, L1>>
------------------------------------------------------------------------------
(* L1 (external) *)

Mine ==
  /\ Len(chain) < MaxBlocks
  /\ \E ev \in BOOLEAN : chain' = Append(chain, [id |-> reorgs, ev |-> ev])
  /\ UNCHANGED <<db, snc, reorgs, blind, faults>>

\* Blocks that the synchronizer read in this call and will not read again, from the first
\* that is not covered by a block it compares with L1.
ReadUncovered ==
  CASE At("empty") -> 1..snc.to
    [] At("fetch") -> snc.last.num + 1 .. snc.from - 1
    [] snc.pc \in {"check", "proc"} /\ snc.stage = "range" /\ snc.to < snc.known ->
         (IF snc.tail = Zero THEN snc.last.num ELSE snc.tail.num) + 1 .. snc.to
    [] OTHER -> {}

Reorg ==
  /\ reorgs < MaxReorgs
  /\ \E n \in Genesis + 1 .. Len(chain) :
       /\ chain' = SubSeq(chain, 1, n - 1)
       /\ blind' = (blind \/ n \in ReadUncovered)
  /\ reorgs' = reorgs + 1
  /\ UNCHANGED <<db, snc, faults>>
------------------------------------------------------------------------------
Synchronizer ==
  \/ Start \/ FetchPre \/ SetGenesis \/ ReadHeader \/ CheckMatches \/ CheckDiffers
  \/ CheckFails \/ ResetState \/ GetRollupInfoByBlockRange \/ EmptyRange \/ ProcessBlock
  \/ DuplicateBlock

Next == Synchronizer \/ LoseCommit \/ Error \/ Crash \/ DesyncReset \/ Mine \/ Reorg

Spec == Init /\ [][Next]_vars

\* The loop of Sync runs, a stopped node is started again, and L1 grows.
FairSpec == Spec /\ WF_vars(Synchronizer) /\ WF_vars(Mine)
------------------------------------------------------------------------------
(* Properties *)

TypeOK ==
  /\ chain \in Seq([id : 0..MaxReorgs, ev : BOOLEAN]) /\ Len(chain) \in 0..MaxBlocks
  /\ db \subseteq Block
  /\ snc \in [pc : {"down", "pre", "genesis", "loop", "check", "reset", "fetch", "empty", "proc"},
              stage : {"pre", "first", "range", "empty"},
              last : Block, tail : Block, cand : Block, blocks : SUBSET Block,
              from : 0 .. MaxBlocks + 1, to : 0..MaxBlocks, known : 0..MaxBlocks,
              depth : 0..MaxBlocks]
  /\ reorgs \in 0..MaxReorgs /\ blind \in BOOLEAN
  /\ faults \in Seq(Faults) /\ Len(faults) <= MaxFaults

\* When the last stored block is on L1, the rows are what L1 has: every block up to it that
\* has events is stored, and no row is of a replaced block.  The second checkReorg, after
\* GetRollupInfoByBlockRange, is there for this.
RowsFollowL1 ==
  (HasRow(Genesis) /\ OnChain(GetLastBlock)) =>
    /\ EventBlocks(Upgrade, GetLastBlock.num) \subseteq db
    /\ \A b \in db : OnChain(b)

\* RowsFollowL1 holds as long as no commit is lost, the state is not reset by the trusted sync,
\* and no reorg falls on blocks that were read and are covered by no check.
Unsound == Happened("lost") \/ Happened("desync")
NoEventMissed == (blind \/ Unsound) \/ RowsFollowL1

\* checkReorg counts rows back from the last row (GetPreviousBlock), so lastEthBlockSynced must be
\* that row whenever it starts, and what is processed after it must be new: no row is
\* inserted twice and the genesis row stays.
LastIsStored ==
  (snc.stage # "pre" /\ ~Unsound) =>
    /\ HasRow(Genesis)
    /\ snc.pc \in {"check", "fetch", "empty", "loop"} => snc.last = GetLastBlock
    /\ At("proc") => \A b \in snc.blocks : b.num > GetLastBlock.num

\* The same without exception, as the comment on lastEthBlockSynced has it.
LastIsLastRow == At("check") => snc.last = GetLastBlock

\* Once the genesis block is stored, the state catches up with L1 again and again: the rows are the
\* blocks of L1, with all that have events, whatever reorgs, errors and restarts happen.
InSync ==
  /\ EventBlocks(Upgrade, Len(chain)) \subseteq db
  /\ \A b \in db : OnChain(b)
CatchesUp == HasRow(Genesis) ~> (InSync \/ blind \/ Unsound)

\* The genesis block is stored in the end, also when the first start is interrupted.
GenesisStored == <>HasRow(Genesis)
===============================================================================

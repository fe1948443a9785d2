----------------------------- MODULE L1InfoTree -----------------------------
(***************************************************************************)
(* The L1 info tree (l1infotree/, state/l1infotree.go, reset.go): a Merkle *)
(* tree over the exit roots the L1 contract published, kept as rows of the *)
(* database and, in memory, as the incremental tree State.l1InfoTree.  The *)
(* synchronizer adds the leaves of an L1 block inside the block's database *)
(* transaction; the in-memory tree is no part of that transaction.         *)
(*                                                                         *)
(* A hash is the pair of what it hashes, so hashes collide only when their *)
(* arguments are equal.  A block of L1 is [feijoa, leaves]: the fork its   *)
(* events belong to selects the etrog tree or the recursive tree of feijoa.*)
(***************************************************************************)
EXTENDS Integers, Sequences, SequencesExt, Functions

CONSTANTS Height,      \* levels of the tree (32 in the code)
          Chains,      \* the chains L1 may have, sequences of blocks
          MaxReorgs,   \* bound on the times L1 replaces its chain
          MaxFaults    \* bound on failed database calls and crashes

ASSUME HeightAssumption == Height \in Nat \ {0}

VARIABLES l1,       \* the current chain of L1
          db,       \* committed rows: [blocks, rows]
          tx,       \* the open database transaction, or NoTx
          tree,     \* State.l1InfoTree, or NoTree
          rtree,    \* State.l1InfoTreeRecursive, or NoTree
          reorgs, faults

vars == <<l1, db, tx, tree, rtree, reorgs, faults>>

NoTx   == [open |-> FALSE]
NoTree == [count |-> -1]
Capacity == 2^Height

-----------------------------------------------------------------------------
(* l1infotree/hash.go                                                      *)

ZeroHash == <<>>
Hash(left, right) == <<left, right>>

\* zeroHashes[h] is the root of an empty subtree of height h.
generateZeroHashes ==
  LET zero[h \in 0..Height] ==
        IF h = 0 THEN ZeroHash ELSE Hash(zero[h-1], zero[h-1])
  IN  zero

-----------------------------------------------------------------------------
(* l1infotree/tree.go.  Leaves are sequences, levels are functions on 0..  *)

\* A level with an odd number of nodes is filled up with one empty subtree.
Padded(level, h) ==
  IF Len(level) % 2 = 1 THEN Append(level, generateZeroHashes[h]) ELSE level

buildIntermediate(level) ==
  [i \in 1..(Len(level) \div 2) |-> Hash(level[2*i - 1], level[2*i])]

\* levels[h] are the nodes at height h that the code computes.
Levels(leaves) ==
  LET levels[h \in 0..Height] ==
        IF h = 0 THEN IF leaves = <<>> THEN <<ZeroHash>> ELSE leaves
                 ELSE buildIntermediate(Padded(levels[h-1], h-1))
  IN  levels

BuildL1InfoRoot(leaves) == Levels(leaves)[Height][1]

\* Mutant: the index is not halved from one level to the next.
ComputeMerkleProof_SameIndex(gerIndex, leaves) ==
  [h \in 0..Height-1 |->
     LET level == Padded(Levels(leaves)[h], h)
     IN  IF gerIndex >= Len(level) THEN generateZeroHashes[h]
         ELSE IF gerIndex % 2 = 1  THEN level[gerIndex]
                                   ELSE level[gerIndex + 2]]

ComputeMerkleProof(gerIndex, leaves) ==
  [h \in 0..Height-1 |->
     LET index == gerIndex \div 2^h
         level == Padded(Levels(leaves)[h], h)
     IN  IF index >= Len(level) THEN generateZeroHashes[h]
         ELSE IF index % 2 = 1  THEN level[index]
                                ELSE level[index + 2]]

Bit(index, h) == (index \div 2^h) % 2 = 1

initSiblings(leaves) ==
  IF leaves = <<>> THEN [h \in 0..Height-1 |-> generateZeroHashes[h]]
                   ELSE ComputeMerkleProof(Len(leaves), leaves)

NewL1InfoTree(leaves) ==
  [count |-> Len(leaves), siblings |-> initSiblings(leaves), root |-> BuildL1InfoRoot(leaves)]

\* Mutant: the sibling is replaced where the bit of the index is set.
AddLeaf_SetBit(t, leaf) ==
  LET index == t.count
      cur[h \in 0..Height] ==
        IF h = 0 THEN leaf
        ELSE IF Bit(index, h-1) THEN Hash(t.siblings[h-1], cur[h-1])
                                ELSE Hash(cur[h-1], generateZeroHashes[h-1])
  IN  [count    |-> index + 1,
       siblings |-> [h \in 0..Height-1 |-> IF Bit(index, h) THEN cur[h] ELSE t.siblings[h]],
       root     |-> cur[Height]]

\* The sibling of a level is replaced only at the lowest clear bit of the
\* index, where the subtree to the left has just been filled.
AddLeaf(t, leaf) ==
  LET index == t.count
      cur[h \in 0..Height] ==
        IF h = 0 THEN leaf
        ELSE IF Bit(index, h-1) THEN Hash(t.siblings[h-1], cur[h-1])
                                ELSE Hash(cur[h-1], generateZeroHashes[h-1])
      isFilledSubTree(h) == \A k \in 0..h-1 : Bit(index, k)
  IN  [count    |-> index + 1,
       siblings |-> [h \in 0..Height-1 |->
                       IF ~Bit(index, h) /\ isFilledSubTree(h) THEN cur[h] ELSE t.siblings[h]],
       root     |-> cur[Height]]

-----------------------------------------------------------------------------
(* l1infotree/tree_recursive.go: [count, historic, leaf]                   *)

GetRoot(r) ==
  IF r.historic.root = generateZeroHashes[Height] /\ r.leaf = ZeroHash
  THEN ZeroHash
  ELSE Hash(r.historic.root, r.leaf)

NewL1InfoTreeRecursive == [count |-> 0, historic |-> NewL1InfoTree(<<>>), leaf |-> ZeroHash]

AddRecursiveLeaf(r, leaf) ==
  [count |-> r.count + 1, historic |-> AddLeaf(r.historic, GetRoot(r)), leaf |-> leaf]

NewL1InfoTreeRecursiveFromLeaves(leaves) ==
  FoldLeft(AddRecursiveLeaf, NewL1InfoTreeRecursive, leaves)

-----------------------------------------------------------------------------
(* The rows of state.exit_root.  recursive says which of the two index     *)
(* columns the row fills.                                                  *)

LeavesOf(rows) == [i \in DOMAIN rows |-> rows[i].leaf]
GetAllL1InfoRootEntries(rows) == LeavesOf(SelectSeq(rows, LAMBDA r : ~r.recursive))
GetAllL1InfoTreeRecursiveRootEntries(rows) == LeavesOf(SelectSeq(rows, LAMBDA r : r.recursive))

\* Mutant: the newest index instead of the next one.
NextIndex_Latest(rows) ==
  IF rows = <<>> THEN 0 ELSE Len(GetAllL1InfoRootEntries(rows)) - 1

\* max(l1_info_tree_index) + 1, or 0 without rows
NextIndex(rows) == Len(GetAllL1InfoRootEntries(rows))

\* What the synchronizer reads: its own transaction, or the committed rows.
View == IF tx.open THEN tx ELSE db

-----------------------------------------------------------------------------
(* state/l1infotree.go and l1infotree_recursive.go.  The block under way   *)
(* is the last one of tx.blocks; tx.todo are the leaves it has still to    *)
(* add.  An error returned to the synchronizer rolls the transaction back; *)
(* the in-memory trees stay as they are.                                   *)

TypeOK ==
  /\ l1 \in Chains
  /\ \A d \in {db, View} : \A i \in DOMAIN d.rows :
       d.rows[i].block \in DOMAIN d.blocks /\ d.rows[i].recursive \in BOOLEAN
  /\ tree.count \in -1..Capacity /\ rtree.count \in -1..Capacity
  /\ reorgs \in 0..MaxReorgs /\ faults \in 0..MaxFaults

buildL1InfoTreeCacheIfNeed(rows) ==
  IF tree # NoTree THEN tree ELSE NewL1InfoTree(GetAllL1InfoRootEntries(rows))

buildL1InfoTreeRecursiveCacheIfNeed(rows) ==
  NewL1InfoTreeRecursiveFromLeaves(GetAllL1InfoTreeRecursiveRootEntries(rows))

\* addL1InfoRootToExitRootVx: both trees write the same index column.
AddL1InfoRootToExitRoot(root) ==
  [tx EXCEPT !.rows = Append(@, [block |-> Len(tx.blocks), leaf |-> Head(tx.todo),
                                 root |-> root, recursive |-> FALSE]),
             !.todo = Tail(@)]

InBlock(feijoa) == tx.open /\ tx.todo # <<>> /\ Last(tx.blocks).feijoa = feijoa

Init ==
  /\ l1 \in Chains
  /\ db = [blocks |-> <<>>, rows |-> <<>>]
  /\ tx = NoTx
  /\ tree = NewL1InfoTree(<<>>)
  /\ rtree = NewL1InfoTreeRecursive
  /\ reorgs = 0 /\ faults = 0

\* ProcessBlockRange opens a transaction and stores the block's row.
BeginBlock ==
  /\ ~tx.open /\ IsPrefix(db.blocks, l1) /\ db.blocks # l1
  /\ LET block == l1[Len(db.blocks) + 1]
     IN  tx' = [open |-> TRUE, blocks |-> Append(db.blocks, block), rows |-> db.rows,
                todo |-> block.leaves]
  /\ UNCHANGED <<l1, db, tree, rtree, reorgs, faults>>

\* Mutant: the tree takes the leaf whatever its count.
AddL1InfoTreeLeaf_AnyCount ==
  /\ InBlock(FALSE)
  /\ LET built == buildL1InfoTreeCacheIfNeed(tx.rows)
         added == AddLeaf(built, Head(tx.todo))
     IN  /\ tree' = added
         /\ \/ tx' = AddL1InfoRootToExitRoot(added.root) /\ UNCHANGED faults
            \/ faults < MaxFaults /\ tx' = NoTx /\ faults' = faults + 1
  /\ UNCHANGED <<l1, db, rtree, reorgs>>

\* The tree takes the leaf only if its count is the index of the next row,
\* and takes it before the row is written.
AddL1InfoTreeLeaf ==
  /\ InBlock(FALSE)
  /\ LET built == buildL1InfoTreeCacheIfNeed(tx.rows)
         added == AddLeaf(built, Head(tx.todo))
     IN  \/ /\ NextIndex(tx.rows) # built.count
            /\ tree' = built /\ tx' = NoTx /\ UNCHANGED faults
         \/ /\ NextIndex(tx.rows) = built.count
            /\ tree' = added /\ tx' = AddL1InfoRootToExitRoot(added.root) /\ UNCHANGED faults
         \/ /\ NextIndex(tx.rows) = built.count /\ faults < MaxFaults
            /\ tree' = added /\ tx' = NoTx /\ faults' = faults + 1
  /\ UNCHANGED <<l1, db, rtree, reorgs>>

\* main: the trees are built before the synchronizer starts.
Started ==
  /\ tx' = NoTx
  /\ tree'  = NewL1InfoTree(GetAllL1InfoRootEntries(db.rows))
  /\ rtree' = buildL1InfoTreeRecursiveCacheIfNeed(db.rows)

\* The feijoa event builds the etrog cache and numbers the leaf by the etrog
\* column, then adds to the recursive tree; a nil one is a panic, which ends
\* the process.
AddL1InfoTreeRecursiveLeaf ==
  /\ InBlock(TRUE)
  /\ LET built == buildL1InfoTreeCacheIfNeed(tx.rows)
         added == AddRecursiveLeaf(rtree, Head(tx.todo))
     IN  \/ rtree = NoTree /\ Started /\ UNCHANGED faults
         \/ /\ rtree # NoTree /\ NextIndex(tx.rows) # rtree.count
            /\ tree' = built /\ tx' = NoTx /\ UNCHANGED <<rtree, faults>>
         \/ /\ rtree # NoTree /\ NextIndex(tx.rows) = rtree.count
            /\ tree' = built /\ rtree' = added
            /\ \/ tx' = AddL1InfoRootToExitRoot(GetRoot(added)) /\ UNCHANGED faults
               \/ faults < MaxFaults /\ tx' = NoTx /\ faults' = faults + 1
  /\ UNCHANGED <<l1, db, reorgs>>

\* A sequenced batch of the block is executed with the current root.
GetCurrentL1InfoRoot ==
  /\ tx.open /\ tx.todo # <<>> /\ tree = NoTree
  /\ tree' = buildL1InfoTreeCacheIfNeed(tx.rows)
  /\ UNCHANGED <<l1, db, tx, rtree, reorgs, faults>>

\* State.Reset, to the last block L1 still has: the rows go inside a
\* transaction, the trees at once.
Reset ==
  /\ ~tx.open /\ ~IsPrefix(db.blocks, l1)
  /\ LET kept == LongestCommonPrefix({db.blocks, l1})
     IN  tx' = [open |-> TRUE, blocks |-> kept, todo |-> <<>>,
                rows |-> SelectSeq(db.rows, LAMBDA r : r.block <= Len(kept))]
  /\ tree' = NoTree /\ rtree' = NoTree
  /\ UNCHANGED <<l1, db, reorgs, faults>>

Commit ==
  /\ tx.open /\ tx.todo = <<>>
  /\ \/ db' = [blocks |-> tx.blocks, rows |-> tx.rows] /\ UNCHANGED faults
     \/ faults < MaxFaults /\ faults' = faults + 1 /\ UNCHANGED db
  /\ tx' = NoTx
  /\ UNCHANGED <<l1, tree, rtree, reorgs>>

Restart ==
  /\ faults < MaxFaults /\ faults' = faults + 1
  /\ Started
  /\ UNCHANGED <<l1, db, reorgs>>

Reorg ==
  /\ reorgs < MaxReorgs /\ reorgs' = reorgs + 1
  /\ l1' \in {c \in Chains \ {l1} : c[1] = l1[1]}
  /\ UNCHANGED <<db, tx, tree, rtree, faults>>

Sync == \/ BeginBlock \/ AddL1InfoTreeLeaf \/ AddL1InfoTreeRecursiveLeaf
        \/ GetCurrentL1InfoRoot \/ Reset \/ Commit

Next == Sync \/ Restart \/ Reorg

\* The synchronizer's loop never stops; a failed block is tried again.
Spec == Init /\ [][Next]_vars /\ WF_vars(Sync)

-----------------------------------------------------------------------------
(* The reference: node i at height h of the complete tree.                 *)

Node(leaves) ==
  LET node[h \in 0..Height] ==
        [i \in 0..(2^(Height - h) - 1) |->
           IF h > 0 THEN Hash(node[h-1][2*i], node[h-1][2*i + 1])
           ELSE IF i < Len(leaves) THEN leaves[i + 1] ELSE ZeroHash]
  IN  node

RefRoot(leaves) == Node(leaves)[Height][0]

\* A leaf of the historic tree is the root before the leaf that follows it.
RefRecursiveRoot(leaves) ==
  LET root[n \in 0..Len(leaves)] ==
        IF n = 0 THEN ZeroHash
        ELSE Hash(RefRoot([i \in 1..n |-> root[i-1]]), leaves[n])
  IN  root[Len(leaves)]

\* The root a row stores is the root of the complete tree over the leaves up
\* to it, however the in-memory tree that computed it was filled, rolled back
\* under, thrown away and rebuilt (AddL1InfoTreeLeaf and its recursive twin).
RootsStored ==
  \A i \in DOMAIN db.rows :
    LET leaves == LeavesOf(SubSeq(db.rows, 1, i))
    IN  db.rows[i].root = IF db.blocks[db.rows[i].block].feijoa
                          THEN RefRecursiveRoot(leaves) ELSE RefRoot(leaves)

\* The in-memory tree either is the tree of the rows the synchronizer sees,
\* with every sibling the next leaf will be hashed with in its place, or is
\* strictly longer than them, so that AddLeaf refuses to go on with it.
CacheFollows ==
  LET leaves == GetAllL1InfoRootEntries(View.rows)
  IN  \/ l1[1].feijoa
      \/ tree = NoTree
      \/ tree.count > Len(leaves)
      \/ /\ tree.count = Len(leaves)
         /\ tree.root = RefRoot(leaves)
         /\ \A h \in 0..Height-1 :
              Bit(tree.count, h) => tree.siblings[h] = Node(leaves)[h][tree.count \div 2^h - 1]

\* The proof the aggregator attaches to a leaf of a stored root leads from
\* the leaf to that root (ComputeMerkleProof in buildInputProver).
ProofsVerify ==
  LET leaves == LeavesOf(db.rows)
  IN  \A i \in DOMAIN leaves :
        LET proof == ComputeMerkleProof(i - 1, leaves)
            up[h \in 0..Height] ==
              IF h = 0 THEN leaves[i]
              ELSE IF Bit(i - 1, h - 1) THEN Hash(proof[h-1], up[h-1]) ELSE Hash(up[h-1], proof[h-1])
        IN  up[Height] = RefRoot(leaves)

\* The next leaf cannot be added: the tree is longer than the rows, or the
\* recursive tree, which is rebuilt from a column nothing fills, is not at
\* the next index.
Refused ==
  IF l1[1].feijoa THEN rtree.count # Len(View.rows) ELSE tree.count > Len(View.rows)

Synced == db.blocks = l1

\* Once L1 settles, every leaf of it is stored, unless the synchronizer is
\* left with a tree that refuses it (retried by the loop of syncBlocks).
LeavesStored == <>[](Synced \/ Refused)

\* The same without the exception.
AllLeavesStored == <>[]Synced

\* A tree that is there has the root of the rows the transaction sees: what
\* GetCurrentL1InfoRoot hands to the executor ("Return current L1InfoRoot").
RootServed == tx.open /\ tree # NoTree => tree.root = RefRoot(GetAllL1InfoRootEntries(tx.rows))

\* Reset says a discarded tree "is going to be rebuild on the next request
\* that needs it": no request ever meets a nil tree.
RebuiltWhenNeeded == InBlock(TRUE) => rtree # NoTree
=============================================================================

----------------------------- MODULE DataStream -----------------------------
(***************************************************************************)
(* The data stream of the sequencer (sequencer/datastreamer.go, the sender *)
(* goroutine of sequencer.go, state/datastream.go): the finalizer commits  *)
(* batches and L2 blocks to the database and puts them on the channel      *)
(* dataToStream; sendDataToStreamer appends them to the stream file, one   *)
(* atomic operation of the file per message; at start the file is brought  *)
(* up to date from the database, one atomic operation per batch.           *)
(*                                                                         *)
(* An L2 block is [num, batch, idx]: idx is the L1 info tree index that    *)
(* the batch data records for it.  Its entries (block bookmark, start,     *)
(* transactions, end) always go to the file in one atomic operation and    *)
(* are one entry here; txs says whether all its transactions are there.    *)
(***************************************************************************)
EXTENDS Integers, Sequences, FiniteSets, SequencesExt

CONSTANTS Indexes,          \* L1 info tree indexes of L2 blocks
          MaxBatches,       \* bound on batches
          MaxBlocks,        \* bound on L2 blocks
          MaxForcedBlocks,  \* bound on L2 blocks of a forced batch
          ChannelCap,       \* capacity of dataToStream (400 in the code)
          PageSize,         \* batches read at once at start (10000 in the code)
          Faults,           \* kinds of faults that may happen, see Fault
          MaxFaults         \* bound on faults

VARIABLES batches,     \* committed batches: sequence of [forced, wip, blocks]
          pc,          \* what the finalizer is doing
          dataToStream,
          stream,      \* committed entries of the stream file
          server,      \* "on", "off" (s.streamServer = nil), or "bad": off, with
                       \* the error of a failed rollback still to be handled
          opOpen,      \* an atomic operation was left open
          gen,         \* progress of GenerateDataStreamerFile
          faults       \* kinds of the faults so far

vars == <<batches, pc, dataToStream, stream, server, opOpen, gen, faults>>

BlocksOf(bs) == FlattenSeq([i \in DOMAIN bs |-> bs[i].blocks])
LastNum(bs)  == Len(BlocksOf(bs))          \* blocks are numbered from 1; 0 is genesis

GenesisBlock == [num |-> 0, batch |-> 0, idx |-> 0]
BatchMark(b) == [type |-> "batch", batch |-> b]
GEREntry(b)  == [type |-> "ger", batch |-> b]
BlockEntry(block, txs) == [type |-> "block", batch |-> block.batch, block |-> block, txs |-> txs]

BlockEntries(entries) == SelectSeq(entries, LAMBDA e : e.type = "block")
IsStreamed(num) == \E i \in DOMAIN stream : stream[i].type = "block" /\ stream[i].block.num = num

\* A fault of this kind may still happen; each kind happens once.
Fault(kind) ==
  kind \in Faults \ faults /\ Cardinality(faults) < MaxFaults /\ faults' = faults \cup {kind}

-----------------------------------------------------------------------------
(* The finalizer.  pc is [at |-> "work"] between operations, "send" with a *)
(* message to put on the channel, "closed" after the WIP batch was closed, *)
(* "forced" inside the transaction of a forced batch, "start" while the    *)
(* file is brought up to date, and "init" when that left a closed batch.   *)

NotRead == [from |-> -1]
Work == [at |-> "work"]
Send(msg) == [at |-> "send", msg |-> msg]

\* batch 1 is the initial batch, written by the synchronizer.
Init ==
  /\ batches = <<[forced |-> TRUE, wip |-> FALSE,
                  blocks |-> <<[num |-> 1, batch |-> 1, idx |-> 0]>>]>>
  /\ pc = [at |-> "start"]
  /\ dataToStream = <<>> /\ stream = <<>>
  /\ server = "on" /\ opOpen = FALSE
  /\ gen = NotRead
  /\ faults = {}

\* storeL2Block: the block and the WIP batch's data in one transaction.
storeL2Block ==
  /\ pc = Work /\ Last(batches).wip /\ LastNum(batches) < MaxBlocks
  /\ \E idx \in Indexes :
       LET block == [num |-> LastNum(batches) + 1, batch |-> Len(batches), idx |-> idx]
       IN  /\ batches' = [batches EXCEPT ![Len(batches)].blocks = Append(@, block)]
           /\ pc' = Send(BlockEntry(block, TRUE))
  /\ UNCHANGED <<dataToStream, stream, server, opOpen, gen, faults>>

\* Mutant: DSSendL2Block drops a block when the channel is full.
DSSend_Drop ==
  /\ pc.at = "send"
  /\ \/ Len(dataToStream) < ChannelCap /\ dataToStream' = Append(dataToStream, pc.msg)
     \/ /\ Len(dataToStream) = ChannelCap /\ pc.msg.type = "block"
        /\ UNCHANGED dataToStream
  /\ pc' = Work
  /\ UNCHANGED <<batches, stream, server, opOpen, gen, faults>>

\* DSSendL2Block and DSSendBatchBookmark block while the channel is full.
DSSend ==
  /\ pc.at = "send" /\ Len(dataToStream) < ChannelCap
  /\ dataToStream' = Append(dataToStream, pc.msg)
  /\ pc' = Work
  /\ UNCHANGED <<batches, stream, server, opOpen, gen, faults>>

\* closeAndOpenNewWIPBatch waits until every block is stored and sent.
closeWIPBatch ==
  /\ pc = Work /\ Last(batches).wip /\ Last(batches).blocks # <<>>
  /\ Len(batches) < MaxBatches
  /\ batches' = [batches EXCEPT ![Len(batches)].wip = FALSE]
  /\ pc' = [at |-> "closed"]
  /\ UNCHANGED <<dataToStream, stream, server, opOpen, gen, faults>>

openNewWIPBatch ==
  /\ pc.at \in {"closed", "init"} /\ Len(batches) < MaxBatches
  /\ batches' = Append(batches, [forced |-> FALSE, wip |-> TRUE, blocks |-> <<>>])
  /\ pc' = Send(BatchMark(Len(batches) + 1))
  /\ UNCHANGED <<dataToStream, stream, server, opOpen, gen, faults>>

\* A forced batch is executed into zero or more L2 blocks, which are put on
\* the channel inside the database transaction, before it is committed.
processForcedBatch ==
  /\ pc.at = "closed" /\ Len(batches) + 1 < MaxBatches
  /\ \E n \in 0..MaxForcedBlocks :
       LastNum(batches) + n <= MaxBlocks /\
       pc' = [at |-> "forced", sent |-> 0,
              blocks |-> [i \in 1..n |-> [num |-> LastNum(batches) + i,
                                          batch |-> Len(batches) + 1, idx |-> 0]]]
  /\ UNCHANGED <<batches, dataToStream, stream, server, opOpen, gen, faults>>

handleProcessForcedBatchResponse ==
  /\ pc.at = "forced" /\ pc.sent < Len(pc.blocks) /\ Len(dataToStream) < ChannelCap
  /\ dataToStream' = Append(dataToStream, BlockEntry(pc.blocks[pc.sent + 1], TRUE))
  /\ pc' = [pc EXCEPT !.sent = @ + 1]
  /\ UNCHANGED <<batches, stream, server, opOpen, gen, faults>>

commitForcedBatch ==
  /\ pc.at = "forced" /\ pc.sent = Len(pc.blocks)
  /\ \/ /\ batches' = Append(batches, [forced |-> TRUE, wip |-> FALSE, blocks |-> pc.blocks])
        /\ UNCHANGED faults
     \/ Fault("abort") /\ UNCHANGED batches       \* rolled back; the finalizer goes on
  /\ pc' = [at |-> "closed"]
  /\ UNCHANGED <<dataToStream, stream, server, opOpen, gen>>

-----------------------------------------------------------------------------
(* sendDataToStreamer, one message per step.  Entries added to an atomic   *)
(* operation that is not committed are lost.                               *)

HasPrevious(msg) == msg.type = "block" => IsStreamed(msg.block.num - 1)

Received == dataToStream # <<>> /\ dataToStream' = Tail(dataToStream)

Streamed ==
  /\ Received /\ server = "on" /\ ~opOpen /\ HasPrevious(Head(dataToStream))
  /\ stream' = Append(stream, Head(dataToStream))
  /\ UNCHANGED <<batches, pc, server, opOpen, gen, faults>>

\* A transaction entry that is not added is skipped, and the error forgotten.
StreamedWithoutTx ==
  /\ Received /\ server = "on" /\ ~opOpen /\ HasPrevious(Head(dataToStream))
  /\ Head(dataToStream).type = "block" /\ Fault("tx")
  /\ stream' = Append(stream, [Head(dataToStream) EXCEPT !.txs = FALSE])
  /\ UNCHANGED <<batches, pc, server, opOpen, gen>>

\* The error of the look-up of the previous block goes to a variable of its
\* own: the operation stays open and the loop goes on as if nothing failed.
PreviousNotFound ==
  /\ Received /\ server = "on" /\ ~opOpen /\ Head(dataToStream).type = "block"
  /\ \/ ~HasPrevious(Head(dataToStream)) /\ UNCHANGED faults
     \/ Fault("prev")
  /\ opOpen' = TRUE
  /\ UNCHANGED <<batches, pc, stream, server, gen>>

\* Any other failed call, or StartAtomicOp with an operation open: roll back
\* and go on without a server.
StreamError ==
  /\ Received /\ server = "on"
  /\ \/ opOpen /\ server' = "off" /\ UNCHANGED faults
     \/ Fault("stream") /\ server' = "off"
     \/ Fault("rollback") /\ server' = "bad"
  /\ opOpen' = FALSE
  /\ UNCHANGED <<batches, pc, stream, gen>>

Discarded ==
  /\ Received /\ server = "off"
  /\ UNCHANGED <<batches, pc, stream, server, opOpen, gen, faults>>

-----------------------------------------------------------------------------
(* A crash, and updateDataStreamerFile at the next start.                  *)

Stopped ==
  /\ pc' = [at |-> "start"] /\ gen' = NotRead
  /\ dataToStream' = <<>> /\ server' = "on" /\ opOpen' = FALSE
  /\ UNCHANGED <<batches, stream>>

\* A block of the forced batch that is not committed yet is in the stream.
ForcedStreamed == pc.at = "forced" /\ pc.sent > 0 /\ IsStreamed(pc.blocks[1].num)

Crash ==
  /\ Fault(IF ForcedStreamed THEN "forcedcrash"
           ELSE IF "crash" \in faults THEN "recrash" ELSE "crash")
  /\ Stopped

\* After a failed rollback the next turn of the loop calls a nil server.
Panic ==
  /\ server = "bad" /\ dataToStream # <<>>
  /\ faults' = IF ForcedStreamed THEN faults \cup {"forcedcrash"} ELSE faults
  /\ Stopped

\* GenerateDataStreamerFile up to its loop: where to go on from.
resumeDataStreamerFile ==
  /\ pc.at = "start" /\ gen = NotRead
  /\ LET from(batch, block) == [from |-> batch, pos |-> 0, lastBatch |-> 0,
                                lastBlock |-> block, prev |-> block]
     IN  IF stream = <<>>
         THEN /\ stream' = <<BatchMark(0), BlockEntry(GenesisBlock, TRUE)>>
              /\ gen' = from(1, 0)
         ELSE LET latest == Last(stream)
              IN  /\ gen' = CASE latest.type = "ger"   -> from(latest.batch + 1, 0)
                              [] latest.type = "block" -> from(latest.batch, latest.block.num)
                              [] latest.type = "batch" -> from(latest.batch, 0)
                  /\ UNCHANGED stream
  /\ UNCHANGED <<batches, pc, dataToStream, server, opOpen, faults>>

\* computeFullBatches: the blocks after the last one streamed before.
FullBatch(b) ==
  SelectSeq(batches[b].blocks, LAMBDA block : gen.prev = 0 \/ block.num > gen.prev)

\* The raw block of the batch data is taken at the position the block has
\* among those still to be added.
RawIndex(b, i) == IF batches[b].forced THEN 0 ELSE batches[b].blocks[i].idx

HasGER(b) == batches[b].forced \/ \E i \in DOMAIN batches[b].blocks : batches[b].blocks[i].idx # 0

\* Mutant: a batch that is resumed is added from its first block.
BatchEntries_AllBlocks(b, emitGER) ==
  LET mark   == IF gen.pos = 0 /\ Contains(stream, BatchMark(b)) THEN <<>> ELSE <<BatchMark(b)>>
      full   == batches[b].blocks
      blocks == [i \in DOMAIN full |-> BlockEntry([full[i] EXCEPT !.idx = RawIndex(b, i)], TRUE)]
      ger    == IF full = <<>> /\ emitGER THEN <<GEREntry(b)>> ELSE <<>>
  IN  mark \o ger \o blocks


BatchEntries(b, emitGER) ==
  LET mark   == IF gen.pos = 0 /\ Contains(stream, BatchMark(b)) THEN <<>> ELSE <<BatchMark(b)>>
      full   == FullBatch(b)
      blocks == [i \in DOMAIN full |-> BlockEntry([full[i] EXCEPT !.idx = RawIndex(b, i)], TRUE)]
      new    == SelectSeq(blocks, LAMBDA e : ~IsStreamed(e.block.num))
      ger    == IF full = <<>> /\ emitGER THEN <<GEREntry(b)>> ELSE <<>>
  IN  mark \o ger \o new

\* One batch of the current page: batches from gen.from to gen.from + PageSize.
GenerateBatch ==
  /\ pc.at = "start" /\ gen # NotRead /\ gen.pos <= PageSize
  /\ LET b == gen.from + gen.pos
         full == FullBatch(b)
     IN  /\ b <= Len(batches)
         /\ IF b = 0 \/ (gen.lastBatch # 0 /\ b <= gen.lastBatch)
            THEN gen' = [gen EXCEPT !.pos = @ + 1] /\ UNCHANGED stream
            ELSE /\ \E emitGER \in BOOLEAN :
                      (emitGER => HasGER(b)) /\ stream' = stream \o BatchEntries(b, emitGER)
                 /\ gen' = [gen EXCEPT !.pos = @ + 1, !.lastBatch = b,
                              !.lastBlock = IF full = <<>> THEN @ ELSE Last(full).num]
  /\ UNCHANGED <<batches, pc, dataToStream, server, opOpen, faults>>

GenerateNextPage ==
  /\ pc.at = "start" /\ gen # NotRead /\ gen.from <= Len(batches)
  /\ gen.pos > PageSize \/ gen.from + gen.pos > Len(batches)
  /\ gen' = [gen EXCEPT !.from = @ + PageSize, !.pos = 0, !.prev = gen.lastBlock]
  /\ UNCHANGED <<batches, pc, dataToStream, stream, server, opOpen, faults>>

\* The file is up to date; initWIPBatch goes on with the WIP batch or opens one.
Started ==
  /\ pc.at = "start" /\ gen # NotRead /\ gen.from > Len(batches)
  /\ pc' = IF Last(batches).wip THEN Work ELSE [at |-> "init"]
  /\ gen' = NotRead
  /\ UNCHANGED <<batches, dataToStream, stream, server, opOpen, faults>>

Finalizer == \/ storeL2Block \/ closeWIPBatch \/ openNewWIPBatch \/ processForcedBatch
FinishOp  == \/ DSSend \/ handleProcessForcedBatchResponse \/ commitForcedBatch
Sender    == \/ Streamed \/ StreamedWithoutTx \/ PreviousNotFound \/ StreamError
             \/ Discarded \/ Panic
Generate  == \/ resumeDataStreamerFile \/ GenerateBatch \/ GenerateNextPage \/ Started

Next == Finalizer \/ FinishOp \/ Sender \/ Generate \/ Crash

\* The sender goroutine, the start-up and an operation the finalizer has
\* begun go on; nothing makes the finalizer begin another one.
Spec == Init /\ [][Next]_vars /\ WF_vars(Sender) /\ WF_vars(Generate) /\ WF_vars(FinishOp)

-----------------------------------------------------------------------------
StoredNums ==
  LET nums(blocks) == [i \in DOMAIN blocks |-> blocks[i].num]
  IN  <<0>> \o nums(BlocksOf(batches))
            \o (IF pc.at = "forced" THEN nums(SubSeq(pc.blocks, 1, pc.sent)) ELSE <<>>)

StreamedNums == LET es == BlockEntries(stream) IN [i \in DOMAIN es |-> es[i].block.num]

\* GenerateDataStreamerFile has taken a batch of the sequencer whose blocks
\* are all streamed for an empty one.
SpuriousGER == \E i \in DOMAIN stream : stream[i].type = "ger" /\ ~batches[stream[i].batch].forced

\* The failures the stream is not protected from: a forced block streamed
\* whose transaction does not commit, and a restart that finds a spurious
\* GER update as the last entry and takes its batch for finished.
Broken == "abort" \in faults \/ "forcedcrash" \in faults \/ SpuriousGER

Copy == INSTANCE L2BlockStream WITH
          Block <- 0..MaxBlocks,
          stored <- StoredNums, streamed <- StreamedNums, broken <- Broken

\* Until one of those failures, the stream is a copy of the L2 blocks of the
\* trusted state: every block once, in order, without a gap, whatever a crash
\* or an error of the stream file takes from the channel.  A forced block
\* counts as stored once it is on the channel.
StreamsTheState == Copy!Spec


AllStreamed == StreamedNums = StoredNums

\* A stored block reaches the stream, unless the sender gave up its server.
StreamCatchesUp == []<>(AllStreamed \/ server # "on" \/ opOpen \/ Broken)

\* A streamed block carries the L1 info tree index of its batch data.
IndexesMatch ==
  \A i \in DOMAIN stream :
    stream[i].type = "block" /\ stream[i].batch \in DOMAIN batches
      => \A j \in DOMAIN batches[stream[i].batch].blocks :
           batches[stream[i].batch].blocks[j].num = stream[i].block.num
             => batches[stream[i].batch].blocks[j] = stream[i].block

\* Without the exceptions of Broken: the stream is a prefix of the state.
StreamIsPrefix == IsPrefix(StreamedNums, StoredNums)

\* "Stream a complete L2 block with its transactions" (sendDataToStreamer).
BlocksComplete == \A i \in DOMAIN stream : stream[i].type = "block" => stream[i].txs
=============================================================================

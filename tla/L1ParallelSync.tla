---------------------------- MODULE L1ParallelSync ----------------------------
(***************************************************************************)
(* The synchronizer's reading of L1 in parallel mode                       *)
(* (synchronizer/l1_parallel_sync, and syncBlocksParallel of               *)
(* synchronizer/synchronizer.go).                                          *)
(*                                                                         *)
(* A producer divides L1 into ranges and gives them to workers.  The       *)
(* answers arrive in any order; a filter puts them in order and the        *)
(* producer sends them through a channel to the consumer, which stores     *)
(* them.  The main goroutine checks L1 for a reorg, runs the consumer      *)
(* until it stops, and resets producer and consumer after an error.        *)
(*                                                                         *)
(* An L1 block is its number and its id (the hash); a block with ev set    *)
(* has events of the rollup.  The number 0 is no block                     *)
(* (invalidBlockNumber), and Latest is latestBlockNumber.                  *)
(***************************************************************************)
EXTENDS Naturals, Sequences, SequencesExt

CONSTANTS
  Genesis,        \* s.genesis.BlockNumber, stored before
  SyncChunkSize,
  Unsafe,         \* maximumBlockDistanceFromLatestToFinalized
  Workers,        \* number of workers for ranges
  ChannelCap,     \* MaxPendingNoProcessedBlocks
  CmdCap,         \* lenCommandsChannels
  MaxBlocks,      \* bound: length of L1
  MaxFaults,      \* bound: faults, all together
  Faults          \* the faults that may occur

FaultKinds == {"error", "process", "reset", "crash", "reorg"}

ASSUME L1ParallelSyncAssumption ==
  /\ {Genesis, SyncChunkSize, Unsafe, Workers, ChannelCap, CmdCap, MaxBlocks, MaxFaults} \subseteq Nat
  /\ 1 < Genesis /\ Genesis < MaxBlocks
  /\ 0 < SyncChunkSize /\ 0 < Workers /\ 0 < ChannelCap /\ 0 < CmdCap
  /\ Faults \subseteq FaultKinds

VARIABLES
  chain,   \* L1: sequence of [id, ev]
  db,      \* state.block: rows [num, id]
  main,    \* [pc, last, next]: last is lastEthBlockSynced, next the pc after a reset
  prod,    \* the producer: [pc, status, start]; start is the parameter of a reset
  ss,      \* syncStatus: [last, req, l1, proc, err]: lastBlockStoreOnStateDB,
           \* highestBlockRequested, lastBlockOnL1, processingRanges, errorRanges
  filter,  \* [last, pending]
  jobs,    \* per worker its request, or NoJob
  resp,    \* responses of the workers
  ch,      \* the channel to the consumer
  cmds,    \* channelCmds
  cons,    \* the consumer: [run, err, highest, received, synced]
  hist     \* history: [reorgs, faults, blind], see below

vars == <<chain, db, main, prod, ss, filter, jobs, resp, ch, cmds, cons, hist>>

Latest == MaxBlocks + SyncChunkSize + 2
Zero == [num |-> 0, id |-> 0]    \* nil
EthBlock(n) == [num |-> n, id |-> chain[n].id]
OnChain(b) == b.num \in DOMAIN chain /\ EthBlock(b.num) = b
EventBlocks(from, to) == {EthBlock(n) : n \in {m \in DOMAIN chain : m \in from..to /\ chain[m].ev}}
LastOf(S) == IF S = {} THEN Zero ELSE CHOOSE b \in S : \A c \in S : c.num <= b.num
GetLastBlock == LastOf(db)
HasRow(n) == \E b \in db : b.num = n

\* Faults come before the last block of L1, so that L1 always grows after one.
Fault(f) == /\ f \in Faults /\ hist.faults < MaxFaults /\ Len(chain) < MaxBlocks
            /\ hist' = [hist EXCEPT !.faults = @ + 1, !.reorgs = IF f = "reorg" THEN @ + 1 ELSE @]
------------------------------------------------------------------------------
(* syncStatus *)

NoRange == [from |-> 0, to |-> 0]
Overlaps(a, b) == a.from <= b.to /\ b.from <= a.to


getHighestBlockRequestedUnsafe(s) == Max({0} \union {r.to : r \in ToSet(s.proc) \union ToSet(s.err)})
HaveRequiredAllBlocksToBeSynchronized(s) == s.l1 <= s.req
IsNodeFullySynchronizedWithL1(s) == s.l1 # 0 /\ s.l1 <= s.req /\ s.err = << >> /\ s.proc = << >>

\* The difference of block numbers is unsigned: below zero it is very large.
BlockNumberIsInsideUnsafeArea(s, n) == n <= s.l1 /\ s.l1 - n < Unsafe

\* A failed range up to the latest block is not retried, but discarded.
DropLatest(s) == IF s.err # << >> /\ Head(s.err).to = Latest THEN [s EXCEPT !.err = Tail(@)] ELSE s

GetNextRangeOnlyRetries(s) ==
  IF s.err = << >> \/ Head(s.err).to = Latest THEN NoRange ELSE Head(s.err)

getNextBlockRangeFromUnsafe(s, last) ==
  [from |-> last + 1, to |-> IF s.l1 <= last + 1 + SyncChunkSize THEN Latest ELSE last + 1 + SyncChunkSize]

GetNextRange(s) ==
  LET t == DropLatest(s)
      high == getHighestBlockRequestedUnsafe(t)
  IN  IF GetNextRangeOnlyRetries(s) # NoRange THEN GetNextRangeOnlyRetries(s)
      ELSE IF s.l1 = 0 \/ s.l1 <= s.req \/ high = Latest THEN NoRange
      ELSE getNextBlockRangeFromUnsafe(t, Max({t.last, high}))

OnStartedNewWorker(s, br) ==
  [s EXCEPT !.err = RemoveFirst(@, br), !.proc = Append(@, br),
            !.req = IF br.to = Latest THEN s.l1 ELSE Max({@, br.to})]

\* The ranges that failed are kept.
ResetStatus(s, n) == [s EXCEPT !.last = n, !.req = n, !.proc = << >>]

\* A last block that is lower than before is ignored.
OnNewLastBlockOnL1(s) == [s EXCEPT !.l1 = Max({@, Len(chain)})]
------------------------------------------------------------------------------
(* Answers of the workers, and the filter that puts them in order *)

getHighestBlockNumberInResponse(r) ==
  IF r.br.to # Latest THEN r.br.to
  ELSE IF r.blocks = {} THEN r.br.from - 1 ELSE LastOf(r.blocks).num

getHighestBlockReceived(r) == IF r.last # Zero THEN r.last ELSE LastOf(r.blocks)

OnFinishWorker(s, r) ==
  [s EXCEPT !.proc = RemoveFirst(@, r.br),
            !.last = IF r.kind = "data" THEN Max({@, getHighestBlockNumberInResponse(r)}) ELSE @,
            !.err = IF r.kind = "data" THEN @ ELSE Append(@, r.br)]

\* The pending results that may be sent next.
NextResults(f) == {i \in DOMAIN f.pending : f.pending[i].br.from = f.last + 1}

NoJob == [pc |-> "idle"]
Idle(j) == {w \in 1..Workers : j[w] = NoJob}

Request(s, br) ==
  LET unsafe == BlockNumberIsInsideUnsafeArea(s, br.from)
  IN  [pc |-> IF unsafe /\ br.to # Latest THEN "last" ELSE "rollup", unsafe |-> unsafe,
       br |-> br, blocks |-> {}, last |-> Zero, prev |-> Zero]

\* launchWork gives ranges to the idle workers, one after the other.  New ranges are asked for
\* unless too many results wait; retries always.
canISendNewRequests(f, c) == Len(f.pending) + Len(c) <= ChannelCap

launchOne(x, allow) ==
  LET br == IF allow THEN GetNextRange(x.ss) ELSE GetNextRangeOnlyRetries(x.ss)
      s == DropLatest(x.ss)
  IN  IF br = NoRange \/ Idle(x.jobs) = {} THEN [x EXCEPT !.ss = s]
      ELSE [x EXCEPT !.ss = OnStartedNewWorker(s, br),
                     !.jobs = [@ EXCEPT ![Min(Idle(x.jobs))] = Request(s, br)]]

\* F of x, with x evaluated once.
Of(F(_), x) == CHOOSE z \in {F(y) : y \in {x}} : TRUE

launchWork(x, allow) ==
  FoldLeft(LAMBDA y, w : Of(LAMBDA z : launchOne(z, allow), y), x, [w \in 1..Workers |-> w])
------------------------------------------------------------------------------
(* A start of the node: what is in memory *)

Memory(last) ==
  [main   |-> [pc |-> "check", last |-> last, next |-> "check"],
   prod   |-> [pc |-> "off", status |-> "no_running", start |-> 0],
   ss     |-> [last |-> 0, req |-> 0, l1 |-> 0, proc |-> << >>, err |-> << >>],
   filter |-> [last |-> 0, pending |-> << >>],
   jobs   |-> [w \in 1..Workers |-> NoJob],
   cons   |-> [run |-> FALSE, err |-> FALSE, highest |-> 0, received |-> Zero, synced |-> Zero]]

\* The node may have been down during a reorg, with a row of the branch that was left.
Init ==
  /\ chain \in {c \in [1..Genesis + 1 -> [id : {0}, ev : BOOLEAN]] : \A n \in 1..Genesis : c[n].ev}
  /\ \E old \in {{}, {[num |-> Genesis + 1, id |-> MaxFaults + 1]}} :
       db = {[num |-> Genesis, id |-> 0]} \union old
  /\ \E m \in {Memory(GetLastBlock)} :
       /\ main = m.main /\ prod = m.prod /\ ss = m.ss /\ filter = m.filter /\ jobs = m.jobs
       /\ cons = m.cons
  /\ resp = << >> /\ ch = << >> /\ cmds = << >>
  /\ hist = [reorgs |-> 0, faults |-> 0, blind |-> FALSE]
------------------------------------------------------------------------------
(* The main goroutine: Sync, syncBlocksParallel, L1SyncOrchestration *)

MainAt(pc) == main.pc = pc
ResetTo(block, next) == [pc |-> "reset", last |-> block, next |-> next]

\* An error of syncBlocksParallel: lastEthBlockSynced is read again, and all is reset to it.
Failed == ResetTo(GetLastBlock, "check")

Matches(b) == b.num <= Genesis \/ OnChain(b)

\* checkReorg finds no reorg: launchProducer, launchConsumer, orchestrate.
StartOrchestration ==
  /\ MainAt("check") /\ Matches(main.last)
  /\ main' = [main EXCEPT !.pc = "wait"]
  /\ IF prod.pc = "off"
     THEN /\ cmds' = Append(cmds, [cmd |-> "reset", start |-> main.last.num])
          /\ prod' = [prod EXCEPT !.pc = "select", !.status = "idle"]
     ELSE UNCHANGED <<cmds, prod>>
  /\ cons' = [cons EXCEPT !.run = TRUE, !.err = FALSE, !.synced = main.last,
                          !.highest = IF @ = 0 THEN main.last.num ELSE @]
  /\ UNCHANGED <<chain, db, ss, filter, jobs, resp, ch, hist>>

\* checkReorg finds one: resetState to the last row that is on L1.
ReorgDetected ==
  /\ MainAt("check") /\ ~Matches(main.last)
  /\ LET block == LastOf({b \in db : b.num < main.last.num /\ Matches(b)})
     IN  /\ db' = {b \in db : b.num <= block.num}
         /\ main' = ResetTo(block, "check")
  /\ UNCHANGED <<chain, prod, ss, filter, jobs, resp, ch, cmds, cons, hist>>

\* resetState fails: one reset here, and one more in Sync.
ResetStateFails ==
  /\ MainAt("check") /\ ~Matches(main.last)
  /\ Fault("reset")
  /\ main' = ResetTo(main.last, "failed")
  /\ UNCHANGED <<chain, db, prod, ss, filter, jobs, resp, ch, cmds, cons>>

\* A call to L1 fails.
CheckReorgFails ==
  /\ MainAt("check") /\ Fault("error")
  /\ main' = Failed
  /\ UNCHANGED <<chain, db, prod, ss, filter, jobs, resp, ch, cmds, cons>>

ResetFailed ==
  /\ MainAt("failed")
  /\ main' = Failed
  /\ UNCHANGED <<chain, db, prod, ss, filter, jobs, resp, ch, cmds, cons, hist>>

\* orchestrate ends with the consumer.
ConsumerFinished ==
  /\ MainAt("wait") /\ ~cons.run
  /\ main' = IF cons.err THEN Failed ELSE [pc |-> "check", last |-> cons.synced, next |-> "check"]
  /\ UNCHANGED <<chain, db, prod, ss, filter, jobs, resp, ch, cmds, cons, hist>>

\* Reset of the consumer and of the producer: the status, the channel, the command.
Reset ==
  /\ MainAt("reset")
  /\ cons' = [cons EXCEPT !.highest = main.last.num, !.synced = Zero]
  /\ prod' = [prod EXCEPT !.status = "reseting"]
  /\ main' = [main EXCEPT !.pc = "empty"]
  /\ UNCHANGED <<chain, db, ss, filter, jobs, resp, ch, cmds, hist>>

\* emptyChannel: between the test of its length and the receive, others may empty the channel.
EmptyChannel ==
  /\ MainAt("empty")
  /\ main' = [main EXCEPT !.pc = IF ch = << >> THEN "cmd" ELSE "receive"]
  /\ UNCHANGED <<chain, db, prod, ss, filter, jobs, resp, ch, cmds, cons, hist>>

Receive ==
  /\ MainAt("receive") /\ ch # << >>
  /\ ch' = Tail(ch)
  /\ main' = [main EXCEPT !.pc = "empty"]
  /\ UNCHANGED <<chain, db, prod, ss, filter, jobs, resp, cmds, cons, hist>>

QueueReset ==
  /\ MainAt("cmd") /\ Len(cmds) < CmdCap
  /\ cmds' = Append(cmds, [cmd |-> "reset", start |-> main.last.num])
  /\ main' = [pc |-> main.next, last |-> main.last, next |-> "check"]
  /\ UNCHANGED <<chain, db, prod, ss, filter, jobs, resp, ch, cons, hist>>
------------------------------------------------------------------------------
(* The producer: step *)

ProdAt(pc) == prod.pc = pc

\* The switch over the status that ends each step, from the producer, the status and the jobs in x.
\* The last block of L1 is asked for whenever the code may do so.
StepIdle(x) ==
  LET s == OnNewLastBlockOnL1(x.ss)
  IN  [x EXCEPT !.ss = s, !.prod.pc = IF s.last = 0 THEN "select" ELSE "nop",
                !.prod.status = IF s.last = 0 THEN @ ELSE "working"]

Renewed(s) ==
  IF HaveRequiredAllBlocksToBeSynchronized(s) \/ BlockNumberIsInsideUnsafeArea(s, s.req)
  THEN OnNewLastBlockOnL1(s) ELSE s

StepWorking(x, allow) ==
  Of(LAMBDA y : IF IsNodeFullySynchronizedWithL1(y.ss)
                THEN [y EXCEPT !.prod.pc = "control", !.prod.status = "synchronized"]
                ELSE launchWork(y, allow),
     Of(LAMBDA y : [y EXCEPT !.ss = Renewed(@)], launchWork(x, allow)))

StepSynchronized(x, allow) ==
  Of(LAMBDA y : [y EXCEPT !.prod.status = IF y.jobs = x.jobs THEN @ ELSE "working"],
     launchWork([x EXCEPT !.ss = OnNewLastBlockOnL1(@)], allow))

\* In status reseting nothing is done: the command of the reset is still in the queue.
Step(p, s, f, c) ==
  LET x == [prod |-> [p EXCEPT !.pc = "select"], ss |-> s, jobs |-> jobs]
      allow == canISendNewRequests(f, c)
  IN  CASE p.status = "idle"         -> StepIdle(x)
        [] p.status = "working"      -> StepWorking(x, allow)
        [] p.status = "synchronized" -> StepSynchronized(x, allow)
        [] OTHER                     -> x

EndStep(p, s, f, c) ==
  \E x \in {Step(p, s, f, c)} : prod' = x.prod /\ ss' = x.ss /\ jobs' = x.jobs

\* select takes a command.
ReceiveReset ==
  /\ ProdAt("select") /\ cmds # << >> /\ Head(cmds).cmd = "reset"
  /\ cmds' = Tail(cmds)
  /\ prod' = [pc |-> "empty", status |-> "reseting", start |-> Head(cmds).start]
  /\ ss' = ResetStatus(ss, Head(cmds).start)
  /\ UNCHANGED <<chain, db, main, filter, jobs, resp, ch, cons, hist>>

ReceiveNop ==
  /\ ProdAt("select") /\ cmds # << >> /\ Head(cmds).cmd = "nop"
  /\ cmds' = Tail(cmds)
  /\ EndStep(prod, ss, filter, ch)
  /\ UNCHANGED <<chain, db, main, filter, resp, ch, cons, hist>>

\* emptyChannel of resetUnsafe, then the filter and the status.
ProducerEmptyChannel ==
  /\ ProdAt("empty") /\ ch # << >>
  /\ prod' = [prod EXCEPT !.pc = "receive"]
  /\ UNCHANGED <<chain, db, main, ss, filter, jobs, resp, ch, cmds, cons, hist>>

ProducerReceive ==
  /\ ProdAt("receive") /\ ch # << >>
  /\ ch' = Tail(ch)
  /\ prod' = [prod EXCEPT !.pc = "empty"]
  /\ UNCHANGED <<chain, db, main, ss, filter, jobs, resp, cmds, cons, hist>>

\* Mutant: the filter is not reset.
ResetDone_Filter ==
  /\ ProdAt("empty") /\ ch = << >>
  /\ EndStep([prod EXCEPT !.status = "idle", !.start = 0], ss, filter, ch)
  /\ UNCHANGED <<chain, db, main, filter, resp, ch, cmds, cons, hist>>

ResetDone ==
  /\ ProdAt("empty") /\ ch = << >>
  /\ filter' = [last |-> prod.start, pending |-> << >>]
  /\ EndStep([prod EXCEPT !.status = "idle", !.start = 0], ss, filter', ch)
  /\ UNCHANGED <<chain, db, main, resp, ch, cmds, cons, hist>>

\* select takes an answer: onResponseRollupInfo.
IgnoreResponse ==
  /\ ProdAt("select") /\ resp # << >>
  /\ prod.status = "reseting" \/ Head(resp).br \notin ToSet(ss.proc)
  /\ resp' = Tail(resp)
  /\ EndStep(prod, ss, filter, ch)
  /\ UNCHANGED <<chain, db, main, filter, ch, cmds, cons, hist>>

onResponseRollupInfo ==
  /\ ProdAt("select") /\ resp # << >>
  /\ prod.status # "reseting" /\ Head(resp).br \in ToSet(ss.proc)
  /\ resp' = Tail(resp)
  /\ \E r \in {Head(resp)} : \E s \in {OnFinishWorker(ss, r)} :
       /\ filter' = IF r.kind = "data" THEN [filter EXCEPT !.pending = Append(@, r)] ELSE filter
       /\ IF NextResults(filter') = {} THEN EndStep(prod, s, filter', ch)
          ELSE prod' = [prod EXCEPT !.pc = "send"] /\ ss' = s /\ UNCHANGED jobs
  /\ UNCHANGED <<chain, db, main, ch, cmds, cons, hist>>

\* The timeout of select.
Timeout ==
  /\ ProdAt("select") /\ cmds = << >> /\ resp = << >>
  /\ EndStep(prod, ss, filter, ch)
  /\ UNCHANGED <<chain, db, main, filter, resp, ch, cmds, cons, hist>>

\* sendPackages waits for room in the channel.  The filter gives the results that follow, in order.
sendPackages ==
  /\ ProdAt("send") /\ Len(ch) < ChannelCap
  /\ \E r \in {filter.pending[Min(NextResults(filter))]} :
       /\ ch' = Append(ch, r)
       /\ filter' = [last |-> getHighestBlockNumberInResponse(r),
                     pending |-> RemoveFirst(filter.pending, r)]
  /\ IF NextResults(filter') = {} THEN EndStep(prod, ss, filter', ch')
     ELSE UNCHANGED <<prod, ss, jobs>>
  /\ UNCHANGED <<chain, db, main, resp, cmds, cons, hist>>

\* The command that wakes the next step goes through the queue the producer itself reads.
QueueNop ==
  /\ ProdAt("nop") /\ Len(cmds) < CmdCap
  /\ cmds' = Append(cmds, [cmd |-> "nop", start |-> 0])
  /\ prod' = [prod EXCEPT !.pc = "select"]
  /\ UNCHANGED <<chain, db, main, ss, filter, jobs, resp, ch, cons, hist>>

\* setStatus tells the consumer how far the producer got.
SendFullySynced ==
  /\ ProdAt("control") /\ Len(ch) < ChannelCap
  /\ ch' = Append(ch, [kind |-> "synced", highest |-> ss.last])
  /\ prod' = [prod EXCEPT !.pc = "select"]
  /\ UNCHANGED <<chain, db, main, ss, filter, jobs, resp, cmds, cons, hist>>
------------------------------------------------------------------------------
(* The workers: executeRequestRollupInfoByBlockRange *)

Working(w, pc) == jobs[w].pc = pc /\ UNCHANGED <<chain, db, main, prod, ss, filter, ch, cmds, cons>>

Answer(w, j) ==
  /\ jobs' = [jobs EXCEPT ![w] = NoJob]
  /\ resp' = Append(resp, [kind |-> "data", br |-> j.br, blocks |-> j.blocks, last |-> j.last,
                           prev |-> j.prev])

AnswerError(w) ==
  /\ jobs' = [jobs EXCEPT ![w] = NoJob]
  /\ resp' = Append(resp, [kind |-> "error", br |-> jobs[w].br, blocks |-> {}, last |-> Zero,
                           prev |-> Zero])

\* fillLastBlock, before or after the blocks are read.
fillLastBlock(w) ==
  /\ \E pc \in {"last", "empty"} : Working(w, pc)
  /\ LET j == [jobs[w] EXCEPT !.pc = "rollup", !.last = EthBlock(jobs[w].br.to)]
     IN  IF jobs[w].pc = "empty" THEN Answer(w, j)
         ELSE jobs' = [jobs EXCEPT ![w] = j] /\ UNCHANGED resp
  /\ UNCHANGED hist

fillRollup(w) ==
  /\ Working(w, "rollup")
  /\ LET j == [jobs[w] EXCEPT !.blocks = EventBlocks(jobs[w].br.from, jobs[w].br.to),
                              !.pc = IF jobs[w].unsafe THEN "prev" ELSE "empty"]
     IN  IF j.unsafe \/ (j.blocks = {} /\ j.br.to # Latest)
         THEN jobs' = [jobs EXCEPT ![w] = j] /\ UNCHANGED resp
         ELSE Answer(w, j)
  /\ UNCHANGED hist

fillPreviousBlock(w) ==
  /\ Working(w, "prev")
  /\ Answer(w, [jobs[w] EXCEPT !.prev = IF jobs[w].br.from > 2 THEN EthBlock(jobs[w].br.from - 1) ELSE Zero])
  /\ UNCHANGED hist

\* A call to L1 fails.
WorkerFails(w) ==
  /\ \E pc \in {"last", "rollup", "empty", "prev"} : Working(w, pc)
  /\ Fault("error")
  /\ AnswerError(w)
------------------------------------------------------------------------------
(* The consumer: step *)

Consuming(kind) ==
  /\ cons.run /\ ch # << >> /\ Head(ch).kind = kind
  /\ ch' = Tail(ch)
  /\ UNCHANGED <<chain, main, prod, ss, filter, jobs, resp, cmds>>

Expected(r) == cons.highest = 0 \/ cons.highest + 1 = r.br.from

\* A range that does not follow is ignored.
WrongRange ==
  /\ Consuming("data") /\ ~Expected(Head(ch))
  /\ UNCHANGED <<db, cons, hist>>

\* checkPreviousBlocks compares the block before the range with the last one received.
Compared(r) == cons.received # Zero /\ r.prev # Zero /\ cons.received.num = r.prev.num


checkPreviousBlocks(r) == Compared(r) => cons.received = r.prev

L1Reorg ==
  /\ Consuming("data") /\ Expected(Head(ch)) /\ ~checkPreviousBlocks(Head(ch))
  /\ cons' = [cons EXCEPT !.run = FALSE, !.err = TRUE,
                          !.highest = getHighestBlockNumberInResponse(Head(ch))]
  /\ UNCHANGED <<db, hist>>

\* A range without events is recorded by its last block.
ToStore(r) == IF r.blocks # {} THEN r.blocks ELSE {r.last} \ {Zero}

Received(r) == [cons EXCEPT !.highest = getHighestBlockNumberInResponse(r),
                            !.received = getHighestBlockReceived(r)]

\* The rows are not what L1 has before the range.
Behind(r) == ~Matches(GetLastBlock) \/ ~(EventBlocks(Genesis, r.br.from - 1) \subseteq db)

\* processUnsafe: ProcessBlockRange stores the blocks, each in a database transaction.  blind is
\* set when blocks are stored although L1 was replaced before them, and nothing was compared.
Store ==
  /\ Consuming("data") /\ Expected(Head(ch)) /\ checkPreviousBlocks(Head(ch))
  /\ LET r == Head(ch)
         blocks == ToStore(r)
     IN  /\ \A b \in blocks : ~HasRow(b.num)
         /\ db' = db \union blocks
         /\ cons' = [Received(r) EXCEPT !.synced = IF blocks = {} THEN @ ELSE LastOf(blocks)]
         /\ hist' = [hist EXCEPT !.blind =
                       @ \/ (blocks # {} /\ ~Compared(r) /\ Behind(r))]

\* A block fails: there is a row of it, or a call fails.  The blocks before it are stored.
StoreFails ==
  /\ Consuming("data") /\ Expected(Head(ch)) /\ checkPreviousBlocks(Head(ch))
  /\ \E b \in ToStore(Head(ch)) :
       /\ IF HasRow(b.num) THEN UNCHANGED hist ELSE Fault("process")
       /\ LET before == {c \in ToStore(Head(ch)) : c.num < b.num}
          IN  (\A c \in before : ~HasRow(c.num)) /\ db' = db \union before
  /\ cons' = [Received(Head(ch)) EXCEPT !.run = FALSE, !.err = TRUE]

\* The producer is synchronized.  With nothing behind it in the channel the consumer stops, with
\* an error if it did not get as far as the producer.
ProducerIsFullySynced ==
  /\ Consuming("synced")
  /\ cons' = IF Len(ch) > 1 THEN cons
             ELSE [cons EXCEPT !.run = FALSE,
                               !.err = cons.highest # 0 /\ cons.highest # Head(ch).highest]
  /\ UNCHANGED <<db, hist>>
------------------------------------------------------------------------------
(* L1 (external), and a restart of the node *)

\* L1 grows without end: its last block here is one that comes when no request is on its way.
Mine ==
  /\ Len(chain) < MaxBlocks
  /\ Len(chain) + 1 = MaxBlocks => resp = << >> /\ \A w \in 1..Workers : jobs[w] = NoJob
  /\ \E ev \in BOOLEAN : chain' = Append(chain, [id |-> hist.reorgs, ev |-> ev])
  /\ UNCHANGED <<db, main, prod, ss, filter, jobs, resp, ch, cmds, cons, hist>>

\* L1 switches to another branch, as long as the one it leaves; it grows afterwards.
Reorg ==
  /\ Fault("reorg")
  /\ \E n \in Genesis + 1 .. Len(chain) :
       \E branch \in [n .. Len(chain) -> [id : {hist.reorgs + 1}, ev : BOOLEAN]] :
         chain' = [m \in DOMAIN chain |-> IF m < n THEN chain[m] ELSE branch[m]]
  /\ UNCHANGED <<db, main, prod, ss, filter, jobs, resp, ch, cmds, cons>>

Crash ==
  /\ Fault("crash")
  /\ \E m \in {Memory(GetLastBlock)} :
       /\ main' = m.main /\ prod' = m.prod /\ ss' = m.ss /\ filter' = m.filter /\ jobs' = m.jobs
       /\ cons' = m.cons
  /\ resp' = << >> /\ ch' = << >> /\ cmds' = << >>
  /\ UNCHANGED <<chain, db>>
------------------------------------------------------------------------------
Main ==
  \/ StartOrchestration \/ ReorgDetected \/ ResetFailed \/ ConsumerFinished
  \/ Reset \/ EmptyChannel \/ Receive \/ QueueReset

Producer ==
  \/ ReceiveReset \/ ReceiveNop \/ ProducerEmptyChannel \/ ProducerReceive \/ ResetDone
  \/ IgnoreResponse \/ onResponseRollupInfo \/ Timeout \/ sendPackages \/ QueueNop
  \/ SendFullySynced

Worker(w) == fillLastBlock(w) \/ fillRollup(w) \/ fillPreviousBlock(w)

Consumer == WrongRange \/ L1Reorg \/ Store \/ ProducerIsFullySynced

Next ==
  \/ Main \/ CheckReorgFails \/ ResetStateFails \/ Producer \/ Consumer \/ StoreFails \/ Mine \/ Reorg \/ Crash
  \/ \E w \in 1..Workers : Worker(w) \/ WorkerFails(w)

\* Every goroutine runs, and L1 grows.
Spec ==
  /\ Init /\ [][Next]_vars
  /\ WF_vars(Main) /\ WF_vars(Producer) /\ WF_vars(Consumer \/ StoreFails) /\ WF_vars(Mine)
  /\ \A w \in 1..Workers : WF_vars(Worker(w))
------------------------------------------------------------------------------
(* Properties *)


\* When the last row is on L1, the rows are what L1 has: every block with events up to it, and no
\* block that was replaced.  The order of the calls of a worker is there for this.
RowsFollowL1 ==
  Matches(GetLastBlock) =>
    /\ EventBlocks(Genesis, GetLastBlock.num) \subseteq db
    /\ \A b \in db : OnChain(b)

NoEventMissed == hist.blind \/ RowsFollowL1

\* Two goroutines empty the channel and one of them waits for ever, or the producer waits for room
\* in the queue that only it empties.
Stuck ==
  \/ prod.pc = "receive" /\ ch = << >>
  \/ prod.pc = "nop" /\ Len(cmds) = CmdCap

InSync ==
  /\ EventBlocks(Genesis, Len(chain)) \subseteq db
  /\ \A b \in db : OnChain(b)

\* While main is emptying the channel for a reset, the producer is about to send, or works again
\* with the command of an earlier reset: what it has sent is lost, or what it sends is stale.
ResetsOverlap ==
  /\ main.pc \in {"empty", "receive", "cmd"}
  /\ prod.pc # "select" \/ prod.status # "reseting"

\* The rows are what L1 has in the end, whatever the order of the answers and wherever an error, a
\* reorg or a restart fell, unless resets overlap again and again or a goroutine waits for ever.
CatchesUp == <>[](InSync \/ hist.blind \/ Stuck) \/ []<>ResetsOverlap

\* The same for every schedule.
AlwaysCatchesUp == <>[](InSync \/ hist.blind \/ Stuck)
NeverStuck == ~Stuck
===============================================================================

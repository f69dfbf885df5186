------------------------------ MODULE Backfill ------------------------------
(***************************************************************************)
(* The bulk backfill of src/src/secfin/ingest/backfill.py: a parent that   *)
(* feeds zip entries into a bounded work queue, parser processes that turn *)
(* an entry into facts, and one writer process that batches the facts of   *)
(* several companies and commits them with their checkpoints.  Ctrl-C, the *)
(* death of a process, a failed write, a kill of the whole container and a *)
(* power cut may come between any two steps; the operator then starts the  *)
(* program again.                                                          *)
(*                                                                         *)
(* A company is a positive number, its place in the zip.  Its facts are    *)
(* only counted: the writer's batches are cut by that count.               *)
(***************************************************************************)
EXTENDS Integers, Sequences, FiniteSets

CONSTANTS Companies,    \* the CIK##########.json entries of companyfacts.zip
          NFacts,       \* how many facts each company flattens to
          Unparsable,   \* the entries whose flattening always raises
          Parsers,      \* the parser processes (--workers)
          BatchSize,    \* --batch-size
          QueueMax,     \* --queue-maxsize, of each of the two queues
          Limit,        \* --limit; 0 means no limit
          Faults,       \* which FaultKinds this instance exercises
          MaxFaults     \* bound: at most so many faults per behaviour

FaultKinds == {"sigint", "sigint_startup", "write", "parser", "writer", "kill", "power"}

ASSUME BackfillAssumption ==
  /\ Companies \subseteq Nat \ {0} /\ IsFiniteSet(Companies)
  /\ NFacts \in [Companies -> Nat]
  /\ Unparsable \subseteq Companies
  /\ IsFiniteSet(Parsers) /\ Parsers # {}
  /\ BatchSize \in Nat \ {0}
  /\ QueueMax \in Nat \ {0}
  /\ Limit \in Nat
  /\ Faults \subseteq FaultKinds
  /\ MaxFaults \in Nat

VARIABLES
  db,           \* SQLite as it reads: companies whose facts, and checkpoint, are committed
  disk,         \* the same as of the last commit that reached the disk
  parent,       \* the main process's place in run_backfill
  interrupted,  \* its flag of that name
  todo,         \* the entries not fed yet
  hand,         \* the entry the parent is putting, or Stop
  sentinels,    \* how many _STOP the parent has put
  work,         \* work_queue
  parser,       \* each parser's place in _parser_worker
  item,         \* each parser's local of that name, or Stop
  results,      \* result_queue, split by the parser that put the items
  slots,        \* the free slots of result_queue
  writer,       \* the writer's place in _writer_loop
  pending,      \* the companies of pending_checkpoints
  nfacts,       \* len(pending_facts)
  doneWorkers,  \* done_workers
  fed, failed, dropped,  \* history of this run: fed, failed to parse, lost to a failed write
  faults        \* faults so far

store   == <<db, disk>>
feeder  == <<parent, interrupted, todo, hand, sentinels>>
parsing == <<parser, item>>
resultq == <<results, slots>>
writing == <<writer, pending, nfacts, doneWorkers>>
history == <<fed, failed, dropped>>
vars    == <<store, feeder, work, parsing, resultq, writing, history, faults>>

Stop == 0       \* the queues' sentinel, which is no company

Item == Companies \cup {Stop}

Ingest == INSTANCE CheckpointedIngest

ParentStates == {"idle", "starting", "feeding", "putting", "stopping", "joining", "exiting"}
ParserStates == {"off", "forked", "get", "parse", "put", "stop", "done", "dead"}
WriterStates == {"off", "forked", "get", "flush", "final", "done", "dead"}

----------------------------------------------------------------------------
(* Choosing the work, queues and batches.                                  *)

\* pending_entries
PendingEntries(done) == Companies \ done

\* slice_todo
SliceTodo(S) == {c \in S : Limit = 0 \/ Cardinality({d \in S : d < c}) < Limit}

\* mp.Queue(maxsize) takes a slot of its semaphore to put an item; get gives it back
HasSlot(free) == free > 0

\* while done_workers < num_workers
AllDoneTooEarly(n) == n + 1 >= Cardinality(Parsers)
AllDone(n) == n >= Cardinality(Parsers)

\* for _ in parsers: work_queue.put(_STOP)
SentinelsSentOne(n) == n >= 1
SentinelsSent(n) == n >= Cardinality(Parsers)

\* The batch is committed once it holds --batch-size facts.
BatchFull(n) == n >= BatchSize

\* upsert_raw_facts_and_checkpoint: facts and checkpoints in one transaction
Committed(s, batch) == [rows |-> s.rows \cup batch, ckpt |-> s.ckpt \cup batch]

\* ... rolled back as one when it fails.
RolledBackFactsOnly(s, batch) == [s EXCEPT !.ckpt = @ \cup batch]
RolledBack(s, batch) == s

\* WAL recovery: the database is the last commit that reached the disk.
RecoveredFactsLost(cur, saved) == [cur EXCEPT !.rows = saved.rows]
Recovered(cur, saved) == saved

\* _writer_loop, on leaving its loop: what is still pending is flushed.
LeftoversForgotten(batch) == {}
Leftovers(batch) == batch

----------------------------------------------------------------------------
(* No run: no process, nothing in memory, empty queues. *)
NothingLeft ==
  /\ parent = "idle" /\ interrupted = FALSE
  /\ todo = {} /\ hand = Stop /\ sentinels = 0
  /\ work = <<>>
  /\ parser = [p \in Parsers |-> "off"] /\ item = [p \in Parsers |-> Stop]
  /\ results = [p \in Parsers |-> <<>>] /\ slots = QueueMax
  /\ writer = "off" /\ pending = {} /\ nfacts = 0 /\ doneWorkers = 0
  /\ fed = {} /\ failed = {} /\ dropped = {}

Init == db = Ingest!Empty /\ disk = Ingest!Empty /\ NothingLeft /\ faults = 0

(* The run's processes end, and its memory and its queues with them. *)
AllGone ==
  /\ parent' = "idle" /\ interrupted' = FALSE
  /\ todo' = {} /\ hand' = Stop /\ sentinels' = 0
  /\ work' = <<>>
  /\ parser' = [p \in Parsers |-> "off"] /\ item' = [p \in Parsers |-> Stop]
  /\ results' = [p \in Parsers |-> <<>>] /\ slots' = QueueMax
  /\ writer' = "off" /\ pending' = {} /\ nfacts' = 0 /\ doneWorkers' = 0
  /\ fed' = {} /\ failed' = {} /\ dropped' = {}

----------------------------------------------------------------------------
(* The parent: run_backfill.                                               *)

(* The operator starts the program: it reads the checkpoints, decides what *)
(* this run will do and forks the children; nothing to do, no run.         *)
StartRun ==
  /\ parent = "idle"
  /\ LET run == SliceTodo(PendingEntries(db.ckpt))
     IN  run # {} /\ todo' = run
  /\ parent' = "starting"
  /\ parser' = [p \in Parsers |-> "forked"]
  /\ writer' = "forked"
  /\ UNCHANGED <<store, interrupted, hand, sentinels, work, item, resultq,
                 pending, nfacts, doneWorkers, history, faults>>

(* signal.signal(SIGINT, _on_sigint), once every child is started *)
InstallHandler ==
  /\ parent = "starting" /\ parent' = "feeding"
  /\ UNCHANGED <<store, interrupted, todo, hand, sentinels, work, parsing, resultq,
                 writing, history, faults>>

(* The head of the feed loop: the next entry in zip order, unless the run  *)
(* is interrupted or everything is fed.                                    *)
FeedNext ==
  /\ parent = "feeding" /\ ~interrupted
  /\ \E c \in todo :
       /\ \A d \in todo : c <= d
       /\ hand' = c /\ todo' = todo \ {c}
  /\ parent' = "putting"
  /\ UNCHANGED <<store, interrupted, sentinels, work, parsing, resultq, writing,
                 history, faults>>

(* work_queue.put(entry), which blocks while the queue is full and goes on *)
(* blocking when a signal interrupts it                                    *)
FeedPut ==
  /\ parent = "putting" /\ HasSlot(QueueMax - Len(work))
  /\ work' = Append(work, hand) /\ hand' = Stop
  /\ fed' = fed \cup {hand}
  /\ parent' = "feeding"
  /\ UNCHANGED <<store, interrupted, todo, sentinels, parsing, resultq, writing,
                 failed, dropped, faults>>

FeedEnd ==
  /\ parent = "feeding" /\ (interrupted \/ todo = {})
  /\ parent' = "stopping"
  /\ UNCHANGED <<store, interrupted, todo, hand, sentinels, work, parsing, resultq,
                 writing, history, faults>>

PutSentinel ==
  /\ parent = "stopping" /\ ~SentinelsSent(sentinels)
  /\ HasSlot(QueueMax - Len(work))
  /\ work' = Append(work, Stop) /\ sentinels' = sentinels + 1
  /\ UNCHANGED <<store, parent, interrupted, todo, hand, parsing, resultq, writing,
                 history, faults>>

JoinChildren ==
  /\ parent = "stopping" /\ SentinelsSent(sentinels)
  /\ parent' = "joining"
  /\ UNCHANGED <<store, interrupted, todo, hand, sentinels, work, parsing, resultq,
                 writing, history, faults>>

ChildrenGone ==
  /\ \A p \in Parsers : parser[p] \in {"done", "dead"}
  /\ writer \in {"done", "dead"}

(* The joins return, or the interpreter's exit handler has joined the      *)
(* children of a parent that died of KeyboardInterrupt.                    *)
EndRun ==
  /\ parent \in {"joining", "exiting"} /\ ChildrenGone
  /\ AllGone
  /\ UNCHANGED <<store, faults>>

----------------------------------------------------------------------------
(* A parser: _parser_worker.                                               *)

ParserStart(p) ==
  /\ parser[p] = "forked" /\ parser' = [parser EXCEPT ![p] = "get"]
  /\ UNCHANGED <<store, feeder, work, item, resultq, writing, history, faults>>

ParserGet(p) ==
  /\ parser[p] = "get" /\ work # <<>>
  /\ work' = Tail(work)
  /\ item' = [item EXCEPT ![p] = Head(work)]
  /\ parser' = [parser EXCEPT ![p] = IF Head(work) = Stop THEN "stop" ELSE "parse"]
  /\ UNCHANGED <<store, feeder, resultq, writing, history, faults>>

(* json.loads and flatten_all_taxonomies; an exception is logged and the   *)
(* company skipped, with neither facts nor checkpoint.                     *)
ParserParse(p) ==
  /\ parser[p] = "parse"
  /\ \/ /\ item[p] \notin Unparsable
        /\ parser' = [parser EXCEPT ![p] = "put"]
        /\ UNCHANGED <<item, failed>>
     \/ /\ item[p] \in Unparsable
        /\ parser' = [parser EXCEPT ![p] = "get"]
        /\ item' = [item EXCEPT ![p] = Stop]
        /\ failed' = failed \cup {item[p]}
  /\ UNCHANGED <<store, feeder, work, resultq, writing, fed, dropped, faults>>

(* result_queue.put, of a company's facts or of _STOP after the loop *)
ParserPut(p) ==
  /\ parser[p] \in {"put", "stop"} /\ HasSlot(slots)
  /\ slots' = slots - 1
  /\ results' = [results EXCEPT ![p] = Append(@, item[p])]
  /\ item' = [item EXCEPT ![p] = Stop]
  /\ parser' = [parser EXCEPT ![p] = IF parser[p] = "put" THEN "get" ELSE "done"]
  /\ UNCHANGED <<store, feeder, work, writing, history, faults>>

ParserStep(p) == ParserStart(p) \/ ParserGet(p) \/ ParserParse(p) \/ ParserPut(p)

----------------------------------------------------------------------------
(* The writer: _writer_loop.                                               *)

WriterStart ==
  /\ writer = "forked" /\ writer' = "get"
  /\ UNCHANGED <<store, feeder, work, parsing, resultq, pending, nfacts, doneWorkers,
                 history, faults>>

(* result_queue.get: items of one parser come in the order it put them,    *)
(* those of two parsers in any order.                                      *)
WriterGet(p) ==
  /\ writer = "get" /\ results[p] # <<>>
  /\ results' = [results EXCEPT ![p] = Tail(@)]
  /\ slots' = slots + 1
  /\ LET c == Head(results[p]) IN
     \/ /\ c = Stop
        /\ doneWorkers' = doneWorkers + 1
        /\ writer' = IF AllDone(doneWorkers + 1) THEN "final" ELSE "get"
        /\ UNCHANGED <<pending, nfacts>>
     \/ /\ c # Stop
        /\ pending' = pending \cup {c}
        /\ nfacts' = nfacts + NFacts[c]
        /\ writer' = IF BatchFull(nfacts + NFacts[c]) THEN "flush" ELSE "get"
        /\ UNCHANGED doneWorkers
  /\ UNCHANGED <<store, feeder, work, parsing, history, faults>>

(* _flush_batch_safely: after it the batch is forgotten, written or not.   *)
FlushDone ==
  /\ pending' = {} /\ nfacts' = 0
  /\ writer' = IF writer = "flush" THEN "get" ELSE "done"
  /\ UNCHANGED <<disk, feeder, work, parsing, resultq, doneWorkers, fed, failed>>

ToFlush == IF writer = "final" THEN Leftovers(pending) ELSE pending

WriterFlush ==
  /\ writer \in {"flush", "final"}
  /\ db' = Committed(db, ToFlush)
  /\ FlushDone
  /\ UNCHANGED <<dropped, faults>>

----------------------------------------------------------------------------
(* What can go wrong, each at most MaxFaults times in all.                 *)

Fault(kind) == kind \in Faults /\ faults < MaxFaults /\ faults' = faults + 1

(* The batch cannot be written: logged and dropped, left un-checkpointed. *)
WriterDropsBatch ==
  /\ writer \in {"flush", "final"} /\ pending # {}
  /\ Fault("write")
  /\ db' = RolledBack(db, pending)
  /\ dropped' = dropped \cup pending
  /\ FlushDone

(* Ctrl-C reaches the whole process group.  A child that has not yet asked *)
(* to ignore it dies of it; so does the parent before InstallHandler, and  *)
(* then waits for its children in the interpreter's exit handler.          *)
CtrlC ==
  /\ parent \notin {"idle", "exiting"}
  /\ Fault(IF parent = "starting" \/ writer = "forked" \/ \E p \in Parsers : parser[p] = "forked"
           THEN "sigint_startup" ELSE "sigint")
  /\ parent' = IF parent = "starting" THEN "exiting" ELSE parent
  /\ interrupted' = TRUE
  /\ parser' = [p \in Parsers |-> IF parser[p] = "forked" THEN "dead" ELSE parser[p]]
  /\ writer' = IF writer = "forked" THEN "dead" ELSE writer
  /\ UNCHANGED <<store, todo, hand, sentinels, work, item, resultq, pending, nfacts,
                 doneWorkers, history>>

(* A parser dies where it stands (no memory, an unreadable zip).  What its *)
(* queue thread had not written to the pipe yet is lost, and the slots it  *)
(* held with it.                                                           *)
ParserDies(p) ==
  /\ parser[p] \notin {"off", "dead"} /\ (parser[p] = "done" => results[p] # <<>>)
  /\ Fault("parser")
  /\ parser' = [parser EXCEPT ![p] = "dead"]
  /\ item' = [item EXCEPT ![p] = Stop]
  /\ \E n \in 0..Len(results[p]) :
       results' = [results EXCEPT ![p] = SubSeq(@, 1, n)]
  /\ UNCHANGED <<store, feeder, work, slots, writing, history>>

WriterDies ==
  /\ writer \notin {"off", "done", "dead"}
  /\ Fault("writer")
  /\ writer' = "dead" /\ pending' = {} /\ nfacts' = 0
  /\ UNCHANGED <<store, feeder, work, parsing, resultq, doneWorkers, history>>

(* The container is stopped: every process is gone, the files are not. *)
KillAll ==
  /\ parent # "idle"
  /\ Fault("kill")
  /\ AllGone
  /\ UNCHANGED store

(* With synchronous=NORMAL a commit reaches the disk some time after it    *)
(* returns, never in part.                                                 *)
WalSync ==
  /\ disk # db /\ disk' = db
  /\ UNCHANGED <<db, feeder, work, parsing, resultq, writing, history, faults>>

PowerLoss ==
  /\ Fault("power")
  /\ db' = Recovered(db, disk)
  /\ AllGone
  /\ UNCHANGED disk

----------------------------------------------------------------------------
ParentStep ==
  \/ InstallHandler \/ FeedNext \/ FeedPut \/ FeedEnd
  \/ PutSentinel \/ JoinChildren \/ EndRun

WriterStep == WriterStart \/ WriterFlush \/ \E p \in Parsers : WriterGet(p)

Failure ==
  \/ WriterDropsBatch \/ CtrlC \/ WriterDies \/ KillAll \/ PowerLoss
  \/ \E p \in Parsers : ParserDies(p)

Next ==
  \/ StartRun \/ ParentStep \/ WriterStep \/ WalSync \/ Failure
  \/ \E p \in Parsers : ParserStep(p)

(* The processes are scheduled by the operating system, and the operator   *)
(* runs the program again as long as companies are pending.                *)
Fairness ==
  /\ WF_vars(StartRun) /\ WF_vars(ParentStep) /\ WF_vars(WriterStep)
  /\ \A p \in Parsers : WF_vars(ParserStep(p))

Spec == Init /\ [][Next]_vars /\ Fairness

----------------------------------------------------------------------------
(* Where a company is, and where it is past a given point of the pipeline. *)

InSeq(s, c) == \E i \in 1..Len(s) : s[i] = c

AtParser(c) == \E p \in Parsers : item[p] = c
InResult(c) == \E p \in Parsers : InSeq(results[p], c)

AfterResult(c) == c \in pending \/ c \in db.ckpt
AfterParser(c) == InResult(c) \/ AfterResult(c)
AfterWork(c)   == AtParser(c) \/ AfterParser(c)
AfterHand(c)   == InSeq(work, c) \/ AfterWork(c)
AfterTodo(c)   == c = hand \/ AfterHand(c)

\* The companies in a queue are all different.
Distinct(s) == \A i, j \in 1..Len(s) : s[i] = s[j] /\ s[i] # Stop => i = j

(* The variables hold values of these shapes; no queue holds more than its *)
(* --queue-maxsize (run_backfill's backpressure).                          *)
TypeOK ==
  /\ db \in Ingest!Store /\ disk \in Ingest!Store
  /\ parent \in ParentStates /\ interrupted \in BOOLEAN
  /\ todo \subseteq Companies /\ hand \in Item /\ sentinels \in Nat
  /\ work \in Seq(Item) /\ Len(work) <= QueueMax
  /\ parser \in [Parsers -> ParserStates] /\ item \in [Parsers -> Item]
  /\ results \in [Parsers -> Seq(Item)] /\ slots \in Nat
  /\ writer \in WriterStates /\ pending \subseteq Companies
  /\ nfacts \in Nat /\ doneWorkers \in Nat
  /\ fed \subseteq Companies /\ failed \subseteq Companies /\ dropped \subseteq Companies
  /\ faults \in Nat

(* "A crash can never leave a company checkpointed but unwritten" (the     *)
(* module's docstring): true of the store and of what a power cut leaves.  *)
CheckpointBackedByFacts ==
  /\ db.ckpt \subseteq db.rows
  /\ disk.ckpt \subseteq disk.rows

(* A company is in one place at most: waiting, in the parent's hand, in    *)
(* the work queue, at a parser, in the result queue, in the writer's batch *)
(* or checkpointed.  So no company is parsed or written twice in a run,    *)
(* and none that was checkpointed is done again.                           *)
OnePlace ==
  /\ \A c \in Companies :
       /\ c \in todo => ~AfterTodo(c)
       /\ c = hand => ~AfterHand(c)
       /\ InSeq(work, c) => ~AfterWork(c)
       /\ AtParser(c) => ~AfterParser(c)
       /\ InResult(c) => ~AfterResult(c)
       /\ c \in pending => c \notin db.ckpt
  /\ Distinct(work)
  /\ \A p, q \in Parsers :
       /\ item[p] = item[q] /\ item[p] # Stop => p = q
       /\ Distinct(results[p])
       /\ p # q => \A c \in Companies : ~(InSeq(results[p], c) /\ InSeq(results[q], c))

(* A writer that left its loop has accounted for every company fed in the  *)
(* run, interrupted or not: checkpointed, failed to parse, or in a batch   *)
(* that was dropped.  None is still in a queue or at a parser.             *)
WriterAccountsForAll ==
  writer = "done" => fed \subseteq db.ckpt \cup failed \cup dropped

(* The pipeline with its processes, queues and failures implements the     *)
(* store that grows by batches of new companies.                           *)
RefinesIngest == Ingest!Spec

(* A run that has lost a process, or died of Ctrl-C while starting. *)
Crippled ==
  \/ parent = "exiting" \/ writer = "dead"
  \/ \E p \in Parsers : parser[p] = "dead"

(* Every run ends, interrupted or not, unless one of its processes died. *)
RunEnds == (parent # "idle") ~> (parent = "idle" \/ Crippled)

(* "Anything not checkpointed is retried" (backfill.py:35-36): if the      *)
(* operator keeps running it, every company that can be parsed is ingested *)
(* and stays so, unless a run is crippled and hangs for good.              *)
EveryCompanyIngested ==
  \/ <>[](Companies \ Unparsable \subseteq db.ckpt)
  \/ <>[]Crippled
=============================================================================

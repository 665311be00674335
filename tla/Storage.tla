------------------------------ MODULE Storage ------------------------------
(***************************************************************************)
(* Where readings go: internal/database/collect_write_queue.go (a bounded  *)
(* queue and its writer), data_sync.go and retention_job.go (the loops     *)
(* that move the history to disk and expire it), and the order in which    *)
(* app/bootstrap.go shuts them down.                                       *)
(*                                                                         *)
(* A source (a device's collection or the system statistics) delivers one  *)
(* reading at a time.  Every reading updates the source's cached value;    *)
(* one with history also becomes a row of data_points, which is unique per *)
(* source and second.  SQLite is external: its statements are atomic.      *)
(***************************************************************************)
EXTENDS Integers, Sequences, FiniteSets

CONSTANTS
    Source,       \* who delivers readings
    QueueCap,     \* collectWriteQueueCap
    MaxBatch,     \* collectWriteMaxBatchItems
    SyncTrigger,  \* syncBatchTrigger
    MaxRows,      \* maxDataPointsLimit
    Retain,       \* for how many ticks history is kept; 0: a tick is longer than that
    MaxFaults,    \* bound: database statements that fail
    MaxReadings,  \* bound: readings of all sources
    MaxSec        \* bound: ticks of the clock, each of a second or longer

ASSUME StorageAssumption ==
    /\ {QueueCap, MaxBatch, SyncTrigger, MaxRows} \subseteq Nat \ {0}
    /\ {Retain, MaxReadings, MaxSec, MaxFaults} \subseteq Nat

\* Who inserts: the writer, or a source that found no room in the queue.
Writer == Source \cup {"queue"}
\* Who syncs: the ticker's loop, a triggered goroutine, the shutdown.
Syncer == {"ticker", "async", "final"}
\* The loops, each with a global ticker and a global stop channel, which the
\* code sets and clears together.
Loop   == {"ticker", "retention"}
Reading == [src : Source, nr : 1 .. MaxReadings, hist : BOOLEAN]
Key    == Source \X (0 .. MaxSec)

VARIABLES
    clock,       \* ticks passed
    taken,       \* readings delivered
    collectWriteAlive, collectWriteCh,
    insert,      \* the insert each Writer is at
    cache,       \* data_cache: the reading each source's value is from
    mem,         \* data_points in memory: [key |-> id], of the rows there
    nextId,
    disk,        \* data_points on disk: a set of keys
    stored,      \* the readings inserted, as <<source, number>>
    history,     \* the keys written and not dropped: by the size limit or for their age
    failed,      \* the readings whose insert failed
    faults,      \* statements that failed
    pendingRows, dirty,          \* pendingHistoryRowsForSync, ...Dirty
    dataSyncTriggered, dataSyncMu, sync,
    ticker,      \* ticker[l]: l's ticker and stop channel are set
    loop,        \* where each loop is
    down,        \* how far the shutdown is
    panicked     \* a goroutine panicked: the process is gone

queueVars == <<collectWriteAlive, collectWriteCh>>
rows      == <<mem, nextId, disk, history>>
table     == <<rows, cache, stored, failed, faults>>
trigger   == <<pendingRows, dirty, dataSyncTriggered>>
syncVars  == <<dataSyncMu, sync>>
loopVars  == <<ticker, loop>>
vars == <<clock, taken, queueVars, insert, table, trigger, syncVars, loopVars, down, panicked>>

Resting == [pc |-> "idle", items |-> <<>>, rows |-> 0]
Unsynced == [pc |-> "idle", max |-> 0]

\* startBackgroundTasks has run.
Init ==
    /\ clock = 0 /\ taken = 0
    /\ collectWriteAlive = TRUE /\ collectWriteCh = <<>>
    /\ insert = [w \in Writer |-> Resting]
    /\ cache = [s \in Source |-> 0] /\ mem = [k \in {} |-> 0] /\ nextId = 1
    /\ disk = {} /\ stored = {} /\ history = {} /\ failed = {} /\ faults = 0
    /\ pendingRows = 0 /\ dirty = FALSE /\ dataSyncTriggered = FALSE
    /\ dataSyncMu = "free" /\ sync = [s \in Syncer |-> Unsynced]
    /\ ticker = [l \in Loop |-> TRUE]
    /\ loop = [l \in Loop |-> IF l = "ticker" THEN "enter" ELSE "work"]
    /\ down = "up" /\ panicked = FALSE

-----------------------------------------------------------------------------
(* Inserting: InsertCollectDataWithOptions and writeCollectDataBatch.       *)

\* The readings of seq, in their order, reach the tables in one transaction.
\* INSERT OR REPLACE gives a row of the same source and second a new id; the
\* rows of one transaction share theirs, for nothing comes between them.
HistKeys(seq) == {<<seq[i].src, clock>> : i \in {j \in DOMAIN seq : seq[j].hist}}
LastOf(s, seq) == LET mine == {seq[i].nr : i \in {j \in DOMAIN seq : seq[j].src = s}}
                  IN  IF mine = {} THEN cache[s] ELSE CHOOSE n \in mine : \A m \in mine : m <= n

Stored(seq) ==
    /\ cache' = [s \in Source |-> LastOf(s, seq)]
    /\ mem' = [k \in DOMAIN mem \cup HistKeys(seq) |-> IF k \in HistKeys(seq) THEN nextId ELSE mem[k]]
    /\ nextId' = IF HistKeys(seq) = {} THEN nextId ELSE nextId + 1
    /\ stored' = stored \cup {<<seq[i].src, seq[i].nr>> : i \in DOMAIN seq}
    /\ history' = history \cup HistKeys(seq)
    /\ UNCHANGED <<disk, failed, faults>>

Fault == faults < MaxFaults /\ faults' = faults + 1
\* Rows D leave the memory, for good when they are dropped.
Removed(D) == mem' = [k \in DOMAIN mem \ D |-> mem[k]]
Dropped(D) == Removed(D) /\ history' = history \ D

Room == collectWriteAlive /\ Len(collectWriteCh) < QueueCap

\* EnqueueCollectDataWrite: queued, or inserted by the source itself when the
\* writer is stopped or has no room.
Deliver(s, hist) ==
    /\ down \in {"up", "collectors"} /\ taken < MaxReadings /\ insert[s].pc = "idle"
    /\ taken' = taken + 1
    /\ LET r == [src |-> s, nr |-> taken + 1, hist |-> hist]
       IN  IF Room
           THEN collectWriteCh' = Append(collectWriteCh, r) /\ UNCHANGED insert
           ELSE insert' = [insert EXCEPT ![s] = [@ EXCEPT !.pc = "one", !.items = <<r>>]]
                /\ UNCHANGED collectWriteCh
    /\ UNCHANGED <<clock, collectWriteAlive, table, trigger, syncVars, loopVars, down, panicked>>

\* runCollectDataWriter takes what is there, up to a batch, and flushes it
\* when the queue is empty or closed.
Receive ==
    /\ insert["queue"].pc \in {"idle", "gather"} /\ collectWriteCh # <<>>
    /\ Len(insert["queue"].items) < MaxBatch
    /\ insert' = [insert EXCEPT !["queue"].pc = "gather",
                                !["queue"].items = Append(@, Head(collectWriteCh))]
    /\ collectWriteCh' = Tail(collectWriteCh)
    /\ UNCHANGED <<clock, taken, collectWriteAlive, table, trigger, syncVars, loopVars, down, panicked>>

\* Wrong variant: the batch in hand is forgotten when the queue was closed.
FlushWhileAlive == collectWriteAlive
FlushDue == TRUE

Flush ==
    /\ insert["queue"].pc = "gather"
    /\ collectWriteCh = <<>> \/ Len(insert["queue"].items) = MaxBatch
    /\ insert' = [insert EXCEPT !["queue"] = IF FlushDue THEN [@ EXCEPT !.pc = "batch"] ELSE Resting]
    /\ UNCHANGED <<clock, taken, queueVars, table, trigger, syncVars, loopVars, down, panicked>>

\* After an insert: with rows, note them; otherwise go on.
Inserted(w, n, rest) ==
    insert' = [insert EXCEPT ![w] =
        [pc |-> IF n > 0 THEN "note" ELSE IF rest # <<>> THEN "one" ELSE "idle",
         items |-> rest, rows |-> n]]
RowsOf(seq) == Cardinality({j \in DOMAIN seq : seq[j].hist})

WriteBatch ==
    /\ insert["queue"].pc = "batch"
    /\ Stored(insert["queue"].items)
    /\ Inserted("queue", RowsOf(insert["queue"].items), <<>>)
    /\ UNCHANGED <<clock, taken, queueVars, trigger, syncVars, loopVars, down, panicked>>

\* flushCollectDataBatch inserts the readings of a failed batch one by one.
BatchFails ==
    /\ insert["queue"].pc = "batch" /\ Fault
    /\ insert' = [insert EXCEPT !["queue"].pc = "one"]
    /\ UNCHANGED <<clock, taken, queueVars, rows, cache, stored, failed, trigger, syncVars, loopVars,
                   down, panicked>>

InsertOne(w) ==
    /\ insert[w].pc = "one"
    /\ Stored(<<Head(insert[w].items)>>)
    /\ Inserted(w, RowsOf(<<Head(insert[w].items)>>), Tail(insert[w].items))
    /\ UNCHANGED <<clock, taken, queueVars, trigger, syncVars, loopVars, down, panicked>>

InsertFails(w) ==
    /\ insert[w].pc = "one" /\ Fault
    /\ failed' = failed \cup {Head(insert[w].items).nr}
    /\ Inserted(w, 0, Tail(insert[w].items))
    /\ UNCHANGED <<clock, taken, queueVars, rows, cache, stored, trigger, syncVars, loopVars, down, panicked>>

\* noteHistoryRowsWritten; then maybeEnforceDataPointsLimit, which is
\* throttled, counts the rows or leaves it for another time.
Note(w) ==
    /\ insert[w].pc = "note"
    /\ pendingRows' = pendingRows + insert[w].rows /\ dirty' = TRUE
    /\ \E n \in {0, Cardinality(DOMAIN mem) - MaxRows} :
          insert' = [insert EXCEPT ![w] = IF n > 0 THEN [@ EXCEPT !.pc = "limit", !.rows = n]
                                                   ELSE [@ EXCEPT !.pc = "trigger", !.rows = 0]]
    /\ UNCHANGED <<clock, taken, queueVars, table, dataSyncTriggered, syncVars, loopVars, down, panicked>>

\* enforceDataPointsLimit: as many of the oldest rows go as were counted too
\* many, be the table shorter by now or not.
Oldest(n) == {D \in SUBSET DOMAIN mem :
                 /\ Cardinality(D) = n \/ (D = DOMAIN mem /\ Cardinality(D) < n)
                 /\ \A d \in D, k \in DOMAIN mem \ D : d[2] <= k[2]}
Limit(w) ==
    /\ insert[w].pc = "limit"
    /\ \E D \in Oldest(insert[w].rows) : Dropped(D)
    /\ insert' = [insert EXCEPT ![w] = [@ EXCEPT !.pc = "trigger", !.rows = 0]]
    /\ UNCHANGED <<clock, taken, queueVars, cache, nextId, disk, stored, failed, faults,
                   trigger, syncVars, loopVars, down, panicked>>

-----------------------------------------------------------------------------
(* Triggering a sync: TriggerSyncIfNeeded.                                  *)

Continue(w) == [insert[w] EXCEPT !.pc = IF insert[w].items # <<>> THEN "one" ELSE "idle", !.rows = 0]
Few == dirty /\ pendingRows > 0 /\ pendingRows < SyncTrigger

TriggerSkips(w) ==
    /\ insert[w].pc = "trigger" /\ Few
    /\ insert' = [insert EXCEPT ![w] = Continue(w)]
    /\ UNCHANGED <<clock, taken, queueVars, table, trigger, syncVars, loopVars, down, panicked>>

\* The rows are counted, the counters set to the result, and
\* triggerDataSyncAsync starts one goroutine at a time.  (A sync between the
\* count and its use would make this one needless, and a tick may sync at any
\* time.)
TriggerSync(w) ==
    /\ insert[w].pc = "trigger" /\ ~Few
    /\ pendingRows' = Cardinality(DOMAIN mem) /\ dirty' = FALSE
    /\ LET go == Cardinality(DOMAIN mem) >= SyncTrigger /\ ~dataSyncTriggered
       IN  /\ dataSyncTriggered' = (dataSyncTriggered \/ go)
           /\ sync' = IF go THEN [sync EXCEPT !["async"].pc = "lock"] ELSE sync
    /\ insert' = [insert EXCEPT ![w] = Continue(w)]
    /\ UNCHANGED <<clock, taken, queueVars, table, dataSyncMu, loopVars, down, panicked>>

-----------------------------------------------------------------------------
(* syncDataToDisk.                                                          *)

MaxId == IF DOMAIN mem = {} THEN 0
         ELSE CHOOSE i \in {mem[k] : k \in DOMAIN mem} : \A k \in DOMAIN mem : mem[k] <= i

\* With the lock, the largest id there is.
SyncMax(s) ==
    /\ sync[s].pc = "lock" /\ dataSyncMu = "free"
    /\ dataSyncMu' = s
    /\ sync' = [sync EXCEPT ![s] = [pc |-> IF MaxId = 0 THEN "reset" ELSE "copy", max |-> MaxId]]
    /\ UNCHANGED <<clock, taken, queueVars, insert, table, trigger, loopVars, down, panicked>>

UpTo(i) == {k \in DOMAIN mem : mem[k] <= i}

\* INSERT OR IGNORE, row by row in one transaction of the disk's database; the
\* open query holds the memory database's only connection meanwhile.
SyncCopy(s) ==
    /\ sync[s].pc = "copy"
    /\ disk' = disk \cup UpTo(sync[s].max)
    /\ sync' = [sync EXCEPT ![s].pc = "delete"]
    /\ UNCHANGED <<clock, taken, queueVars, insert, cache, mem, nextId, stored, history, failed, faults,
                   trigger, dataSyncMu, loopVars, down, panicked>>

\* Wrong variant: every row is deleted, copied or not.
Everything(i) == DOMAIN mem
Copied(i) == UpTo(i)

SyncDelete(s) ==
    /\ sync[s].pc = "delete" /\ Removed(Copied(sync[s].max))
    /\ sync' = [sync EXCEPT ![s].pc = "reset"]
    /\ UNCHANGED <<clock, taken, queueVars, insert, cache, nextId, disk, stored, history, failed, faults,
                   trigger, dataSyncMu, loopVars, down, panicked>>

\* The sync returns to its caller.
SyncEnds(s) ==
    /\ dataSyncMu' = "free"
    /\ sync' = [sync EXCEPT ![s] = Unsynced]
    /\ dataSyncTriggered' = (dataSyncTriggered /\ s # "async")
    /\ loop' = IF s = "ticker" THEN [loop EXCEPT !["ticker"] = "enter"] ELSE loop
    /\ down' = IF s # "final" THEN down ELSE IF sync[s].pc = "reset" THEN "done" ELSE "unsaved"
    /\ UNCHANGED <<clock, taken, queueVars, insert, rows, cache, stored, failed, ticker, panicked>>

SyncReset(s) ==
    /\ sync[s].pc = "reset" /\ SyncEnds(s)
    /\ pendingRows' = 0 /\ dirty' = FALSE /\ UNCHANGED faults

SyncFails(s) ==
    /\ sync[s].pc \in {"copy", "delete"} \/ (sync[s].pc = "lock" /\ dataSyncMu = "free")
    /\ Fault /\ SyncEnds(s)
    /\ UNCHANGED <<pendingRows, dirty>>

-----------------------------------------------------------------------------
(* The loops of StartDataSync and StartRetentionCleanup.                    *)

\* Entering select reads the global ticker and then the global stop channel.
\* (Had the stop channel been cleared in between, the loop would wait on a nil
\* channel for ever: like "gone", but for the goroutine that is left.)
LoopEnter(l) ==
    /\ loop[l] = "enter"
    /\ IF ticker[l] THEN loop' = [loop EXCEPT ![l] = "select"] /\ UNCHANGED panicked
                    ELSE panicked' = TRUE /\ UNCHANGED loop
    /\ UNCHANGED <<clock, taken, queueVars, insert, table, trigger, syncVars, ticker, down>>

LoopTick(l) ==
    /\ loop[l] = "select" /\ ticker[l]
    /\ loop' = [loop EXCEPT ![l] = "work"]
    /\ sync' = IF l = "ticker" THEN [sync EXCEPT !["ticker"].pc = "lock"] ELSE sync
    /\ UNCHANGED <<clock, taken, queueVars, insert, table, trigger, dataSyncMu, ticker, down, panicked>>

LoopStop(l) ==
    /\ loop[l] = "select" /\ ~ticker[l]
    /\ loop' = [loop EXCEPT ![l] = "gone"]
    /\ UNCHANGED <<clock, taken, queueVars, insert, table, trigger, syncVars, ticker, down, panicked>>

\* CleanupOldDataByGatewayRetention: in memory, then on disk.
Expired(k) == k[2] < clock - Retain

CleanMemory ==
    /\ loop["retention"] = "work"
    /\ Dropped({k \in DOMAIN mem : Expired(k)})
    /\ loop' = [loop EXCEPT !["retention"] = "disk"]
    /\ UNCHANGED <<clock, taken, queueVars, insert, cache, nextId, disk, stored, failed, faults,
                   trigger, syncVars, ticker, down, panicked>>

CleanDisk ==
    /\ loop["retention"] = "disk"
    /\ LET old == {k \in disk : Expired(k)} IN disk' = disk \ old /\ history' = history \ old
    /\ loop' = [loop EXCEPT !["retention"] = "enter"]
    /\ UNCHANGED <<clock, taken, queueVars, insert, cache, mem, nextId, stored, failed, faults,
                   trigger, syncVars, ticker, down, panicked>>

CleanFails ==
    /\ loop["retention"] \in {"work", "disk"} /\ Fault
    /\ loop' = [loop EXCEPT !["retention"] = "enter"]
    /\ UNCHANGED <<clock, taken, queueVars, insert, rows, cache, stored, failed,
                   trigger, syncVars, ticker, down, panicked>>

-----------------------------------------------------------------------------
(* registerShutdown, in its order: the collectors, the writer, the loops,   *)
(* the last sync.                                                           *)

Shutdown ==
    /\ down = "up" /\ down' = "collectors"
    /\ UNCHANGED <<clock, taken, queueVars, insert, table, trigger, syncVars, loopVars, panicked>>

\* The collectors' Stop has waited for their goroutines;
\* StopCollectDataWriter closes the queue,
StopWriter ==
    /\ down = "collectors" /\ \A s \in Source : insert[s].pc = "idle"
    /\ collectWriteAlive' = FALSE /\ down' = "writer"
    /\ UNCHANGED <<clock, taken, collectWriteCh, insert, table, trigger, syncVars, loopVars, panicked>>

\* and waits for the writer.  Wrong variant: it does not wait.
NoWait == TRUE
WriterDone == collectWriteCh = <<>> /\ insert["queue"].pc = "idle"

WriterStopped ==
    /\ down = "writer" /\ WriterDone /\ down' = "sync"
    /\ UNCHANGED <<clock, taken, queueVars, insert, table, trigger, syncVars, loopVars, panicked>>

StopLoop(l) ==
    /\ down = IF l = "ticker" THEN "sync" ELSE "retention"
    /\ ticker' = [ticker EXCEPT ![l] = FALSE]
    /\ IF l = "ticker" THEN down' = "retention" /\ UNCHANGED sync
                       ELSE down' = "final" /\ sync' = [sync EXCEPT !["final"].pc = "lock"]
    /\ UNCHANGED <<clock, taken, queueVars, insert, table, trigger, dataSyncMu, loop, panicked>>

Second ==
    /\ clock < MaxSec /\ clock' = clock + 1
    /\ UNCHANGED <<taken, queueVars, insert, table, trigger, syncVars, loopVars, down, panicked>>

WriterStep(w) == \/ InsertOne(w) \/ InsertFails(w) \/ Note(w) \/ Limit(w)
                 \/ TriggerSkips(w) \/ TriggerSync(w)
QueueStep == Receive \/ Flush \/ WriteBatch \/ BatchFails
SyncStep(s) == \/ SyncMax(s) \/ SyncCopy(s) \/ SyncDelete(s)
               \/ SyncReset(s) \/ SyncFails(s)
LoopStep(l) == LoopEnter(l) \/ LoopStop(l)
Cleanup == CleanMemory \/ CleanDisk \/ CleanFails
ShutdownStep == StopWriter \/ WriterStopped \/ \E l \in Loop : StopLoop(l)

Next ==
    /\ ~panicked
    /\ \/ \E s \in Source, hist \in BOOLEAN : Deliver(s, hist)
       \/ QueueStep \/ \E w \in Writer : WriterStep(w)
       \/ \E s \in Syncer : SyncStep(s)
       \/ \E l \in Loop : LoopStep(l) \/ LoopTick(l)
       \/ Cleanup \/ Shutdown \/ ShutdownStep \/ Second

Spec == Init /\ [][Next]_vars

-----------------------------------------------------------------------------
(* Properties.                                                              *)

\* Every variable has the type its counterpart has in the code.
TypeOK ==
    /\ clock \in 0 .. MaxSec /\ taken \in 0 .. MaxReadings
    /\ collectWriteAlive \in BOOLEAN
    /\ collectWriteCh \in Seq(Reading) /\ Len(collectWriteCh) <= QueueCap
    /\ \A w \in Writer : insert[w].items \in Seq(Reading) /\ Len(insert[w].items) <= MaxBatch
    /\ cache \in [Source -> 0 .. MaxReadings] /\ DOMAIN mem \subseteq Key
    /\ disk \cup history \subseteq Key /\ faults \in 0 .. MaxFaults
    /\ stored \subseteq Source \X (1 .. MaxReadings) /\ failed \subseteq 1 .. MaxReadings
    /\ pendingRows \in Nat /\ {dirty, dataSyncTriggered, panicked} \subseteq BOOLEAN
    /\ dataSyncMu \in Syncer \cup {"free"}

Waiting(seq) == {seq[i].nr : i \in DOMAIN seq}
Ended == {r[2] : r \in stored} \cup failed

\* Every reading a source delivered is queued, being inserted, inserted, or
\* was reported as failed: a batch that failed, a full or a closed queue and
\* the writer's end lose none (flushCollectDataBatch, EnqueueCollectDataWrite).
NoReadingLost ==
    1 .. taken = Ended \cup Waiting(collectWriteCh) \cup UNION {Waiting(insert[w].items) : w \in Writer}

\* While a sync copies and deletes and inserts go on, every row that was
\* written is in memory or on disk, unless the size limit or its age took it
\* (syncDataToDisk deletes no more than it copied).
HistoryKept == history \subseteq DOMAIN mem \cup disk

\* When the shutdown's last sync has succeeded, all that was delivered is on
\* disk: nothing is left in the queue, in a batch or in memory
\* (the order of registerShutdown).
ShutdownPersists == down = "done" => 1 .. taken = Ended /\ history \subseteq disk

\* The cached value of a source is from its newest reading stored (the
\* data_cache table of 003_data_schema.sql; the README's "latest value").  The
\* code breaks it when the queue is full (README, section 7); no run checks it.
CacheNewest == \A r \in stored : r[2] <= cache[r[1]]

\* StopDataSync and StopRetentionCleanup stop their loops; none of them takes
\* the process down (data_sync.go: StopDataSync stops the task).  The code
\* breaks it (README, section 7); no run checks it.
CleanShutdown == ~panicked

\* From the source to the disk: no reading is lost before its insert and no row
\* after it.
NothingLost == TypeOK /\ NoReadingLost /\ HistoryKept
=============================================================================

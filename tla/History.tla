------------------------------ MODULE History ------------------------------
(***************************************************************************)
(* Reading what was collected: the history queries and the latest values   *)
(* of internal/database (data_points_query.go, data_points.go,             *)
(* data_points_batch.go, data_cache.go), of one device.                    *)
(*                                                                         *)
(* A query reads the table in memory, then the one on disk, and merges the *)
(* two; the data sync moves rows from one to the other at any moment       *)
(* (module Storage has the sync itself).  Time is in seconds, the unit of  *)
(* collected_at; a row's key is its field and its second.  SQLite is       *)
(* external: a statement is atomic, and orders rows of one second as it    *)
(* likes, here by field.                                                   *)
(***************************************************************************)
EXTENDS Integers, Sequences, FiniteSets, SequencesExt

CONSTANTS
    Field,          \* fields, as numbers
    Asked,          \* the sets of fields a query may ask for
    RowLimit,       \* limits a query may ask for
    CacheLimit,     \* maxDataCacheLimit
    MaxSecond,      \* bound: seconds
    MaxWrites,      \* bound: readings
    MaxQueries,     \* bound: queries
    MaxDeletes      \* bound: deletions

ASSUME HistoryAssumption ==
    /\ Field \subseteq Nat /\ IsFiniteSet(Field) /\ Asked \subseteq SUBSET Field
    /\ RowLimit \subseteq Nat \ {0} /\ MaxSecond \in Nat \ {0}
    /\ {CacheLimit, MaxWrites, MaxQueries, MaxDeletes} \subseteq Nat

VARIABLES
    memRows, diskRows,   \* data_points in memory and on disk: sets of [f, t, v]
    cacheRows,       \* data_cache: a set of [f, t, v], one for each field
    second, writes, queries, deletes,
    syncing,     \* rows the running sync has copied to disk
    deleting,    \* fields deleted in memory and not yet on disk
    query,       \* the history query being answered
    latest       \* the request for the latest values being answered

HistoryVars == <<memRows, diskRows, cacheRows, second, writes, queries, deletes, syncing, deleting, query, latest>>

RowKey(r) == <<r.f, r.t>>
Keys(S) == {RowKey(r) : r \in S}
\* must: the keys that were stored when the query began and were not deleted since.
NoQuery  == [pc |-> "idle", kind |-> "none", fields |-> {}, from |-> 0, limit |-> 1,
             memRows |-> <<>>, must |-> {}, ans |-> <<>>]
NoLatest == [pc |-> "idle", shown |-> {}, must |-> {}]

HistoryInit ==
    /\ memRows = {} /\ cacheRows = {} /\ syncing = {} /\ deleting = {}
    \* A restart finds the rows of earlier runs on disk.
    /\ \E F \in SUBSET Field : diskRows = {[f |-> f, t |-> 0, v |-> 0] : f \in F}
    /\ second = 1 /\ writes = 0 /\ queries = 0 /\ deletes = 0
    /\ query = NoQuery /\ latest = NoLatest

-----------------------------------------------------------------------------
(* What is written meanwhile.                                               *)

\* INSERT OR REPLACE into the rows in memory and into the cache; the cache
\* then keeps its CacheLimit newest entries.
Replaced(S, old, r) == (S \ old) \cup {r}
Trimmed(S) == IF Cardinality(S) <= CacheLimit THEN {S}
              ELSE {S \ {r} : r \in {x \in S : \A y \in S : x.t <= y.t}}

Collect(f, stored) ==
    LET r == [f |-> f, t |-> second, v |-> writes + 1] IN
    /\ writes < MaxWrites /\ writes' = writes + 1
    /\ memRows' = IF stored THEN Replaced(memRows, {x \in memRows : RowKey(x) = RowKey(r)}, r) ELSE memRows
    /\ cacheRows' \in Trimmed(Replaced(cacheRows, {x \in cacheRows : x.f = f}, r))
    /\ UNCHANGED <<diskRows, second, queries, syncing, deleting, deletes, query, latest>>

SecondPasses ==
    /\ second < MaxSecond /\ second' = second + 1
    /\ UNCHANGED <<memRows, diskRows, cacheRows, writes, queries, syncing, deleting, deletes, query, latest>>

\* INSERT OR IGNORE: a key that is on disk keeps its first value.
SyncToDisk ==
    /\ syncing = {} /\ memRows # {}
    /\ diskRows' = diskRows \cup {r \in memRows : RowKey(r) \notin Keys(diskRows)}
    /\ syncing' = memRows
    /\ UNCHANGED <<memRows, cacheRows, second, writes, queries, deleting, deletes, query, latest>>

\* The copied rows leave memory, but for one that was replaced meanwhile.
SyncFromMemory ==
    /\ syncing # {} /\ memRows' = memRows \ syncing /\ syncing' = {}
    /\ UNCHANGED <<diskRows, cacheRows, second, writes, queries, deleting, deletes, query, latest>>

\* DeleteHistoryDataByPoint: memory first, then disk.
Without(S, f) == {r \in S : r.f # f}
Forget(f) ==
    /\ query' = [query EXCEPT !.must = {k \in @ : k[1] # f}]
    /\ latest' = [latest EXCEPT !.must = {k \in @ : k[1] # f}]
DeleteInMemory(f) ==
    /\ f \notin deleting /\ deleting' = deleting \cup {f}
    /\ deletes < MaxDeletes /\ deletes' = deletes + 1
    /\ f \in {r.f : r \in memRows \cup diskRows}
    /\ memRows' = Without(memRows, f) /\ Forget(f)
    /\ UNCHANGED <<diskRows, cacheRows, second, writes, queries, syncing>>
DeleteOnDisk(f) ==
    /\ f \in deleting /\ deleting' = deleting \ {f}
    /\ diskRows' = Without(diskRows, f) /\ Forget(f)
    /\ UNCHANGED <<memRows, cacheRows, second, writes, queries, deletes, syncing>>

-----------------------------------------------------------------------------
(* The history queries.                                                     *)

\* ORDER BY collected_at DESC LIMIT: a row comes after those that are newer.
Newer(r, s) == r.t > s.t \/ (r.t = s.t /\ r.f < s.f)
NewestFirst(S) ==
    [n \in 1 .. Cardinality(S) |-> CHOOSE r \in S : Cardinality({x \in S : Newer(x, r)}) = n - 1]
FirstRows(s, n) == SubSeq(s, 1, IF Len(s) < n THEN Len(s) ELSE n)
Selected(S, q) ==
    FirstRows(NewestFirst({r \in S : r.f \in q.fields /\ r.t >= q.from}), q.limit)

\* Oldest second of what memory gave.
OldestCollectedAt(q) == q.memRows[Len(q.memRows)].t

\* A query by device alone asks the disk for rows before the oldest one of
\* memory, one by device and time for all of them.
\* Wrong variant: every query does the first.
BeforeOldest(q) ==
    Selected(IF q.memRows # <<>> THEN {r \in diskRows : r.t < OldestCollectedAt(q)} ELSE diskRows, q)
FromDisk(q) ==
    Selected(IF q.kind = "device" /\ q.memRows # <<>>
             THEN {r \in diskRows : r.t < OldestCollectedAt(q)} ELSE diskRows, q)

\* dataPointsDoNotOverlap
\* Wrong variant: what is on disk is taken to be older than what was in memory.
DiskIsOlder(p, s) == TRUE
DoNotOverlap(p, s) == p = <<>> \/ s = <<>> \/ s[1].t <= p[Len(p)].t

\* One round: the newer of the two heads, memory first on a tie, unless its key
\* has been taken.
MergeRound(p, s, limit, m) ==
    LET fromP == m.j = Len(s) \/ (m.i < Len(p) /\ p[m.i + 1].t >= s[m.j + 1].t)
        c     == IF fromP THEN p[m.i + 1] ELSE s[m.j + 1]
    IN  IF Len(m.out) = limit \/ m.i + m.j = Len(p) + Len(s) THEN m
        ELSE [i   |-> IF fromP THEN m.i + 1 ELSE m.i,
              j   |-> IF fromP THEN m.j ELSE m.j + 1,
              out |-> IF RowKey(c) \in Keys(ToSet(m.out)) THEN m.out ELSE Append(m.out, c)]

MergeLoop(p, s, limit) ==
    LET round[n \in 0 .. Len(p) + Len(s)] ==
            IF n = 0 THEN [i |-> 0, j |-> 0, out |-> <<>>] ELSE MergeRound(p, s, limit, round[n - 1])
    IN  round[Len(p) + Len(s)].out

MergeDataPoints(p, s, limit) ==
    IF DoNotOverlap(p, s) THEN FirstRows(p \o s, limit) ELSE MergeLoop(p, s, limit)

Answer(q, a) == query' = [q EXCEPT !.pc = "done", !.ans = a]

\* The table in memory; if that fills the answer the disk is not read.
BeginQuery(kind, fields, from, limit) ==
    LET asked == [NoQuery EXCEPT !.pc = "disk", !.kind = kind, !.fields = fields,
                    !.from = from, !.limit = limit]
        must  == {k \in Keys(memRows \cup diskRows) : k[1] \in fields \ deleting /\ k[2] >= from}
        q     == [asked EXCEPT !.memRows = Selected(memRows, asked), !.must = must]
    IN  /\ query.pc \in {"idle", "done"} /\ queries < MaxQueries /\ queries' = queries + 1
        /\ kind = "device" => from = 0 /\ fields = Field
        /\ IF Len(q.memRows) >= limit THEN Answer(q, q.memRows) ELSE query' = q
        /\ UNCHANGED <<memRows, diskRows, cacheRows, second, writes, syncing, deleting, deletes, latest>>

FinishQuery ==
    /\ query.pc = "disk"
    /\ Answer(query, MergeDataPoints(query.memRows, FromDisk(query), query.limit))
    /\ UNCHANGED <<memRows, diskRows, cacheRows, second, writes, queries, syncing, deleting, deletes, latest>>

-----------------------------------------------------------------------------
(* GetAllDevicesLatestData: the cache, or the history in memory if it is    *)
(* empty, then the newest rows on disk.                                     *)

NewestOf(S) == {r \in S : \A x \in S : x.f = r.f => x.t <= r.t}

\* appendLatestDeviceFieldRow: a row on disk of the same second wins.
\* Wrong variant: what is on disk always wins.
DiskWins(S, D) == {r \in S : r.f \notin {x.f : x \in D}} \cup D
Fresher(S, D) ==
    LET hidden(r) == \E x \in D : x.f = r.f /\ r.t <= x.t
        older(r)  == \E x \in S : x.f = r.f /\ x.t > r.t
    IN  {r \in S : ~hidden(r)} \cup {r \in D : ~older(r)}

BeginLatest ==
    LET S == IF cacheRows # {} THEN cacheRows ELSE NewestOf(memRows) IN
    /\ latest.pc \in {"idle", "done"} /\ queries < MaxQueries /\ queries' = queries + 1
    /\ latest' = [pc |-> "disk", shown |-> S, must |-> Keys(S) \cup {k \in Keys(NewestOf(diskRows)) : k[1] \notin deleting}]
    /\ UNCHANGED <<memRows, diskRows, cacheRows, second, writes, syncing, deleting, deletes, query>>

FinishLatest ==
    /\ latest.pc = "disk"
    /\ latest' = [latest EXCEPT !.pc = "done", !.shown = Fresher(@, NewestOf(diskRows))]
    /\ UNCHANGED <<memRows, diskRows, cacheRows, second, writes, queries, syncing, deleting, deletes, query>>

\* The file cannot be read: memory's part is the answer, and a warning is logged.
DiskUnreadable ==
    /\ \/ /\ query.pc = "disk" /\ UNCHANGED latest
          /\ query' = [query EXCEPT !.pc = "done", !.ans = query.memRows, !.must = Keys(ToSet(query.memRows))]
       \/ /\ latest.pc = "disk" /\ UNCHANGED query
          /\ latest' = [latest EXCEPT !.pc = "done", !.must = Keys(latest.shown)]
    /\ UNCHANGED <<memRows, diskRows, cacheRows, second, writes, queries, syncing, deleting, deletes>>

HistoryNext ==
    \/ \E f \in Field, stored \in BOOLEAN : Collect(f, stored)
    \/ SecondPasses \/ SyncToDisk \/ SyncFromMemory
    \/ \E f \in Field : DeleteInMemory(f) \/ DeleteOnDisk(f)
    \/ \E kind \in {"device", "range"}, fields \in Asked,
          from \in 0 .. 1, limit \in RowLimit : BeginQuery(kind, fields, from, limit)
    \/ FinishQuery \/ BeginLatest \/ FinishLatest \/ DiskUnreadable

HistorySpec == HistoryInit /\ [][HistoryNext]_HistoryVars

-----------------------------------------------------------------------------
Row == [f : Field, t : 0 .. MaxSecond, v : 0 .. MaxWrites]
HistoryTypeOK ==
    /\ memRows \subseteq Row /\ diskRows \subseteq Row /\ syncing \subseteq Row /\ cacheRows \subseteq Row
    /\ \A S \in {memRows, diskRows} : \A r, s \in S : RowKey(r) = RowKey(s) => r = s
    /\ \A r, s \in cacheRows : r.f = s.f => r = s
    /\ deleting \subseteq Field /\ second \in 1 .. MaxSecond
    /\ writes \in 0 .. MaxWrites /\ queries \in 0 .. MaxQueries /\ deletes \in 0 .. MaxDeletes
    /\ query.pc \in {"idle", "disk", "done"} /\ query.ans \in Seq(Row) /\ query.memRows \in Seq(Row)
    /\ latest.pc \in {"idle", "disk", "done"} /\ latest.shown \subseteq Row

\* The second a sync may have split: memory's oldest.
Split(t) == query.memRows # <<>> /\ t = OldestCollectedAt(query)

\* A history answer misses no row that was stored when the query began, while
\* a sync moves rows from memory to disk under it, except rows older than a
\* full answer's last one, and rows of the one second a query by device leaves
\* out on disk.
AnswerComplete ==
    query.pc = "done" => \A k \in query.must :
        \/ k \in Keys(ToSet(query.ans))
        \/ (Len(query.ans) = query.limit /\ k[2] <= query.ans[query.limit].t)
        \/ (query.kind = "device" /\ Split(k[2]))

\* It is ordered from the newest to the oldest row and names a row twice only
\* in the second where memory ends and the disk begins.
AnswerOrdered ==
    \A i, j \in DOMAIN query.ans : i < j =>
        /\ query.ans[i].t >= query.ans[j].t
        /\ RowKey(query.ans[i]) = RowKey(query.ans[j]) => Split(query.ans[i].t)

\* The latest values are never older than the cache's entry or the newest row
\* on disk when the request came in, and there is one for each field.
LatestIsNewest ==
    latest.pc = "done" =>
        /\ \A k \in latest.must : \E r \in latest.shown : r.f = k[1] /\ r.t >= k[2]
        /\ \A r, s \in latest.shown : r.f = s.f => r = s

\* What is read is what was written: complete, in order and up to date.
AnswersSound == HistoryTypeOK /\ AnswerComplete /\ AnswerOrdered /\ LatestIsNewest
=============================================================================

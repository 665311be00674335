---------------------------- MODULE CollectBatch ----------------------------
(***************************************************************************)
(* One collected reading becomes rows: InsertCollectDataWithOptions of     *)
(* internal/database (data_points_query.go, data_points_batch.go).         *)
(*                                                                         *)
(* A reading has a map of fields and a list of points.  A point's name is  *)
(* trimmed and a field's is not; a point overrides the field of its name,  *)
(* and a later point an earlier one.  The rows are written in batches:     *)
(* with history in one transaction, into cache and history; without, batch *)
(* by batch into the cache, or in one statement when they are few.  Go     *)
(* walks the map of fields in any order.                                   *)
(***************************************************************************)
EXTENDS Integers, Sequences, FiniteSets

CONSTANTS
    FieldName,     \* names, as trimmed
    FieldKeys,     \* the sets of fields a reading may have; a key is <<name, padded>>
    MaxPoints,     \* bound: points of a reading
    BatchSize      \* collectDataCacheBatchSize and collectDataHistoryBatchSize

ASSUME CollectBatchAssumption ==
    /\ MaxPoints \in Nat /\ BatchSize \in Nat \ {0}
    /\ FieldKeys \subseteq SUBSET (FieldName \X BOOLEAN) /\ \A F \in FieldKeys : IsFiniteSet(F)

Blank   == <<"", FALSE>>
RawName == (FieldName \X BOOLEAN) \cup {Blank}
\* trimDataPointFieldName
Trim(k) == <<k[1], FALSE>>

VARIABLES
    fields,      \* the keys of data.Fields; the value of a field is 0
    points,      \* data.Points: their names; the value of a point is its index
    stored,      \* storeHistory
    todo,        \* fields not yet appended
    nextPoint,   \* the next point to append
    batch,       \* rows of the batch: [key, val]
    written,     \* table data_cache as this reading changes it: [key |-> val]
    history,     \* the same of data_points
    inTx,        \* both as the open transaction sees them
    historyCount,
    outcome      \* running, ok or failed

CollectBatchVars == <<fields, points, stored, todo, nextPoint, batch, written, history, inTx,
                      historyCount, outcome>>
reading == <<fields, points, stored>>

Nothing == [k \in {} |-> 0]
\* A reading with history is written in one transaction.
\* Wrong variant: every statement commits itself.
NoTx == FALSE
InTx == stored

CollectBatchInit ==
    /\ fields \in FieldKeys
    /\ points \in UNION {[1 .. n -> RawName] : n \in 0 .. MaxPoints}
    /\ stored \in BOOLEAN
    /\ todo = fields /\ nextPoint = 1 /\ batch = <<>>
    /\ written = Nothing /\ history = Nothing /\ inTx = [cache |-> Nothing, rows |-> Nothing]
    /\ historyCount = 0 /\ outcome = "running"

\* normalizeCollectPointFieldNames
Named(i) == Trim(points[i])
Valid(i) == points[i] # Blank

\* collectOverriddenPointFieldNames
Overridden == {Named(i) : i \in {j \in DOMAIN points : Valid(j)}} \cap fields

\* countCollectDataCacheRows
RowCount == Cardinality({i \in DOMAIN points : Valid(i)}) + Cardinality(fields \ Overridden)

\* insertCollectDataCacheDirect writes all rows in one statement.
Limit == IF ~stored /\ RowCount <= BatchSize THEN RowCount ELSE BatchSize

-----------------------------------------------------------------------------
(* Rows are appended until a batch is full; then it must be flushed.        *)

FullBatch == Len(batch) >= Limit /\ batch # <<>>
AllAppended == todo \subseteq Overridden /\ nextPoint > Len(points)

AppendRow(key, val) ==
    /\ batch' = Append(batch, [key |-> key, val |-> val])
    /\ historyCount' = IF stored THEN historyCount + 1 ELSE historyCount
    /\ UNCHANGED <<reading, written, history, inTx, outcome>>

TakesField(k) == k \notin Overridden

AppendField(k) ==
    /\ outcome = "running" /\ ~FullBatch /\ k \in todo /\ TakesField(k)
    /\ AppendRow(k, 0) /\ todo' = todo \ {k} /\ UNCHANGED nextPoint

\* The points come after the fields.
AppendPoint ==
    /\ outcome = "running" /\ ~FullBatch
    /\ \A k \in todo : ~TakesField(k)
    /\ nextPoint <= Len(points) /\ nextPoint' = nextPoint + 1
    /\ IF Valid(nextPoint) THEN AppendRow(Named(nextPoint), nextPoint)
       ELSE UNCHANGED <<reading, batch, written, history, inTx, historyCount, outcome>>
    /\ UNCHANGED todo

\* INSERT OR REPLACE of several rows: of two with one key the later stays.
Upsert(table) ==
    LET last(k) == CHOOSE i \in DOMAIN batch :
                     batch[i].key = k /\ \A j \in DOMAIN batch : batch[j].key = k => j <= i
        keys == {batch[i].key : i \in DOMAIN batch}
    IN  [k \in DOMAIN table \cup keys |-> IF k \in keys THEN batch[last(k)].val ELSE table[k]]

\* A batch is written when it is full, and the last one when nothing is left.
MayFlush == outcome = "running" /\ batch # <<>> /\ (FullBatch \/ AllAppended)

\* flushCollectDataArgs, in the transaction.
FlushInTx ==
    /\ MayFlush /\ InTx
    /\ inTx' = [cache |-> Upsert(inTx.cache), rows |-> Upsert(inTx.rows)]
    /\ batch' = <<>> /\ UNCHANGED <<reading, todo, nextPoint, written, history, historyCount, outcome>>

\* insertCollectDataCacheDirect and insertCollectDataCacheChunkedDirect.
FlushDirect ==
    /\ MayFlush /\ ~InTx
    /\ written' = Upsert(written)
    /\ batch' = <<>> /\ UNCHANGED <<reading, todo, nextPoint, history, inTx, historyCount, outcome>>

\* A statement fails: a transaction is rolled back.
FlushFails ==
    /\ MayFlush /\ outcome' = "failed"
    /\ UNCHANGED <<reading, todo, nextPoint, batch, written, history, inTx, historyCount>>

\* Wrong variant: the last batch, which is not full, is not waited for.
EndsEarly == outcome = "running" /\ AllAppended
Ends == outcome = "running" /\ AllAppended /\ batch = <<>>

Commit ==
    /\ Ends
    /\ IF InTx THEN written' = inTx.cache /\ history' = inTx.rows ELSE UNCHANGED <<written, history>>
    /\ outcome' = "ok"
    /\ UNCHANGED <<reading, todo, nextPoint, batch, inTx, historyCount>>

CommitFails ==
    /\ Ends /\ InTx /\ outcome' = "failed"
    /\ UNCHANGED <<reading, todo, nextPoint, batch, written, history, inTx, historyCount>>

CollectBatchNext ==
    \/ \E k \in FieldName \X BOOLEAN : AppendField(k)
    \/ AppendPoint \/ FlushInTx \/ FlushDirect \/ FlushFails \/ Commit \/ CommitFails

CollectBatchSpec == CollectBatchInit /\ [][CollectBatchNext]_CollectBatchVars

-----------------------------------------------------------------------------
\* What a reading means: the last point of a name, or else the field.
Meaning ==
    LET named(k) == {i \in DOMAIN points : Valid(i) /\ Named(i) = k}
    IN  [k \in fields \cup {Named(i) : i \in {j \in DOMAIN points : Valid(j)}} |->
            IF named(k) = {} THEN 0 ELSE CHOOSE i \in named(k) : \A j \in named(k) : j <= i]

\* A reading that is answered as written is written as it is meant, to the
\* cache and, if asked for, to the history, however many batches it takes and
\* in whatever order the map of fields is walked.
ReadingWritten ==
    outcome = "ok" => /\ written = Meaning
                      /\ history = IF stored THEN Meaning ELSE Nothing
                      /\ batch = <<>> /\ (stored => historyCount = RowCount)

\* A reading whose write failed leaves nothing behind if it has history; one
\* for the cache alone leaves the fields of its first batches, none of them
\* with a field's value that a point overrides.
FailedWriteHarmless ==
    outcome = "failed" =>
        /\ history = Nothing /\ (stored => written = Nothing)
        /\ \A k \in DOMAIN written : written[k] = 0 => Meaning[k] = 0

\* A reading is written as it is meant, or leaves no harm.
BatchesSound == ReadingWritten /\ FailedWriteHarmless
=============================================================================

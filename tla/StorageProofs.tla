--------------------------- MODULE StorageProofs ---------------------------
(***************************************************************************)
(* Proofs about modules Storage and History, for every number of sources   *)
(* and readings, every size of the queue, the batches and the tables, and  *)
(* every number of fields, rows and queries.                               *)
(***************************************************************************)
EXTENDS Storage, History, SequenceTheorems, FiniteSetTheorems, WellFoundedInduction, TLAPS

LEMMA Bounds ==
    /\ QueueCap \in Nat /\ MaxBatch \in Nat /\ SyncTrigger \in Nat /\ MaxRows \in Nat
    /\ QueueCap >= 1 /\ MaxBatch >= 1
    /\ Retain \in Nat /\ MaxReadings \in Nat /\ MaxSec \in Nat /\ MaxFaults \in Nat
BY StorageAssumption

\* A relation that WFMin can be applied to.
LEMMA LessIsWellFounded == \E R : /\ IsWellFoundedOn(R, Nat) /\ \A x, y \in Nat : x < y => <<x, y>> \in R
<1>1. \A x, y \in Nat : x < y => <<x, y>> \in OpToRel(<, Nat)
  BY DEF OpToRel
<1> QED BY <1>1, NatLessThanWellFounded

LEMMA Minimal ==
    ASSUME NEW R, IsWellFoundedOn(R, Nat), NEW T, T \subseteq Nat, T # {}
    PROVE  \E x \in T : \A y \in T : ~ (<<y, x>> \in R)
BY WFMin, Zenon

LEMMA MinExists ==
    ASSUME NEW T, T \subseteq Nat, T # {}
    PROVE  \E x \in T : \A y \in T : x <= y
<1>1. PICK R : IsWellFoundedOn(R, Nat) /\ \A x, y \in Nat : x < y => <<x, y>> \in R
  BY LessIsWellFounded
<1>2. PICK x \in T : \A y \in T : ~(<<y, x>> \in R)
  BY <1>1, Minimal
<1>3. \A y \in T : ~(y < x)
  BY <1>1, <1>2
<1>4. \A y \in T : y \in Nat /\ x \in Nat
  OBVIOUS
<1> QED BY <1>3, <1>4

\* A bounded, non-empty set of naturals has a largest element, the one the
\* CHOOSE of MaxId and LastOf picks.
LEMMA MaxExists ==
    ASSUME NEW S \in SUBSET Nat, S # {}, NEW b \in Nat, \A x \in S : x <= b
    PROVE  \E n \in S : \A m \in S : m <= n
<1> DEFINE T == {y \in Nat : \E x \in S : y = b - x}
<1>1. \A x \in S : b - x \in T
  OBVIOUS
<1>2. T \subseteq Nat /\ T # {}
  BY <1>1
<1>3. PICK t \in T : \A u \in T : t <= u
  <2> HIDE DEF T
  <2> QED BY <1>2, MinExists
<1>4. PICK n \in S : t = b - n
  OBVIOUS
<1> QED BY <1>1, <1>3, <1>4


-----------------------------------------------------------------------------
(* Sequences of readings.                                                   *)

LEMMA WaitingAppend ==
    ASSUME NEW S, NEW s \in Seq(S), NEW r \in S
    PROVE  Waiting(Append(s, r)) = Waiting(s) \cup {r.nr}
<1>1. DOMAIN Append(s, r) = 1 .. Len(s) + 1 /\ DOMAIN s = 1 .. Len(s) /\ Len(s) \in Nat
  OBVIOUS
<1>2. \A i \in 1 .. Len(s) + 1 : Append(s, r)[i] = IF i <= Len(s) THEN s[i] ELSE r
  OBVIOUS
<1>3. \A i \in 1 .. Len(s) + 1 : i \in 1 .. Len(s) \/ ~(i <= Len(s))
  BY <1>1
<1>4. \A i \in 1 .. Len(s) : i \in 1 .. Len(s) + 1 /\ i <= Len(s)
  BY <1>1
<1>5. Len(s) + 1 \in 1 .. Len(s) + 1 /\ ~(Len(s) + 1 <= Len(s))
  BY <1>1
<1>6. Waiting(Append(s, r)) \subseteq Waiting(s) \cup {r.nr}
  BY <1>1, <1>2, <1>3 DEF Waiting
<1>7. Waiting(s) \subseteq Waiting(Append(s, r))
  BY <1>1, <1>2, <1>4 DEF Waiting
<1>8. r.nr \in Waiting(Append(s, r))
  BY <1>1, <1>2, <1>5 DEF Waiting
<1> QED BY <1>6, <1>7, <1>8

LEMMA WaitingHead ==
    ASSUME NEW S, NEW s \in Seq(S), s # <<>>
    PROVE  Waiting(s) = {Head(s).nr} \cup Waiting(Tail(s))
<1>1. DOMAIN Tail(s) = 1 .. Len(s) - 1 /\ \A i \in 1 .. Len(s) - 1 : Tail(s)[i] = s[i + 1]
  OBVIOUS
<1>2. DOMAIN s = 1 .. Len(s) /\ Head(s) = s[1] /\ Len(s) \in Nat /\ Len(s) > 0
  OBVIOUS
<1>3. \A i \in 1 .. Len(s) : i = 1 \/ (i - 1 \in 1 .. Len(s) - 1 /\ Tail(s)[i - 1] = s[i])
  BY <1>1, <1>2
<1>4. Waiting(s) \subseteq {Head(s).nr} \cup Waiting(Tail(s))
  <2> SUFFICES ASSUME NEW i \in 1 .. Len(s) PROVE s[i].nr \in {Head(s).nr} \cup Waiting(Tail(s))
    BY <1>2 DEF Waiting
  <2> QED BY <1>1, <1>2, <1>3 DEF Waiting
<1>5. \A i \in 1 .. Len(s) - 1 : i + 1 \in 1 .. Len(s)
  BY <1>2
<1>6. {Head(s).nr} \cup Waiting(Tail(s)) \subseteq Waiting(s)
  BY <1>1, <1>2, <1>5 DEF Waiting
<1> QED BY <1>4, <1>6

LEMMA WaitingOne == ASSUME NEW r PROVE Waiting(<<r>>) = {r.nr}
<1>1. DOMAIN <<r>> = {1} /\ <<r>>[1] = r
  OBVIOUS
<1> QED BY <1>1 DEF Waiting

LEMMA WaitingNone == Waiting(<<>>) = {}
BY DEF Waiting

LEMMA RowsOfNat == ASSUME NEW seq \in Seq(Reading) PROVE RowsOf(seq) \in Nat
<1>1. DOMAIN seq = 1 .. Len(seq) /\ Len(seq) \in Nat
  OBVIOUS
<1>2. IsFiniteSet(DOMAIN seq)
  BY <1>1, FS_Interval
<1>3. IsFiniteSet({j \in DOMAIN seq : seq[j].hist})
  BY <1>2, FS_Subset
<1> QED BY <1>3, FS_CardinalityType DEF RowsOf

-----------------------------------------------------------------------------
(* Types.                                                                   *)

InsertStates == [pc : {"idle", "gather", "batch", "one", "note", "limit", "trigger"},
             items : Seq(Reading), rows : Nat]
SyncAt   == [pc : {"idle", "lock", "copy", "delete", "reset"}, max : Nat]

QueueOK ==
    /\ clock \in 0 .. MaxSec /\ taken \in 0 .. MaxReadings
    /\ collectWriteAlive \in BOOLEAN
    /\ collectWriteCh \in Seq(Reading) /\ Len(collectWriteCh) <= QueueCap

\* An insert that has begun has something to insert, one that is over nothing.
InsertOK ==
    /\ insert \in [Writer -> InsertStates]
    /\ \A w \in Writer :
        /\ Len(insert[w].items) <= MaxBatch
        /\ insert[w].pc \in {"gather", "batch", "one"} => insert[w].items # <<>>
        /\ insert[w].pc = "idle" => insert[w].items = <<>>

MemOK ==
    /\ nextId \in Nat \ {0} /\ DOMAIN mem \subseteq Key
    /\ mem = [k \in DOMAIN mem |-> mem[k]] /\ \A k \in DOMAIN mem : mem[k] \in 1 .. nextId - 1

TableOK ==
    /\ cache \in [Source -> 0 .. MaxReadings] /\ disk \subseteq Key /\ history \subseteq Key
    /\ stored \subseteq Source \X (1 .. MaxReadings) /\ failed \subseteq 1 .. MaxReadings
    /\ faults \in 0 .. MaxFaults

TriggerOK ==
    /\ pendingRows \in Nat /\ dirty \in BOOLEAN /\ dataSyncTriggered \in BOOLEAN
    /\ panicked \in BOOLEAN

SyncOK == dataSyncMu \in Syncer \cup {"free"} /\ sync \in [Syncer -> SyncAt]

\* The inductive invariant of type correctness.
TypeInv == QueueOK /\ InsertOK /\ MemOK /\ TableOK /\ TriggerOK /\ SyncOK

LEMMA TypeInvOK == TypeInv => TypeOK
<1> SUFFICES ASSUME TypeInv PROVE TypeOK
  OBVIOUS
<1>1. \A w \in Writer : insert[w].items \in Seq(Reading) /\ Len(insert[w].items) <= MaxBatch
  BY DEF TypeInv, InsertOK, InsertStates
<1>2. /\ disk \cup history \subseteq Key /\ DOMAIN mem \subseteq Key
      /\ {dirty, dataSyncTriggered, panicked} \subseteq BOOLEAN
  BY DEF TypeInv, TableOK, MemOK, TriggerOK
<1> QED BY <1>1, <1>2 DEF TypeInv, QueueOK, TableOK, TriggerOK, SyncOK, TypeOK

LEMMA TypeInit == Init => TypeInv
<1> SUFFICES ASSUME Init PROVE TypeInv
  OBVIOUS
<1>1. <<>> \in Seq(Reading) /\ Len(<<>>) = 0
  OBVIOUS
<1>2. QueueOK
  BY <1>1, Bounds DEF Init, QueueOK
<1>3. InsertOK
  BY <1>1, Bounds DEF Init, InsertOK, InsertStates, Resting
<1>4. MemOK
  BY DEF Init, MemOK
<1>5. TableOK
  BY Bounds DEF Init, TableOK
<1>6. TriggerOK /\ SyncOK
  BY DEF Init, TriggerOK, SyncOK, SyncAt, Unsynced
<1> QED BY <1>2, <1>3, <1>4, <1>5, <1>6 DEF TypeInv

\* The rows in memory are finitely many.
LEMMA MemFinite ==
    ASSUME TypeInv, IsFiniteSet(Source)
    PROVE  IsFiniteSet(DOMAIN mem) /\ Cardinality(DOMAIN mem) \in Nat
<1>1. IsFiniteSet(0 .. MaxSec)
  BY Bounds, FS_Interval
<1>2. IsFiniteSet(Key)
  BY <1>1, FS_Product DEF Key
<1>3. DOMAIN mem \subseteq Key
  BY DEF TypeInv, QueueOK, TableOK, MemOK
<1> QED BY <1>2, <1>3, FS_Subset, FS_CardinalityType

\* SELECT MAX(id) finds the largest id, 0 when there is none.
LEMMA MaxIdIsLargest ==
    ASSUME TypeInv
    PROVE  /\ MaxId \in Nat /\ MaxId < nextId
           /\ \A k \in DOMAIN mem : mem[k] <= MaxId
           /\ MaxId = 0 => DOMAIN mem = {}
<1>1. CASE DOMAIN mem = {}
  BY <1>1 DEF MaxId, TypeInv, MemOK
<1>2. CASE DOMAIN mem # {}
  <2> DEFINE ids == {mem[k] : k \in DOMAIN mem}
  <2>1. ids \subseteq Nat /\ ids # {} /\ (\A i \in ids : i <= nextId) /\ nextId \in Nat
    BY <1>2 DEF TypeInv, MemOK
  <2>2. \E n \in ids : \A m \in ids : m <= n
    <3> HIDE DEF ids
    <3> QED BY <2>1, MaxExists
  <2>3. \E i \in ids : \A k \in DOMAIN mem : mem[k] <= i
    BY <2>2
  <2>4. MaxId \in ids /\ \A k \in DOMAIN mem : mem[k] <= MaxId
    BY <1>2, <2>3 DEF MaxId
  <2> QED BY <2>4 DEF TypeInv, MemOK
<1> QED BY <1>1, <1>2

\* What one transaction writes has the tables' types.
LEMMA StoredTyped ==
    ASSUME TypeInv, NEW seq \in Seq(Reading), Stored(seq)
    PROVE  /\ cache' \in [Source -> 0 .. MaxReadings]
           /\ DOMAIN mem' \subseteq Key /\ history' \subseteq Key
           /\ stored' \subseteq Source \X (1 .. MaxReadings)
           /\ nextId' \in Nat \ {0} /\ nextId <= nextId'
           /\ mem' = [k \in DOMAIN mem' |-> mem'[k]]
           /\ \A k \in DOMAIN mem' : mem'[k] \in 1 .. nextId' - 1
           /\ disk' = disk /\ failed' = failed /\ faults' = faults
<1>1. \A i \in DOMAIN seq : seq[i] \in Reading
  OBVIOUS
<1>2. HistKeys(seq) \subseteq Key
  <2>1. clock \in 0 .. MaxSec
    BY DEF TypeInv, QueueOK, TableOK, MemOK
  <2>2. \A i \in DOMAIN seq : seq[i].src \in Source
    BY <1>1 DEF Reading
  <2> QED BY <2>1, <2>2 DEF HistKeys, Key
<1>3. ASSUME NEW s \in Source PROVE LastOf(s, seq) \in 0 .. MaxReadings
  <2> DEFINE mine == {seq[i].nr : i \in {j \in DOMAIN seq : seq[j].src = s}}
  <2>1. mine \subseteq 1 .. MaxReadings
    BY <1>1 DEF Reading
  <2>2. CASE mine = {}
    BY <2>2 DEF LastOf, TypeInv, QueueOK, TableOK, MemOK
  <2>3. CASE mine # {}
    <3>1. \E n \in mine : \A m \in mine : m <= n
      <4> HIDE DEF mine
      <4>1. mine \in SUBSET Nat /\ \A x \in mine : x <= MaxReadings
        BY <2>1, Bounds
      <4> QED BY <2>3, <4>1, MaxExists, Bounds
    <3>2. LastOf(s, seq) \in mine
      BY <2>3, <3>1 DEF LastOf
    <3> QED BY <2>1, <3>2
  <2> QED BY <2>2, <2>3
<1>4. cache' \in [Source -> 0 .. MaxReadings]
  BY <1>3 DEF Stored
<1>5. stored' \subseteq Source \X (1 .. MaxReadings)
  BY <1>1 DEF Stored, Reading, TypeInv, QueueOK, TableOK, MemOK
<1>6. DOMAIN mem' \subseteq Key /\ history' \subseteq Key
  BY <1>2 DEF Stored, TypeInv, QueueOK, TableOK, MemOK
<1>7. /\ nextId' \in Nat \ {0} /\ nextId <= nextId'
      /\ \A k \in DOMAIN mem' : mem'[k] \in 1 .. nextId' - 1
  BY DEF Stored, TypeInv, MemOK
<1>8. mem' = [k \in DOMAIN mem' |-> mem'[k]]
  BY DEF Stored
<1> QED BY <1>4, <1>5, <1>6, <1>7, <1>8 DEF Stored

-----------------------------------------------------------------------------
(* What no other action changes.                                            *)

LEMMA QueueFrame ==
    ASSUME Next, \A s \in Source, hist \in BOOLEAN : ~Deliver(s, hist), ~Receive, ~StopWriter, ~Second
    PROVE  UNCHANGED <<clock, taken, queueVars>>
<1>1. CASE QueueStep
  BY <1>1 DEF QueueStep, Flush, WriteBatch, BatchFails
<1>2. CASE \E w \in Writer : WriterStep(w)
  BY <1>2 DEF WriterStep, InsertOne, InsertFails, Note, Limit, TriggerSkips, TriggerSync
<1>3. CASE \E s \in Syncer : SyncStep(s)
  BY <1>3 DEF SyncStep, SyncMax, SyncCopy, SyncDelete, SyncReset, SyncFails, SyncEnds
<1>4. CASE \E l \in Loop : LoopStep(l) \/ LoopTick(l)
  BY <1>4 DEF LoopStep, LoopEnter, LoopStop, LoopTick
<1>5. CASE Cleanup
  BY <1>5 DEF Cleanup, CleanMemory, CleanDisk, CleanFails
<1>6. CASE Shutdown \/ ShutdownStep
  BY <1>6 DEF Shutdown, ShutdownStep, WriterStopped, StopLoop
<1> QED BY <1>1, <1>2, <1>3, <1>4, <1>5, <1>6 DEF Next

LEMMA InsertFrame ==
    ASSUME Next, \A s \in Source, hist \in BOOLEAN : ~Deliver(s, hist), ~QueueStep,
           \A w \in Writer : ~WriterStep(w)
    PROVE  UNCHANGED insert
<1>1. CASE \E s \in Syncer : SyncStep(s)
  BY <1>1 DEF SyncStep, SyncMax, SyncCopy, SyncDelete, SyncReset, SyncFails, SyncEnds
<1>2. CASE \E l \in Loop : LoopStep(l) \/ LoopTick(l)
  BY <1>2 DEF LoopStep, LoopEnter, LoopStop, LoopTick
<1>3. CASE Cleanup
  BY <1>3 DEF Cleanup, CleanMemory, CleanDisk, CleanFails
<1>4. CASE Shutdown \/ ShutdownStep \/ Second
  BY <1>4 DEF Shutdown, ShutdownStep, StopWriter, WriterStopped, StopLoop, Second
<1> QED BY <1>1, <1>2, <1>3, <1>4 DEF Next

\* The rows in memory, on disk and in the promise's history.
LEMMA RowsFrame ==
    ASSUME Next, ~WriteBatch, \A w \in Writer : ~InsertOne(w) /\ ~Limit(w),
           \A s \in Syncer : ~SyncCopy(s) /\ ~SyncDelete(s), ~CleanMemory, ~CleanDisk
    PROVE  UNCHANGED rows
<1>1. CASE \E s \in Source, hist \in BOOLEAN : Deliver(s, hist)
  BY <1>1 DEF Deliver, table
<1>2. CASE QueueStep
  BY <1>2 DEF QueueStep, Receive, Flush, BatchFails, table
<1>3. CASE \E w \in Writer : WriterStep(w)
  BY <1>3 DEF WriterStep, InsertFails, Note, TriggerSkips, TriggerSync, table
<1>4. CASE \E s \in Syncer : SyncStep(s)
  BY <1>4 DEF SyncStep, SyncMax, SyncReset, SyncFails, SyncEnds, table
<1>5. CASE \E l \in Loop : LoopStep(l) \/ LoopTick(l)
  BY <1>5 DEF LoopStep, LoopEnter, LoopStop, LoopTick, table
<1>6. CASE Cleanup
  BY <1>6 DEF Cleanup, CleanFails
<1>7. CASE Shutdown \/ ShutdownStep \/ Second
  BY <1>7 DEF Shutdown, ShutdownStep, StopWriter, WriterStopped, StopLoop, Second, table
<1> QED BY <1>1, <1>2, <1>3, <1>4, <1>5, <1>6, <1>7 DEF Next

\* The readings that are inserted, and those that failed.
LEMMA EndedFrame ==
    ASSUME Next, ~WriteBatch, \A w \in Writer : ~InsertOne(w) /\ ~InsertFails(w)
    PROVE  UNCHANGED <<cache, stored, failed>>
<1>1. CASE \E s \in Source, hist \in BOOLEAN : Deliver(s, hist)
  BY <1>1 DEF Deliver, table
<1>2. CASE QueueStep
  BY <1>2 DEF QueueStep, Receive, Flush, BatchFails, table
<1>3. CASE \E w \in Writer : WriterStep(w)
  BY <1>3 DEF WriterStep, Note, Limit, TriggerSkips, TriggerSync, table
<1>4. CASE \E s \in Syncer : SyncStep(s)
  BY <1>4 DEF SyncStep, SyncMax, SyncCopy, SyncDelete, SyncReset, SyncFails, SyncEnds, table
<1>5. CASE \E l \in Loop : LoopStep(l) \/ LoopTick(l)
  BY <1>5 DEF LoopStep, LoopEnter, LoopStop, LoopTick, table
<1>6. CASE Cleanup
  BY <1>6 DEF Cleanup, CleanMemory, CleanDisk, CleanFails
<1>7. CASE Shutdown \/ ShutdownStep \/ Second
  BY <1>7 DEF Shutdown, ShutdownStep, StopWriter, WriterStopped, StopLoop, Second, table
<1> QED BY <1>1, <1>2, <1>3, <1>4, <1>5, <1>6, <1>7 DEF Next

LEMMA SyncFrame ==
    ASSUME Next, \A w \in Writer : ~TriggerSync(w), \A s \in Syncer : ~SyncStep(s),
           \A l \in Loop : ~LoopTick(l) /\ ~StopLoop(l)
    PROVE  UNCHANGED syncVars
<1>1. CASE \E s \in Source, hist \in BOOLEAN : Deliver(s, hist)
  BY <1>1 DEF Deliver
<1>2. CASE QueueStep
  BY <1>2 DEF QueueStep, Receive, Flush, WriteBatch, BatchFails
<1>3. CASE \E w \in Writer : WriterStep(w)
  BY <1>3 DEF WriterStep, InsertOne, InsertFails, Note, Limit, TriggerSkips
<1>4. CASE \E l \in Loop : LoopStep(l)
  BY <1>4 DEF LoopStep, LoopEnter, LoopStop
<1>5. CASE Cleanup
  BY <1>5 DEF Cleanup, CleanMemory, CleanDisk, CleanFails
<1>6. CASE Shutdown \/ ShutdownStep \/ Second
  BY <1>6 DEF Shutdown, ShutdownStep, StopWriter, WriterStopped, Second
<1> QED BY <1>1, <1>2, <1>3, <1>4, <1>5, <1>6 DEF Next

\* The shutdown goes on only by its own steps and the last sync's end.
LEMMA DownFrame ==
    ASSUME Next, \A s \in Syncer : ~SyncReset(s) /\ ~SyncFails(s), ~Shutdown, ~ShutdownStep
    PROVE  UNCHANGED down
<1>1. CASE \E s \in Source, hist \in BOOLEAN : Deliver(s, hist)
  BY <1>1 DEF Deliver
<1>2. CASE QueueStep
  BY <1>2 DEF QueueStep, Receive, Flush, WriteBatch, BatchFails
<1>3. CASE \E w \in Writer : WriterStep(w)
  BY <1>3 DEF WriterStep, InsertOne, InsertFails, Note, Limit, TriggerSkips, TriggerSync
<1>4. CASE \E s \in Syncer : SyncStep(s)
  BY <1>4 DEF SyncStep, SyncMax, SyncCopy, SyncDelete
<1>5. CASE \E l \in Loop : LoopStep(l) \/ LoopTick(l)
  BY <1>5 DEF LoopStep, LoopEnter, LoopStop, LoopTick
<1>6. CASE Cleanup
  BY <1>6 DEF Cleanup, CleanMemory, CleanDisk, CleanFails
<1>7. CASE Second
  BY <1>7 DEF Second
<1> QED BY <1>1, <1>2, <1>3, <1>4, <1>5, <1>6, <1>7 DEF Next

LEMMA FaultsCounted ==
    ASSUME Next PROVE faults' = faults \/ (faults < MaxFaults /\ faults' = faults + 1)
<1>1. CASE \E s \in Source, hist \in BOOLEAN : Deliver(s, hist)
  BY <1>1 DEF Deliver, table
<1>2. CASE QueueStep
  BY <1>2 DEF QueueStep, Receive, Flush, WriteBatch, BatchFails, Stored, Fault, table
<1>3. CASE \E w \in Writer : WriterStep(w)
  BY <1>3 DEF WriterStep, InsertOne, InsertFails, Note, Limit, TriggerSkips, TriggerSync, Stored, Fault, table
<1>4. CASE \E s \in Syncer : SyncStep(s)
  BY <1>4 DEF SyncStep, SyncMax, SyncCopy, SyncDelete, SyncReset, SyncFails, Fault, table
<1>5. CASE \E l \in Loop : LoopStep(l) \/ LoopTick(l)
  BY <1>5 DEF LoopStep, LoopEnter, LoopStop, LoopTick, table
<1>6. CASE Cleanup
  BY <1>6 DEF Cleanup, CleanMemory, CleanDisk, CleanFails, Fault
<1>7. CASE Shutdown \/ ShutdownStep \/ Second
  BY <1>7 DEF Shutdown, ShutdownStep, StopWriter, WriterStopped, StopLoop, Second, table
<1> QED BY <1>1, <1>2, <1>3, <1>4, <1>5, <1>6, <1>7 DEF Next

LEMMA TriggerFrame ==
    ASSUME Next, \A w \in Writer : ~Note(w) /\ ~TriggerSync(w),
           \A s \in Syncer : ~SyncReset(s) /\ ~SyncFails(s), \A l \in Loop : ~LoopEnter(l)
    PROVE  UNCHANGED <<trigger, panicked>>
<1>1. CASE \E s \in Source, hist \in BOOLEAN : Deliver(s, hist)
  BY <1>1 DEF Deliver
<1>2. CASE QueueStep
  BY <1>2 DEF QueueStep, Receive, Flush, WriteBatch, BatchFails
<1>3. CASE \E w \in Writer : WriterStep(w)
  BY <1>3 DEF WriterStep, InsertOne, InsertFails, Limit, TriggerSkips
<1>4. CASE \E s \in Syncer : SyncStep(s)
  BY <1>4 DEF SyncStep, SyncMax, SyncCopy, SyncDelete
<1>5. CASE \E l \in Loop : LoopStep(l) \/ LoopTick(l)
  BY <1>5 DEF LoopStep, LoopStop, LoopTick
<1>6. CASE Cleanup
  BY <1>6 DEF Cleanup, CleanMemory, CleanDisk, CleanFails
<1>7. CASE Shutdown \/ ShutdownStep \/ Second
  BY <1>7 DEF Shutdown, ShutdownStep, StopWriter, WriterStopped, StopLoop, Second
<1> QED BY <1>1, <1>2, <1>3, <1>4, <1>5, <1>6, <1>7 DEF Next

-----------------------------------------------------------------------------
(* Every step keeps the types.                                              *)

LEMMA HeadAndTail ==
    ASSUME NEW S, NEW s \in Seq(S), s # <<>>
    PROVE  Head(s) \in S /\ Tail(s) \in Seq(S) /\ Len(Tail(s)) = Len(s) - 1 /\ Len(s) \in Nat
OBVIOUS

LEMMA QueueStepOK == ASSUME TypeInv, Next PROVE QueueOK'
<1> USE Bounds DEF QueueOK
<1>1. ASSUME NEW s \in Source, NEW hist \in BOOLEAN, Deliver(s, hist) PROVE QueueOK'
  <2> DEFINE r == [src |-> s, nr |-> taken + 1, hist |-> hist]
  <2>1. /\ QueueOK /\ taken < MaxReadings /\ taken' = taken + 1
        /\ UNCHANGED <<clock, collectWriteAlive>>
    BY <1>1 DEF Deliver, TypeInv
  <2>2. r \in Reading
    BY <2>1 DEF Reading
  <2>3. CASE Room
    <3>1. collectWriteCh' = Append(collectWriteCh, r) /\ Len(collectWriteCh) < QueueCap
      BY <1>1, <2>3 DEF Deliver, Room
    <3>2. collectWriteCh' \in Seq(Reading) /\ Len(collectWriteCh') = Len(collectWriteCh) + 1
          /\ Len(collectWriteCh) \in Nat
      <4> HIDE DEF r
      <4> QED BY <2>1, <2>2, <3>1
    <3> QED BY <2>1, <3>1, <3>2
  <2>4. CASE ~Room
    <3>1. collectWriteCh' = collectWriteCh
      BY <1>1, <2>4 DEF Deliver
    <3> QED BY <2>1, <3>1
  <2> QED BY <2>3, <2>4
<1>2. CASE Receive
  <2>1. /\ QueueOK /\ collectWriteCh # <<>> /\ collectWriteCh' = Tail(collectWriteCh)
        /\ UNCHANGED <<clock, taken, collectWriteAlive>>
    BY <1>2 DEF Receive, TypeInv
  <2>2. /\ Tail(collectWriteCh) \in Seq(Reading) /\ Len(collectWriteCh) \in Nat
        /\ Len(Tail(collectWriteCh)) = Len(collectWriteCh) - 1
    BY <2>1, HeadAndTail
  <2> QED BY <2>1, <2>2
<1>3. CASE StopWriter
  BY <1>3 DEF StopWriter, TypeInv
<1>4. CASE Second
  BY <1>4 DEF Second, TypeInv, queueVars
<1>5. CASE UNCHANGED <<clock, taken, queueVars>>
  BY <1>5 DEF TypeInv, queueVars
<1> QED BY <1>1, <1>2, <1>3, <1>4, <1>5, QueueFrame

\* An insert that is replaced by one that is well formed.
InsertFine(x) ==
    /\ x \in InsertStates /\ Len(x.items) <= MaxBatch
    /\ x.pc \in {"gather", "batch", "one"} => x.items # <<>>
    /\ x.pc = "idle" => x.items = <<>>

LEMMA InsertIs == InsertOK => \A w \in Writer : InsertFine(insert[w])
BY DEF InsertOK, InsertFine

LEMMA InsertReplaced ==
    ASSUME InsertOK, NEW w \in Writer, NEW x, InsertFine(x), insert' = [insert EXCEPT ![w] = x]
    PROVE  InsertOK'
BY DEF InsertOK, InsertFine

LEMMA InsertedOK ==
    ASSUME InsertOK, NEW w \in Writer, NEW n \in Nat, NEW rest \in Seq(Reading),
           Len(rest) <= MaxBatch, Inserted(w, n, rest)
    PROVE  InsertOK'
<1> DEFINE x == [pc |-> IF n > 0 THEN "note" ELSE IF rest # <<>> THEN "one" ELSE "idle",
                 items |-> rest, rows |-> n]
<1>1. insert' = [insert EXCEPT ![w] = x]
  BY DEF Inserted
<1>2. InsertFine(x)
  BY DEF InsertFine, InsertStates
<1> HIDE DEF x
<1> QED BY <1>1, <1>2, InsertReplaced

\* The rest of what is to insert.
LEMMA RestOK ==
    ASSUME TypeInv, NEW w \in Writer, insert[w].pc = "one"
    PROVE  /\ insert[w].items \in Seq(Reading) /\ insert[w].items # <<>>
           /\ Head(insert[w].items) \in Reading /\ <<Head(insert[w].items)>> \in Seq(Reading)
           /\ Tail(insert[w].items) \in Seq(Reading) /\ Len(Tail(insert[w].items)) <= MaxBatch
<1>1. /\ insert[w].items \in Seq(Reading) /\ insert[w].items # <<>>
      /\ Len(insert[w].items) <= MaxBatch
  BY DEF TypeInv, InsertOK, InsertStates
<1>2. /\ Head(insert[w].items) \in Reading /\ Tail(insert[w].items) \in Seq(Reading)
      /\ Len(Tail(insert[w].items)) = Len(insert[w].items) - 1 /\ Len(insert[w].items) \in Nat
  BY <1>1, HeadAndTail
<1> QED BY <1>1, <1>2, Bounds

\* The inserts that are updated.
LEMMA WithItems ==
    ASSUME NEW x \in InsertStates, NEW p \in {"gather", "one"}, NEW i \in Seq(Reading), i # <<>>,
           Len(i) <= MaxBatch, NEW y, y = [x EXCEPT !.pc = p, !.items = i]
    PROVE  InsertFine(y)
<1>1. y.pc = p /\ y.items = i
  BY DEF InsertStates
<1>2. y \in InsertStates
  BY DEF InsertStates
<1> QED BY <1>1, <1>2 DEF InsertFine

LEMMA WithRows ==
    ASSUME NEW x, InsertFine(x), NEW p \in {"limit", "trigger"}, NEW n \in Nat,
           NEW y, y = [x EXCEPT !.pc = p, !.rows = n]
    PROVE  InsertFine(y)
<1>1. x \in InsertStates /\ y.pc = p /\ y.items = x.items
  BY DEF InsertStates, InsertFine
<1>2. y \in InsertStates
  BY <1>1 DEF InsertStates
<1> QED BY <1>1, <1>2 DEF InsertFine

LEMMA InsertStepOK == ASSUME TypeInv, Next, IsFiniteSet(Source) PROVE InsertOK'
<1>0. InsertOK /\ "queue" \in Writer /\ \A w \in Writer : InsertFine(insert[w]) /\ insert[w] \in InsertStates
  BY InsertIs DEF TypeInv, Writer, InsertFine
<1>1. ASSUME NEW s \in Source, NEW hist \in BOOLEAN, Deliver(s, hist) PROVE InsertOK'
  <2> DEFINE r == [src |-> s, nr |-> taken + 1, hist |-> hist]
             x == [insert[s] EXCEPT !.pc = "one", !.items = <<r>>]
  <2>1. r \in Reading
    BY <1>1, Bounds DEF Deliver, TypeInv, QueueOK, Reading
  <2>2. CASE Room
    BY <1>0, <1>1, <2>2 DEF Deliver, InsertOK
  <2>3. CASE ~Room
    <3>1. s \in Writer /\ insert' = [insert EXCEPT ![s] = x]
      BY <1>1, <2>3 DEF Deliver, Writer
    <3>2. <<r>> \in Seq(Reading) /\ Len(<<r>>) = 1 /\ <<r>> # <<>>
      <4> HIDE DEF r
      <4> QED BY <2>1
    <3>3. InsertFine(x)
      <4>1. insert[s] \in InsertStates /\ Len(<<r>>) <= MaxBatch
        BY <1>0, <3>1, <3>2, Bounds
      <4> HIDE DEF r
      <4> QED BY <3>2, <4>1, WithItems
    <3> HIDE DEF x
    <3> QED BY <1>0, <3>1, <3>3, InsertReplaced
  <2> QED BY <2>2, <2>3
<1>2. CASE Receive
  <2> DEFINE items == insert["queue"].items
             x == [insert["queue"] EXCEPT !.pc = "gather",
                                          !.items = Append(items, Head(collectWriteCh))]
  <2>1. Len(items) < MaxBatch /\ collectWriteCh # <<>>
    BY <1>2 DEF Receive
  <2>2. items \in Seq(Reading) /\ Head(collectWriteCh) \in Reading
    BY <1>0, <2>1, HeadAndTail DEF InsertStates, TypeInv, QueueOK
  <2>3. /\ Append(items, Head(collectWriteCh)) \in Seq(Reading)
        /\ Len(Append(items, Head(collectWriteCh))) = Len(items) + 1 /\ Len(items) \in Nat
        /\ Append(items, Head(collectWriteCh)) # <<>>
    <3> HIDE DEF items
    <3> QED BY <2>2
  <2>4. insert' = [insert EXCEPT !["queue"] = x]
    BY <1>0, <1>2 DEF Receive, InsertStates
  <2>5. InsertFine(x)
    <3>1. insert["queue"] \in InsertStates /\ Len(items) + 1 <= MaxBatch
      BY <1>0, <2>1, <2>3, Bounds
    <3> HIDE DEF items
    <3> QED BY <2>3, <3>1, WithItems
  <2> HIDE DEF x
  <2> QED BY <1>0, <2>4, <2>5, InsertReplaced
<1>3. CASE Flush
  <2>1. insert' = [insert EXCEPT !["queue"] = [insert["queue"] EXCEPT !.pc = "batch"]]
    BY <1>3 DEF Flush, FlushDue
  <2>2. InsertFine([insert["queue"] EXCEPT !.pc = "batch"])
    BY <1>0, <1>3 DEF Flush, InsertFine, InsertStates
  <2> QED BY <1>0, <2>1, <2>2, InsertReplaced
<1>4. CASE WriteBatch
  <2>1. insert["queue"].items \in Seq(Reading)
    BY <1>0 DEF InsertStates
  <2>2. RowsOf(insert["queue"].items) \in Nat /\ <<>> \in Seq(Reading) /\ Len(<<>>) <= MaxBatch
    BY <2>1, RowsOfNat, Bounds
  <2> QED BY <1>0, <1>4, <2>2, InsertedOK DEF WriteBatch
<1>5. CASE BatchFails
  <2>1. insert' = [insert EXCEPT !["queue"] = [insert["queue"] EXCEPT !.pc = "one"]]
    BY <1>5 DEF BatchFails
  <2>2. InsertFine([insert["queue"] EXCEPT !.pc = "one"])
    BY <1>0, <1>5 DEF BatchFails, InsertFine, InsertStates
  <2> QED BY <1>0, <2>1, <2>2, InsertReplaced
<1>6. ASSUME NEW w \in Writer, WriterStep(w) PROVE InsertOK'
  <2>1. CASE InsertOne(w)
    <3>1. /\ RowsOf(<<Head(insert[w].items)>>) \in Nat
          /\ Tail(insert[w].items) \in Seq(Reading) /\ Len(Tail(insert[w].items)) <= MaxBatch
      BY <2>1, RestOK, RowsOfNat DEF InsertOne
    <3> QED BY <1>0, <2>1, <3>1, InsertedOK DEF InsertOne
  <2>2. CASE InsertFails(w)
    <3>1. Tail(insert[w].items) \in Seq(Reading) /\ Len(Tail(insert[w].items)) <= MaxBatch
      BY <2>2, RestOK DEF InsertFails
    <3> QED BY <1>0, <2>2, <3>1, InsertedOK DEF InsertFails
  <2>3. CASE Note(w)
    <3>1. Cardinality(DOMAIN mem) \in Nat
      BY MemFinite
    <3>2. PICK n \in {0, Cardinality(DOMAIN mem) - MaxRows} :
            insert' = [insert EXCEPT ![w] = IF n > 0 THEN [insert[w] EXCEPT !.pc = "limit", !.rows = n]
                                            ELSE [insert[w] EXCEPT !.pc = "trigger", !.rows = 0]]
      BY <2>3 DEF Note
    <3>3. n \in Int
      BY <3>1, Bounds
    <3>4. CASE n > 0
      <4>1. n \in Nat
        BY <3>3, <3>4
      <4>2. InsertFine([insert[w] EXCEPT !.pc = "limit", !.rows = n])
        BY <1>0, <4>1, WithRows
      <4> QED BY <1>0, <3>2, <3>4, <4>2, InsertReplaced
    <3>5. CASE ~(n > 0)
      <4>1. InsertFine([insert[w] EXCEPT !.pc = "trigger", !.rows = 0])
        BY <1>0, WithRows
      <4> QED BY <1>0, <3>2, <3>5, <4>1, InsertReplaced
    <3> QED BY <3>4, <3>5
  <2>4. CASE Limit(w)
    <3>1. insert' = [insert EXCEPT ![w] = [insert[w] EXCEPT !.pc = "trigger", !.rows = 0]]
      BY <2>4 DEF Limit
    <3>2. InsertFine([insert[w] EXCEPT !.pc = "trigger", !.rows = 0])
      BY <1>0 DEF InsertFine, InsertStates
    <3> QED BY <1>0, <3>1, <3>2, InsertReplaced
  <2>5. CASE TriggerSkips(w) \/ TriggerSync(w)
    <3>1. insert' = [insert EXCEPT ![w] = Continue(w)]
      BY <2>5 DEF TriggerSkips, TriggerSync
    <3>2. InsertFine(Continue(w))
      BY <1>0 DEF InsertFine, InsertStates, Continue
    <3> QED BY <1>0, <3>1, <3>2, InsertReplaced
  <2> QED BY <1>6, <2>1, <2>2, <2>3, <2>4, <2>5 DEF WriterStep
<1>7. CASE UNCHANGED insert
  BY <1>0, <1>7 DEF InsertOK
<1> QED BY <1>1, <1>2, <1>3, <1>4, <1>5, <1>6, <1>7, InsertFrame DEF QueueStep

\* Rows that leave the memory.
LEMMA RemovedOK ==
    ASSUME MemOK, NEW D, Removed(D), nextId' = nextId
    PROVE  MemOK' /\ \A k \in DOMAIN mem' : k \in DOMAIN mem /\ mem'[k] = mem[k]
BY DEF MemOK, Removed

LEMMA MemStepOK == ASSUME TypeInv, Next PROVE MemOK'
<1>0. MemOK /\ \A w \in Writer : insert[w].items \in Seq(Reading)
  BY DEF TypeInv, InsertOK, InsertStates
<1>1. CASE WriteBatch
  BY <1>0, <1>1, StoredTyped DEF WriteBatch, Writer, MemOK
<1>2. ASSUME NEW w \in Writer, InsertOne(w) PROVE MemOK'
  <2>1. <<Head(insert[w].items)>> \in Seq(Reading)
    BY <1>2, RestOK DEF InsertOne
  <2> QED BY <1>2, <2>1, StoredTyped DEF InsertOne, MemOK
<1>3. ASSUME NEW w \in Writer, Limit(w) PROVE MemOK'
  BY <1>0, <1>3, RemovedOK DEF Limit, Dropped
<1>4. ASSUME NEW s \in Syncer, SyncDelete(s) PROVE MemOK'
  BY <1>0, <1>4, RemovedOK DEF SyncDelete
<1>5. CASE CleanMemory
  BY <1>0, <1>5, RemovedOK DEF CleanMemory, Dropped
<1>6. CASE UNCHANGED <<mem, nextId>>
  BY <1>0, <1>6 DEF MemOK
<1>7. ASSUME NEW s \in Syncer, SyncCopy(s) PROVE UNCHANGED <<mem, nextId>>
  BY <1>7 DEF SyncCopy
<1>8. CleanDisk => UNCHANGED <<mem, nextId>>
  BY DEF CleanDisk
<1> QED BY <1>1, <1>2, <1>3, <1>4, <1>5, <1>6, <1>7, <1>8, RowsFrame DEF rows

LEMMA TableStepOK == ASSUME TypeInv, Next PROVE TableOK'
<1>0. TableOK /\ MemOK /\ \A w \in Writer : insert[w].items \in Seq(Reading)
  BY DEF TypeInv, InsertOK, InsertStates
<1>1. faults' \in 0 .. MaxFaults
  BY <1>0, FaultsCounted, Bounds DEF TableOK
<1>2. disk' \subseteq Key /\ history' \subseteq Key
  <2>1. CASE WriteBatch
    BY <1>0, <2>1, StoredTyped DEF WriteBatch, Writer, TableOK
  <2>2. ASSUME NEW w \in Writer, InsertOne(w) PROVE disk' \subseteq Key /\ history' \subseteq Key
    <3>1. <<Head(insert[w].items)>> \in Seq(Reading)
      BY <2>2, RestOK DEF InsertOne
    <3> QED BY <1>0, <2>2, <3>1, StoredTyped DEF InsertOne, TableOK
  <2>3. ASSUME NEW w \in Writer, Limit(w) PROVE disk' \subseteq Key /\ history' \subseteq Key
    BY <1>0, <2>3 DEF Limit, Dropped, TableOK
  <2>4. ASSUME NEW s \in Syncer, SyncCopy(s) \/ SyncDelete(s)
        PROVE disk' \subseteq Key /\ history' \subseteq Key
    BY <1>0, <2>4 DEF SyncCopy, SyncDelete, UpTo, TableOK, MemOK
  <2>5. CASE CleanMemory \/ CleanDisk
    BY <1>0, <2>5 DEF CleanMemory, CleanDisk, Dropped, TableOK
  <2>6. CASE UNCHANGED rows
    BY <1>0, <2>6 DEF rows, TableOK
  <2> QED BY <2>1, <2>2, <2>3, <2>4, <2>5, <2>6, RowsFrame
<1>3. /\ cache' \in [Source -> 0 .. MaxReadings] /\ stored' \subseteq Source \X (1 .. MaxReadings)
      /\ failed' \subseteq 1 .. MaxReadings
  <2> DEFINE Goal == /\ cache' \in [Source -> 0 .. MaxReadings]
                     /\ stored' \subseteq Source \X (1 .. MaxReadings) /\ failed' \subseteq 1 .. MaxReadings
  <2>1. CASE WriteBatch
    BY <1>0, <2>1, StoredTyped DEF WriteBatch, Writer, TableOK
  <2>2. ASSUME NEW w \in Writer, InsertOne(w) PROVE Goal
    <3>1. <<Head(insert[w].items)>> \in Seq(Reading)
      BY <2>2, RestOK DEF InsertOne
    <3> QED BY <1>0, <2>2, <3>1, StoredTyped DEF InsertOne, TableOK
  <2>3. ASSUME NEW w \in Writer, InsertFails(w) PROVE Goal
    <3>1. Head(insert[w].items).nr \in 1 .. MaxReadings
      BY <2>3, RestOK DEF InsertFails, Reading
    <3> QED BY <1>0, <2>3, <3>1 DEF InsertFails, TableOK
  <2>4. CASE UNCHANGED <<cache, stored, failed>>
    BY <1>0, <2>4 DEF TableOK
  <2> QED BY <2>1, <2>2, <2>3, <2>4, EndedFrame
<1> QED BY <1>1, <1>2, <1>3 DEF TableOK

LEMMA TriggerStepOK == ASSUME TypeInv, Next, IsFiniteSet(Source) PROVE TriggerOK'
<1>0. TriggerOK
  BY DEF TypeInv
<1>1. ASSUME NEW w \in Writer, Note(w) PROVE TriggerOK'
  <2>1. insert[w].rows \in Nat
    BY DEF TypeInv, InsertOK, InsertStates
  <2> QED BY <1>0, <1>1, <2>1 DEF Note, TriggerOK
<1>2. ASSUME NEW w \in Writer, TriggerSync(w) PROVE TriggerOK'
  <2>1. Cardinality(DOMAIN mem) \in Nat
    BY MemFinite
  <2>2. pendingRows' \in Nat /\ dirty' = FALSE /\ panicked' = panicked
    BY <1>2, <2>1 DEF TriggerSync
  <2>3. dataSyncTriggered' \in BOOLEAN
    BY <1>2 DEF TriggerSync
  <2> QED BY <1>0, <2>2, <2>3 DEF TriggerOK
<1>3. ASSUME NEW s \in Syncer, SyncReset(s) \/ SyncFails(s) PROVE TriggerOK'
  <2>1. dataSyncTriggered' \in BOOLEAN /\ panicked' = panicked
    BY <1>3 DEF SyncReset, SyncFails, SyncEnds
  <2>2. CASE SyncReset(s)
    <3>1. pendingRows' = 0 /\ dirty' = FALSE
      BY <2>2 DEF SyncReset
    <3> QED BY <1>0, <2>1, <3>1 DEF TriggerOK
  <2>3. CASE SyncFails(s)
    <3>1. pendingRows' = pendingRows /\ dirty' = dirty
      BY <2>3 DEF SyncFails
    <3> QED BY <1>0, <2>1, <3>1 DEF TriggerOK
  <2> QED BY <1>3, <2>2, <2>3
<1>4. ASSUME NEW l \in Loop, LoopEnter(l) PROVE TriggerOK'
  BY <1>0, <1>4 DEF LoopEnter, TriggerOK, trigger
<1>5. CASE UNCHANGED <<trigger, panicked>>
  BY <1>0, <1>5 DEF TriggerOK, trigger
<1> QED BY <1>1, <1>2, <1>3, <1>4, <1>5, TriggerFrame

LEMMA SyncMoves ==
    ASSUME sync \in [Syncer -> SyncAt], NEW s \in Syncer,
           NEW p \in {"idle", "lock", "copy", "delete", "reset"}
    PROVE  [sync EXCEPT ![s].pc = p] \in [Syncer -> SyncAt]
<1>1. sync[s] \in SyncAt
  OBVIOUS
<1>2. [sync[s] EXCEPT !.pc = p] \in SyncAt
  BY <1>1 DEF SyncAt
<1> QED BY <1>2

LEMMA SyncStarts ==
    ASSUME sync \in [Syncer -> SyncAt], NEW s \in Syncer
    PROVE  [sync EXCEPT ![s].pc = "lock"] \in [Syncer -> SyncAt]
<1>1. "lock" \in {"idle", "lock", "copy", "delete", "reset"}
  OBVIOUS
<1> QED BY <1>1, SyncMoves

LEMMA SyncStepOK == ASSUME TypeInv, Next PROVE SyncOK'
<1>0. SyncOK /\ sync \in [Syncer -> SyncAt]
  BY DEF TypeInv, SyncOK
<1>2. {"ticker", "async", "final"} \subseteq Syncer
  BY DEF Syncer
<1>3. ASSUME NEW w \in Writer, TriggerSync(w) PROVE SyncOK'
  <2>1. dataSyncMu' = dataSyncMu
    BY <1>3 DEF TriggerSync
  <2>2. sync' = sync \/ sync' = [sync EXCEPT !["async"].pc = "lock"]
    BY <1>3 DEF TriggerSync
  <2>3. [sync EXCEPT !["async"].pc = "lock"] \in [Syncer -> SyncAt]
    BY <1>0, <1>2, SyncStarts
  <2>4. sync' \in [Syncer -> SyncAt]
    BY <1>0, <2>2, <2>3
  <2> QED BY <1>0, <2>1, <2>4 DEF SyncOK
<1>4. ASSUME NEW s \in Syncer, SyncStep(s) PROVE SyncOK'
  <2>1. CASE SyncMax(s)
    <3>1. [pc |-> IF MaxId = 0 THEN "reset" ELSE "copy", max |-> MaxId] \in SyncAt
      BY MaxIdIsLargest DEF SyncAt
    <3> QED BY <1>0, <2>1, <3>1 DEF SyncMax, SyncOK
  <2>2. CASE SyncCopy(s)
    <3>1. [sync EXCEPT ![s].pc = "delete"] \in [Syncer -> SyncAt]
      BY <1>0, SyncMoves
    <3> QED BY <1>0, <2>2, <3>1 DEF SyncCopy, SyncOK
  <2>3. CASE SyncDelete(s)
    <3>1. [sync EXCEPT ![s].pc = "reset"] \in [Syncer -> SyncAt]
      BY <1>0, SyncMoves
    <3> QED BY <1>0, <2>3, <3>1 DEF SyncDelete, SyncOK
  <2>4. CASE SyncReset(s) \/ SyncFails(s)
    <3>1. dataSyncMu' = "free" /\ sync' = [sync EXCEPT ![s] = Unsynced]
      BY <2>4 DEF SyncReset, SyncFails, SyncEnds
    <3>2. Unsynced \in SyncAt
      BY DEF Unsynced, SyncAt
    <3> QED BY <1>0, <3>1, <3>2 DEF SyncOK
  <2> QED BY <1>4, <2>1, <2>2, <2>3, <2>4 DEF SyncStep
<1>5. ASSUME NEW l \in Loop, LoopTick(l) \/ StopLoop(l) PROVE SyncOK'
  <2>1. \/ sync' = sync \/ sync' = [sync EXCEPT !["ticker"].pc = "lock"]
        \/ sync' = [sync EXCEPT !["final"].pc = "lock"]
    BY <1>5 DEF LoopTick, StopLoop
  <2>2. dataSyncMu' = dataSyncMu
    BY <1>5 DEF LoopTick, StopLoop
  <2>3. /\ [sync EXCEPT !["ticker"].pc = "lock"] \in [Syncer -> SyncAt]
        /\ [sync EXCEPT !["final"].pc = "lock"] \in [Syncer -> SyncAt]
    BY <1>0, <1>2, SyncStarts
  <2>4. sync' \in [Syncer -> SyncAt]
    BY <1>0, <2>1, <2>3
  <2> QED BY <1>0, <2>2, <2>4 DEF SyncOK
<1>6. CASE UNCHANGED syncVars
  BY <1>0, <1>6 DEF SyncOK, syncVars
<1> QED BY <1>3, <1>4, <1>5, <1>6, SyncFrame

LEMMA TypeStep ==
    ASSUME IsFiniteSet(Source), TypeInv, [Next]_vars PROVE TypeInv'
<1>1. CASE Next
  BY <1>1, QueueStepOK, InsertStepOK, MemStepOK, TableStepOK, TriggerStepOK, SyncStepOK DEF TypeInv
<1>2. CASE UNCHANGED vars
  BY <1>2 DEF vars, queueVars, table, rows, trigger, syncVars, loopVars,
              TypeInv, QueueOK, InsertOK, MemOK, TableOK, TriggerOK, SyncOK
<1> QED BY <1>1, <1>2

\* Theorem: in every behaviour every variable has its type, whatever the
\* sources, the sizes and the interleaving of deliveries, inserts, syncs,
\* clean-ups and the shutdown (the module's state as a whole).
THEOREM TypeSafe == ASSUME IsFiniteSet(Source) PROVE Spec => []TypeOK
<1>1. Init => TypeInv
  BY TypeInit
<1>2. TypeInv /\ [Next]_vars => TypeInv'
  BY TypeStep
<1>3. TypeInv => TypeOK
  BY TypeInvOK
<1> QED BY <1>1, <1>2, <1>3, PTL DEF Spec

-----------------------------------------------------------------------------
(* No reading is lost.                                                      *)

Pending == UNION {Waiting(insert[w].items) : w \in Writer}

\* What a step of one insert changes of what is being inserted.
LEMMA PendingSplit ==
    ASSUME NEW w \in Writer, \A v \in Writer \ {w} : insert'[v].items = insert[v].items
    PROVE  \E O : Pending = O \cup Waiting(insert[w].items) /\ Pending' = O \cup Waiting(insert'[w].items)
<1> DEFINE O == UNION {Waiting(insert[v].items) : v \in Writer \ {w}}
<1>1. Pending = O \cup Waiting(insert[w].items)
  BY DEF Pending
<1>2. Pending' = O \cup Waiting(insert'[w].items)
  <2>1. Pending' = UNION {Waiting(insert'[v].items) : v \in Writer}
    BY DEF Pending, Waiting
  <2>2. UNION {Waiting(insert'[v].items) : v \in Writer \ {w}} = O
    OBVIOUS
  <2>3. UNION {Waiting(insert'[v].items) : v \in Writer}
            = (UNION {Waiting(insert'[v].items) : v \in Writer \ {w}}) \cup Waiting(insert'[w].items)
    OBVIOUS
  <2> QED BY <2>1, <2>2, <2>3
<1> HIDE DEF O
<1> QED BY <1>1, <1>2

\* A step that replaces one insert leaves the others alone.
LEMMA OthersWait ==
    ASSUME InsertOK, NEW w \in Writer, NEW x, insert' = [insert EXCEPT ![w] = x]
    PROVE  insert'[w] = x /\ \A v \in Writer \ {w} : insert'[v].items = insert[v].items
BY DEF InsertOK

\* After a transaction the readings in it are inserted.
LEMMA StoredEnds ==
    ASSUME NEW seq, Stored(seq)
    PROVE  {r[2] : r \in stored'} = {r[2] : r \in stored} \cup Waiting(seq) /\ failed' = failed
<1>1. stored' = stored \cup {<<seq[i].src, seq[i].nr>> : i \in DOMAIN seq} /\ failed' = failed
  BY DEF Stored
<1>2. {r[2] : r \in {<<seq[i].src, seq[i].nr>> : i \in DOMAIN seq}} = Waiting(seq)
  <2> DEFINE new == {<<seq[i].src, seq[i].nr>> : i \in DOMAIN seq}
  <2>1. ASSUME NEW i \in DOMAIN seq PROVE seq[i].nr \in {r[2] : r \in new}
    <3>1. <<seq[i].src, seq[i].nr>> \in new /\ <<seq[i].src, seq[i].nr>>[2] = seq[i].nr
      OBVIOUS
    <3> HIDE DEF new
    <3> QED BY <3>1
  <2>2. ASSUME NEW r \in new PROVE r[2] \in Waiting(seq)
    BY DEF Waiting
  <2> HIDE DEF new
  <2>3. {r[2] : r \in new} \subseteq Waiting(seq)
    BY <2>2
  <2>4. Waiting(seq) \subseteq {r[2] : r \in new}
    BY <2>1 DEF Waiting
  <2> QED BY <2>3, <2>4 DEF new
<1> QED BY <1>1, <1>2

LEMMA LossInit == Init => NoReadingLost
<1> SUFFICES ASSUME Init PROVE NoReadingLost
  OBVIOUS
<1>1. \A w \in Writer : Waiting(insert[w].items) = {}
  BY WaitingNone DEF Init, Resting
<1>2. UNION {Waiting(insert[w].items) : w \in Writer} = {}
  BY <1>1
<1>3. Ended = {} /\ Waiting(collectWriteCh) = {} /\ 1 .. taken = {}
  BY WaitingNone DEF Init, Ended
<1> QED BY <1>2, <1>3 DEF NoReadingLost

\* A reading that is delivered waits, in the queue or with its source.
LEMMA LossDeliver ==
    ASSUME TypeInv, NoReadingLost, NEW s \in Source, NEW hist \in BOOLEAN, Deliver(s, hist)
    PROVE  NoReadingLost'
<1> DEFINE r == [src |-> s, nr |-> taken + 1, hist |-> hist]
<1>1. /\ taken \in Nat /\ taken' = taken + 1 /\ r.nr = taken + 1
      /\ stored' = stored /\ failed' = failed
  BY DEF Deliver, TypeInv, QueueOK, table
<1>2. 1 .. taken' = 1 .. taken \cup {r.nr}
  BY <1>1
<1>3. Ended' = Ended
  BY <1>1 DEF Ended
<1>4. r \in Reading /\ collectWriteCh \in Seq(Reading)
  BY Bounds DEF Deliver, TypeInv, QueueOK, Reading
<1>5. s \in Writer /\ insert[s].items = <<>>
  BY DEF Deliver, TypeInv, InsertOK, Writer
<1>6. CASE Room
  <2>1. collectWriteCh' = Append(collectWriteCh, r) /\ insert' = insert
    BY <1>6 DEF Deliver
  <2>2. Waiting(collectWriteCh') = Waiting(collectWriteCh) \cup {r.nr}
    <3> HIDE DEF r
    <3>1. Waiting(Append(collectWriteCh, r)) = Waiting(collectWriteCh) \cup {r.nr}
      BY <1>4, WaitingAppend
    <3> QED BY <2>1, <3>1
  <2>3. Pending' = Pending
    BY <2>1 DEF Pending, Waiting
  <2>4. Waiting(collectWriteCh)' = Waiting(collectWriteCh')
    BY DEF Waiting
  <2> HIDE DEF r
  <2> QED BY <1>2, <1>3, <2>2, <2>3, <2>4 DEF NoReadingLost, Pending
<1>7. CASE ~Room
  <2>1. collectWriteCh' = collectWriteCh
        /\ insert' = [insert EXCEPT ![s] = [insert[s] EXCEPT !.pc = "one", !.items = <<r>>]]
    BY <1>7 DEF Deliver
  <2>2. /\ insert'[s].items = <<r>>
        /\ \A v \in Writer \ {s} : insert'[v].items = insert[v].items
    <3>1. insert[s] \in InsertStates /\ InsertOK
      BY <1>5 DEF TypeInv, InsertOK
    <3> DEFINE x == [insert[s] EXCEPT !.pc = "one", !.items = <<r>>]
    <3>2. x.items = <<r>>
      <4>1. x = [insert[s] EXCEPT !.pc = "one", !.items = <<r>>]
        OBVIOUS
      <4> HIDE DEF r, x
      <4> QED BY <3>1, <4>1 DEF InsertStates
    <3>3. insert' = [insert EXCEPT ![s] = x]
      BY <2>1
    <3> HIDE DEF x
    <3>4. insert'[s] = x /\ \A v \in Writer \ {s} : insert'[v].items = insert[v].items
      BY <1>5, <3>1, <3>3, OthersWait
    <3> HIDE DEF r
    <3> QED BY <3>2, <3>4
  <2>3. PICK O : Pending = O \cup Waiting(insert[s].items) /\ Pending' = O \cup Waiting(insert'[s].items)
    BY <1>5, <2>2, PendingSplit
  <2>4. Waiting(insert[s].items) = {} /\ Waiting(insert'[s].items) = {r.nr}
    <3> HIDE DEF r
    <3> QED BY <1>5, <2>2, WaitingNone, WaitingOne
  <2>5. Waiting(collectWriteCh)' = Waiting(collectWriteCh)
    BY <2>1 DEF Waiting
  <2> HIDE DEF r
  <2> QED BY <1>2, <1>3, <2>3, <2>4, <2>5 DEF NoReadingLost, Pending
<1> QED BY <1>6, <1>7

\* A step of one insert keeps every reading that keeps those of its own, of
\* the queue and of the tables together.
LEMMA LossOne ==
    ASSUME InsertOK, NoReadingLost, taken' = taken, NEW w \in Writer, NEW x,
           insert' = [insert EXCEPT ![w] = x],
           Ended' \cup Waiting(collectWriteCh') \cup Waiting(x.items)
               = Ended \cup Waiting(collectWriteCh) \cup Waiting(insert[w].items)
    PROVE  NoReadingLost'
<1>1. insert'[w] = x /\ \A v \in Writer \ {w} : insert'[v].items = insert[v].items
  BY OthersWait
<1>2. PICK O : Pending = O \cup Waiting(insert[w].items) /\ Pending' = O \cup Waiting(insert'[w].items)
  BY <1>1, PendingSplit
<1>3. 1 .. taken = Ended \cup Waiting(collectWriteCh) \cup Pending
  BY DEF NoReadingLost, Pending
<1>4. 1 .. taken' = Ended' \cup Waiting(collectWriteCh') \cup Pending'
  BY <1>1, <1>2, <1>3
<1>5. NoReadingLost' <=> 1 .. taken' = Ended' \cup Waiting(collectWriteCh') \cup Pending'
  BY DEF NoReadingLost, Pending, Waiting
<1> QED BY <1>4, <1>5

\* An insert that moves on has the same readings to insert.
LEMMA LossMoves ==
    ASSUME InsertOK, NoReadingLost, taken' = taken, NEW w \in Writer, NEW x,
           insert' = [insert EXCEPT ![w] = x], x.items = insert[w].items,
           UNCHANGED <<collectWriteCh, stored, failed>>
    PROVE  NoReadingLost'
<1>1. Ended' = Ended /\ Waiting(collectWriteCh') = Waiting(collectWriteCh)
  BY DEF Ended
<1> QED BY <1>1, LossOne

\* The writer takes the oldest reading of the queue into its batch.
LEMMA LossReceive == ASSUME TypeInv, NoReadingLost, Receive PROVE NoReadingLost'
<1> DEFINE items == insert["queue"].items
           more == Append(items, Head(collectWriteCh))
           x == [insert["queue"] EXCEPT !.pc = "gather", !.items = more]
<1>1. "queue" \in Writer /\ InsertOK /\ insert["queue"] \in InsertStates
  BY DEF TypeInv, InsertOK, Writer
<1>2. /\ collectWriteCh' = Tail(collectWriteCh) /\ collectWriteCh # <<>>
      /\ taken' = taken /\ stored' = stored /\ failed' = failed
  BY DEF Receive, table
<1>3. items \in Seq(Reading) /\ collectWriteCh \in Seq(Reading) /\ Head(collectWriteCh) \in Reading
  BY <1>1, <1>2, HeadAndTail DEF InsertStates, TypeInv, QueueOK
<1>4. insert' = [insert EXCEPT !["queue"] = x]
  BY <1>1 DEF Receive, InsertStates
<1>5. x.items = more
  <2>1. x = [insert["queue"] EXCEPT !.pc = "gather", !.items = more]
    OBVIOUS
  <2> HIDE DEF x, more
  <2> QED BY <1>1, <2>1 DEF InsertStates
<1>6. Waiting(more) = Waiting(items) \cup {Head(collectWriteCh).nr}
  <2> HIDE DEF items
  <2> QED BY <1>3, WaitingAppend
<1>7. Waiting(collectWriteCh) = {Head(collectWriteCh).nr} \cup Waiting(collectWriteCh')
  BY <1>2, <1>3, WaitingHead
<1>8. Ended' = Ended
  BY <1>2 DEF Ended
<1>9. Ended' \cup Waiting(collectWriteCh') \cup Waiting(x.items)
          = Ended \cup Waiting(collectWriteCh) \cup Waiting(insert["queue"].items)
  <2> HIDE DEF x, more
  <2> QED BY <1>5, <1>6, <1>7, <1>8
<1> HIDE DEF x
<1> QED BY <1>1, <1>2, <1>4, <1>9, LossOne

\* A transaction inserts what it has, and a failed insert is reported.
LEMMA LossInserted ==
    ASSUME InsertOK, NoReadingLost, taken' = taken, collectWriteCh' = collectWriteCh,
           NEW w \in Writer, NEW n, NEW rest, Inserted(w, n, rest),
           Ended' \cup Waiting(rest) = Ended \cup Waiting(insert[w].items)
    PROVE  NoReadingLost'
<1> DEFINE x == [pc |-> IF n > 0 THEN "note" ELSE IF rest # <<>> THEN "one" ELSE "idle",
                 items |-> rest, rows |-> n]
<1>1. insert' = [insert EXCEPT ![w] = x] /\ x.items = rest
  BY DEF Inserted
<1> HIDE DEF x
<1>2. Waiting(collectWriteCh') = Waiting(collectWriteCh)
  OBVIOUS
<1>3. Ended' \cup Waiting(collectWriteCh') \cup Waiting(x.items)
          = Ended \cup Waiting(collectWriteCh) \cup Waiting(insert[w].items)
  BY <1>1, <1>2
<1> QED BY <1>1, <1>3, LossOne

LEMMA LossWritten ==
    ASSUME InsertOK, NoReadingLost, taken' = taken, collectWriteCh' = collectWriteCh,
           NEW w \in Writer, NEW n, NEW rest, Inserted(w, n, rest), NEW seq, Stored(seq),
           Waiting(insert[w].items) = Waiting(seq) \cup Waiting(rest)
    PROVE  NoReadingLost'
<1>1. Ended' = Ended \cup Waiting(seq)
  BY StoredEnds DEF Ended
<1>2. Ended' \cup Waiting(rest) = Ended \cup Waiting(insert[w].items)
  BY <1>1
<1> QED BY <1>2, LossInserted

LEMMA LossWriterStep ==
    ASSUME TypeInv, NoReadingLost, NEW w \in Writer, WriterStep(w) PROVE NoReadingLost'
<1>0. /\ InsertOK /\ insert[w] \in InsertStates
      /\ taken' = taken /\ collectWriteCh' = collectWriteCh
  BY DEF TypeInv, InsertOK, WriterStep, InsertOne, InsertFails, Note, Limit, TriggerSkips,
         TriggerSync, queueVars
<1> DEFINE head == Head(insert[w].items)  tail == Tail(insert[w].items)
<1>1. CASE InsertOne(w)
  <2>1. Waiting(insert[w].items) = Waiting(<<head>>) \cup Waiting(tail)
    BY <1>1, RestOK, WaitingHead, WaitingOne DEF InsertOne
  <2>2. Stored(<<head>>) /\ Inserted(w, RowsOf(<<head>>), tail)
    BY <1>1 DEF InsertOne
  <2> HIDE DEF head, tail
  <2> QED BY <1>0, <2>1, <2>2, LossWritten
<1>2. CASE InsertFails(w)
  <2>1. Waiting(insert[w].items) = {head.nr} \cup Waiting(tail)
    BY <1>2, RestOK, WaitingHead DEF InsertFails
  <2>2. Ended' = Ended \cup {head.nr} /\ Inserted(w, 0, tail)
    BY <1>2 DEF InsertFails, Ended
  <2> HIDE DEF head, tail
  <2>3. Ended' \cup Waiting(tail) = Ended \cup Waiting(insert[w].items)
    BY <2>1, <2>2
  <2> QED BY <1>0, <2>2, <2>3, LossInserted
<1>3. CASE Note(w)
  <2>1. PICK n : insert' = [insert EXCEPT ![w] = IF n > 0 THEN [insert[w] EXCEPT !.pc = "limit", !.rows = n]
                                                 ELSE [insert[w] EXCEPT !.pc = "trigger", !.rows = 0]]
    BY <1>3 DEF Note
  <2> DEFINE x == IF n > 0 THEN [insert[w] EXCEPT !.pc = "limit", !.rows = n]
                           ELSE [insert[w] EXCEPT !.pc = "trigger", !.rows = 0]
  <2>2. x.items = insert[w].items
    BY <1>0 DEF InsertStates
  <2>3. insert' = [insert EXCEPT ![w] = x] /\ stored' = stored /\ failed' = failed
    BY <1>3, <2>1 DEF Note, table
  <2> HIDE DEF x
  <2> QED BY <1>0, <2>2, <2>3, LossMoves
<1>4. CASE Limit(w)
  <2> DEFINE x == [insert[w] EXCEPT !.pc = "trigger", !.rows = 0]
  <2>1. x.items = insert[w].items
    BY <1>0 DEF InsertStates
  <2>2. insert' = [insert EXCEPT ![w] = x] /\ stored' = stored /\ failed' = failed
    BY <1>4 DEF Limit
  <2> HIDE DEF x
  <2> QED BY <1>0, <2>1, <2>2, LossMoves
<1>5. CASE TriggerSkips(w) \/ TriggerSync(w)
  <2>1. Continue(w).items = insert[w].items
    BY <1>0 DEF Continue, InsertStates
  <2>2. insert' = [insert EXCEPT ![w] = Continue(w)] /\ stored' = stored /\ failed' = failed
    BY <1>5 DEF TriggerSkips, TriggerSync, table
  <2> QED BY <1>0, <2>1, <2>2, LossMoves
<1> QED BY <1>1, <1>2, <1>3, <1>4, <1>5 DEF WriterStep

LEMMA LossQueueStep == ASSUME TypeInv, NoReadingLost, QueueStep PROVE NoReadingLost'
<1>0. "queue" \in Writer /\ InsertOK /\ insert["queue"] \in InsertStates
  BY DEF TypeInv, InsertOK, Writer
<1>1. CASE Flush
  <2> DEFINE x == [insert["queue"] EXCEPT !.pc = "batch"]
  <2>1. x.items = insert["queue"].items
    BY <1>0 DEF InsertStates
  <2>2. /\ insert' = [insert EXCEPT !["queue"] = x] /\ taken' = taken
        /\ UNCHANGED <<collectWriteCh, stored, failed>>
    BY <1>1 DEF Flush, FlushDue, table, queueVars
  <2> HIDE DEF x
  <2> QED BY <1>0, <2>1, <2>2, LossMoves
<1>2. CASE BatchFails
  <2> DEFINE x == [insert["queue"] EXCEPT !.pc = "one"]
  <2>1. x.items = insert["queue"].items
    BY <1>0 DEF InsertStates
  <2>2. /\ insert' = [insert EXCEPT !["queue"] = x] /\ taken' = taken
        /\ UNCHANGED <<collectWriteCh, stored, failed>>
    BY <1>2 DEF BatchFails, queueVars
  <2> HIDE DEF x
  <2> QED BY <1>0, <2>1, <2>2, LossMoves
<1>3. CASE WriteBatch
  <2>1. Waiting(insert["queue"].items) = Waiting(insert["queue"].items) \cup Waiting(<<>>)
    BY WaitingNone
  <2>2. taken' = taken /\ collectWriteCh' = collectWriteCh
    BY <1>3 DEF WriteBatch, queueVars
  <2> QED BY <1>0, <1>3, <2>1, <2>2, LossWritten DEF WriteBatch
<1> QED BY <1>1, <1>2, <1>3, LossReceive DEF QueueStep

LEMMA LossStep == ASSUME TypeInv, NoReadingLost, [Next]_vars PROVE NoReadingLost'
<1>1. CASE UNCHANGED <<taken, collectWriteCh, insert, stored, failed>>
  BY <1>1 DEF NoReadingLost, Ended, Waiting
<1>2. StopWriter \/ Second \/ UNCHANGED vars => UNCHANGED <<taken, collectWriteCh, insert, stored, failed>>
  BY DEF StopWriter, Second, vars, queueVars, table
<1>3. ASSUME Next, ~StopWriter, ~Second, \A s \in Source, hist \in BOOLEAN : ~Deliver(s, hist),
             ~QueueStep, \A w \in Writer : ~WriterStep(w)
      PROVE  UNCHANGED <<taken, collectWriteCh, insert, stored, failed>>
  <2>1. "queue" \in Writer
    BY DEF Writer
  <2>2. ~Receive /\ ~WriteBatch /\ \A w \in Writer : ~InsertOne(w) /\ ~InsertFails(w)
    BY <1>3 DEF QueueStep, WriterStep
  <2> QED BY <1>3, <2>2, QueueFrame, InsertFrame, EndedFrame DEF queueVars
<1> QED BY <1>1, <1>2, <1>3, LossDeliver, LossQueueStep, LossWriterStep

-----------------------------------------------------------------------------
(* No row is lost.                                                          *)

\* What a sync is about to delete has an id of a row that was there when it
\* copied; and what of it is still of the history, it has copied.  Rows that
\* come in meanwhile have larger ids.
CopyOK(s) ==
    /\ sync[s].pc \in {"copy", "delete"} => sync[s].max < nextId
    /\ sync[s].pc = "delete" =>
           \A k \in DOMAIN mem : mem[k] <= sync[s].max /\ k \in history => k \in disk

RowsInv == HistoryKept /\ \A s \in Syncer : CopyOK(s)

LEMMA RowsInit == Init => RowsInv
BY DEF Init, RowsInv, HistoryKept, CopyOK, Unsynced

\* A transaction that writes rows gives them ids no sync deletes.
LEMMA RowsStored ==
    ASSUME TypeInv, RowsInv, NEW seq, Stored(seq), UNCHANGED sync
    PROVE  RowsInv'
<1>1. MemOK /\ sync \in [Syncer -> SyncAt]
  BY DEF TypeInv, SyncOK
<1>2. HistoryKept'
  BY DEF Stored, RowsInv, HistoryKept
<1>3. ASSUME NEW s \in Syncer PROVE CopyOK(s)'
  <2>1. sync[s].max \in Nat /\ nextId \in Nat /\ nextId' \in Nat /\ nextId <= nextId'
    BY <1>1 DEF SyncAt, MemOK, Stored
  <2>2. sync[s].pc \in {"copy", "delete"} => sync[s].max < nextId
    BY DEF RowsInv, CopyOK
  <2>3. ASSUME sync[s].pc = "delete", NEW k \in DOMAIN mem', mem'[k] <= sync[s].max, k \in history'
        PROVE  k \in disk'
    <3>1. k \notin HistKeys(seq)
      BY <2>1, <2>2, <2>3 DEF Stored
    <3>2. k \in DOMAIN mem /\ mem[k] <= sync[s].max /\ k \in history /\ disk' = disk
      BY <2>3, <3>1 DEF Stored
    <3> QED BY <2>3, <3>2 DEF RowsInv, CopyOK
  <2>4. sync'[s].pc \in {"copy", "delete"} => sync'[s].max < nextId'
    BY <2>1, <2>2
  <2> QED BY <2>3, <2>4 DEF CopyOK
<1> QED BY <1>2, <1>3 DEF RowsInv

\* Rows that are dropped are no longer of the history.
LEMMA RowsDropped ==
    ASSUME RowsInv, NEW D, Dropped(D), UNCHANGED <<nextId, disk, sync>>
    PROVE  RowsInv'
<1>1. HistoryKept'
  BY DEF Dropped, Removed, RowsInv, HistoryKept
<1>2. ASSUME NEW s \in Syncer PROVE CopyOK(s)'
  BY DEF Dropped, Removed, RowsInv, CopyOK
<1> QED BY <1>1, <1>2 DEF RowsInv

\* A sync that starts, ends or returns copies and deletes nothing.
LEMMA RowsSame ==
    ASSUME RowsInv, UNCHANGED rows,
           \A s \in Syncer : sync'[s] = sync[s] \/ sync'[s].pc \in {"idle", "lock", "reset"}
    PROVE  RowsInv'
<1>1. HistoryKept'
  BY DEF RowsInv, HistoryKept, rows
<1>2. ASSUME NEW s \in Syncer PROVE CopyOK(s)'
  <2>1. CASE sync'[s] = sync[s]
    BY <2>1 DEF RowsInv, CopyOK, rows
  <2>2. CASE sync'[s].pc \in {"idle", "lock", "reset"}
    BY <2>2 DEF CopyOK
  <2> QED BY <2>1, <2>2
<1> QED BY <1>1, <1>2 DEF RowsInv

LEMMA RowsSync ==
    ASSUME TypeInv, RowsInv, NEW s \in Syncer, SyncStep(s) PROVE RowsInv'
<1>0. MemOK /\ sync \in [Syncer -> SyncAt] /\ HistoryKept /\ \A t \in Syncer : CopyOK(t)
  BY DEF TypeInv, SyncOK, RowsInv
<1>1. CASE SyncMax(s)
  <2>1. /\ sync' = [sync EXCEPT ![s] = [pc |-> IF MaxId = 0 THEN "reset" ELSE "copy", max |-> MaxId]]
        /\ UNCHANGED rows
    BY <1>1 DEF SyncMax, table
  <2>2. HistoryKept'
    BY <1>0, <2>1 DEF HistoryKept, rows
  <2>3. ASSUME NEW t \in Syncer PROVE CopyOK(t)'
    <3>1. CASE t = s
      <4>1. sync'[t].pc # "delete" /\ sync'[t].max = MaxId /\ nextId' = nextId
        BY <1>0, <2>1, <3>1 DEF rows
      <4> QED BY <4>1, MaxIdIsLargest DEF CopyOK
    <3>2. CASE t # s
      <4>1. sync'[t] = sync[t]
        BY <1>0, <2>1, <3>2
      <4> QED BY <1>0, <2>1, <4>1 DEF CopyOK, rows
    <3> QED BY <3>1, <3>2
  <2> QED BY <2>2, <2>3 DEF RowsInv
<1>2. CASE SyncCopy(s)
  <2>1. /\ disk' = disk \cup UpTo(sync[s].max) /\ sync' = [sync EXCEPT ![s].pc = "delete"]
        /\ UNCHANGED <<mem, nextId, history>> /\ sync[s].pc = "copy"
    BY <1>2 DEF SyncCopy
  <2>2. HistoryKept'
    BY <1>0, <2>1 DEF HistoryKept
  <2>3. ASSUME NEW t \in Syncer PROVE CopyOK(t)'
    <3>1. CASE t = s
      <4>1. sync'[t].max = sync[s].max
        BY <1>0, <2>1, <3>1 DEF SyncAt
      <4>2. sync[s].max < nextId
        BY <1>0, <2>1 DEF CopyOK
      <4>3. \A k \in DOMAIN mem : mem[k] <= sync[s].max => k \in disk'
        BY <2>1 DEF UpTo
      <4> QED BY <2>1, <4>1, <4>2, <4>3 DEF CopyOK
    <3>2. CASE t # s
      <4>1. sync'[t] = sync[t]
        BY <1>0, <2>1, <3>2
      <4> QED BY <1>0, <2>1, <4>1 DEF CopyOK
    <3> QED BY <3>1, <3>2
  <2> QED BY <2>2, <2>3 DEF RowsInv
<1>3. CASE SyncDelete(s)
  <2>1. /\ mem' = [k \in DOMAIN mem \ UpTo(sync[s].max) |-> mem[k]]
        /\ sync' = [sync EXCEPT ![s].pc = "reset"]
        /\ UNCHANGED <<disk, nextId, history>> /\ sync[s].pc = "delete"
    BY <1>3 DEF SyncDelete, Removed, Copied
  <2>2. HistoryKept'
    <3>1. \A k \in UpTo(sync[s].max) : k \in history => k \in disk
      BY <1>0, <2>1 DEF CopyOK, UpTo
    <3> QED BY <1>0, <2>1, <3>1 DEF HistoryKept
  <2>3. ASSUME NEW t \in Syncer PROVE CopyOK(t)'
    <3>1. CASE t = s
      <4>1. sync'[t].pc = "reset"
        BY <1>0, <2>1, <3>1 DEF SyncAt
      <4> QED BY <4>1 DEF CopyOK
    <3>2. CASE t # s
      <4>1. sync'[t] = sync[t] /\ \A k \in DOMAIN mem' : k \in DOMAIN mem /\ mem'[k] = mem[k]
        BY <1>0, <2>1, <3>2
      <4> QED BY <1>0, <2>1, <4>1 DEF CopyOK
    <3> QED BY <3>1, <3>2
  <2> QED BY <2>2, <2>3 DEF RowsInv
<1>4. CASE SyncReset(s) \/ SyncFails(s)
  <2>1. sync' = [sync EXCEPT ![s] = Unsynced] /\ UNCHANGED rows
    BY <1>4 DEF SyncReset, SyncFails, SyncEnds
  <2>2. \A t \in Syncer : sync'[t] = sync[t] \/ sync'[t].pc = "idle"
    BY <1>0, <2>1 DEF Unsynced
  <2> QED BY <2>1, <2>2, RowsSame
<1> QED BY <1>1, <1>2, <1>3, <1>4 DEF SyncStep

LEMMA RowsStep == ASSUME TypeInv, RowsInv, [Next]_vars PROVE RowsInv'
<1>0. sync \in [Syncer -> SyncAt] /\ HistoryKept /\ \A t \in Syncer : CopyOK(t)
  BY DEF TypeInv, SyncOK, RowsInv
<1>1. CASE WriteBatch
  BY <1>1, RowsStored DEF WriteBatch, syncVars
<1>2. ASSUME NEW w \in Writer, InsertOne(w) PROVE RowsInv'
  BY <1>2, RowsStored DEF InsertOne, syncVars
<1>3. ASSUME NEW w \in Writer, Limit(w) PROVE RowsInv'
  BY <1>3, RowsDropped DEF Limit, syncVars
<1>4. CASE CleanMemory
  BY <1>4, RowsDropped DEF CleanMemory, syncVars
<1>5. CASE CleanDisk
  <2>1. PICK old : /\ disk' = disk \ old /\ history' = history \ old
                   /\ UNCHANGED <<mem, nextId, sync>>
    BY <1>5 DEF CleanDisk, syncVars
  <2>2. HistoryKept'
    BY <1>0, <2>1 DEF HistoryKept
  <2>3. ASSUME NEW s \in Syncer PROVE CopyOK(s)'
    BY <1>0, <2>1 DEF CopyOK
  <2> QED BY <2>2, <2>3 DEF RowsInv
<1>6. CASE UNCHANGED <<rows, sync>>
  BY <1>6, RowsSame
<1>7. ASSUME NEW w \in Writer, TriggerSync(w) PROVE RowsInv'
  <2>1. UNCHANGED rows /\ (sync' = sync \/ sync' = [sync EXCEPT !["async"].pc = "lock"])
    BY <1>7 DEF TriggerSync, table
  <2>2. \A s \in Syncer : sync'[s] = sync[s] \/ sync'[s].pc = "lock"
    BY <1>0, <2>1 DEF SyncAt
  <2> QED BY <2>1, <2>2, RowsSame
<1>8. ASSUME NEW l \in Loop, LoopTick(l) \/ StopLoop(l) PROVE RowsInv'
  <2>1. /\ UNCHANGED rows
        /\ \/ sync' = sync \/ sync' = [sync EXCEPT !["ticker"].pc = "lock"]
           \/ sync' = [sync EXCEPT !["final"].pc = "lock"]
    BY <1>8 DEF LoopTick, StopLoop, table
  <2>2. \A s \in Syncer : sync'[s] = sync[s] \/ sync'[s].pc = "lock"
    BY <1>0, <2>1 DEF SyncAt
  <2> QED BY <2>1, <2>2, RowsSame
<1>9. ASSUME Next, \A s \in Syncer : ~SyncStep(s), ~WriteBatch,
             \A w \in Writer : ~InsertOne(w) /\ ~Limit(w) /\ ~TriggerSync(w), ~CleanMemory, ~CleanDisk,
             \A l \in Loop : ~LoopTick(l) /\ ~StopLoop(l)
      PROVE  UNCHANGED <<rows, sync>>
  <2>1. \A s \in Syncer : ~SyncCopy(s) /\ ~SyncDelete(s)
    BY <1>9 DEF SyncStep
  <2> QED BY <1>9, <2>1, RowsFrame, SyncFrame DEF syncVars
<1>10. UNCHANGED vars => UNCHANGED <<rows, sync>>
  BY DEF vars, table, syncVars
<1> QED BY <1>1, <1>2, <1>3, <1>4, <1>5, <1>6, <1>7, <1>8, <1>9, <1>10, RowsSync

\* Theorem: whatever fails, whenever a source delivers, and however inserts,
\* syncs, the size limit, the clean-up and the shutdown overlap, every reading
\* is queued, being inserted, inserted or reported as failed, and every row
\* written and not dropped is in memory or on disk.
THEOREM NothingIsLost == ASSUME IsFiniteSet(Source) PROVE Spec => []NothingLost
<1> DEFINE Inv == TypeInv /\ NoReadingLost /\ RowsInv
<1>1. Init => Inv
  BY TypeInit, LossInit, RowsInit
<1>2. Inv /\ [Next]_vars => Inv'
  BY TypeStep, LossStep, RowsStep
<1>3. Inv => NothingLost
  BY TypeInvOK DEF RowsInv, NothingLost
<1> QED BY <1>1, <1>2, <1>3, PTL DEF Spec

-----------------------------------------------------------------------------
(* The shutdown.                                                            *)

After == {"sync", "retention", "final", "done", "unsaved"}
SourcesIdle == \A s \in Source \ {"queue"} : insert[s].pc = "idle"

\* While the writer is waited for no source inserts; once it has ended there is
\* nothing to insert at all, so that the last sync, which runs after that, finds
\* every row there is and no row comes behind its back.
SaveInv ==
    /\ down \in {"writer"} \cup After => SourcesIdle
    /\ down \in After => WriterDone
    /\ sync["final"].pc # "idle" => down = "final"
    /\ sync["final"].pc \in {"copy", "delete"} => \A k \in DOMAIN mem : mem[k] <= sync["final"].max
    /\ sync["final"].pc = "reset" \/ down = "done" => DOMAIN mem = {}

LEMMA SaveInit == Init => SaveInv
BY DEF Init, SaveInv, SourcesIdle, Unsynced, Writer, Syncer, After

\* How the shutdown goes on.
LEMMA DownMoves ==
    ASSUME Next
    PROVE  \/ down' = down \/ down' = "collectors" \/ StopWriter \/ WriterStopped
           \/ \E l \in Loop : StopLoop(l)
           \/ SyncReset("final") \/ SyncFails("final")
<1>1. CASE Shutdown \/ ShutdownStep
  BY <1>1 DEF Shutdown, ShutdownStep
<1>2. ASSUME NEW s \in Syncer, s # "final", SyncReset(s) \/ SyncFails(s) PROVE down' = down
  BY <1>2 DEF SyncReset, SyncFails, SyncEnds
<1> QED BY <1>1, <1>2, DownFrame

\* Who moves the last sync.
LEMMA FinalMoves ==
    ASSUME TypeInv, Next
    PROVE  \/ sync'["final"] = sync["final"] \/ SyncStep("final")
           \/ \E l \in Loop : StopLoop(l)
<1>0. sync \in [Syncer -> SyncAt] /\ "final" \in Syncer
  BY DEF TypeInv, SyncOK, Syncer
<1>1. ASSUME NEW w \in Writer, TriggerSync(w) PROVE sync'["final"] = sync["final"]
  <2>1. sync' = sync \/ sync' = [sync EXCEPT !["async"].pc = "lock"]
    BY <1>1 DEF TriggerSync
  <2> QED BY <1>0, <2>1
<1>2. ASSUME NEW l \in Loop, LoopTick(l) PROVE sync'["final"] = sync["final"]
  <2>1. sync' = sync \/ sync' = [sync EXCEPT !["ticker"].pc = "lock"]
    BY <1>2 DEF LoopTick
  <2> QED BY <1>0, <2>1
<1>3. ASSUME NEW s \in Syncer, s # "final", SyncStep(s) PROVE sync'["final"] = sync["final"]
  <2>1. \E x : sync' = [sync EXCEPT ![s] = x]
    BY <1>3 DEF SyncStep, SyncMax, SyncCopy, SyncDelete, SyncReset, SyncFails, SyncEnds
  <2> QED BY <1>0, <1>3, <2>1
<1> QED BY <1>1, <1>2, <1>3, SyncFrame DEF syncVars

\* Once the writer has ended nothing is inserted.
LEMMA QuietStep ==
    ASSUME SaveInv, down \in After, Next
    PROVE  /\ UNCHANGED <<insert, collectWriteCh>>
           /\ ~WriteBatch /\ \A w \in Writer : ~InsertOne(w)
<1>1. collectWriteCh = <<>> /\ \A w \in Writer : insert[w].pc = "idle"
  BY DEF SaveInv, SourcesIdle, WriterDone, Writer
<1>2. ~QueueStep
  BY <1>1 DEF QueueStep, Receive, Flush, WriteBatch, BatchFails, Writer
<1>3. \A w \in Writer : ~WriterStep(w)
  BY <1>1 DEF WriterStep, InsertOne, InsertFails, Note, Limit, TriggerSkips, TriggerSync
<1>4. \A s \in Source, hist \in BOOLEAN : ~Deliver(s, hist)
  BY DEF Deliver, After
<1>5. insert' = insert
  BY <1>2, <1>3, <1>4, InsertFrame
<1>6. collectWriteCh' = collectWriteCh
  <2>1. StopWriter \/ Second => collectWriteCh' = collectWriteCh
    BY DEF StopWriter, Second, queueVars
  <2>2. ~Receive
    BY <1>2 DEF QueueStep
  <2> QED BY <1>4, <2>1, <2>2, QueueFrame DEF queueVars
<1> QED BY <1>2, <1>3, <1>5, <1>6 DEF QueueStep, WriterStep

\* Then rows only leave the memory.
LEMMA MemShrinks ==
    ASSUME TypeInv, SaveInv, down \in After, Next
    PROVE  \A k \in DOMAIN mem' : k \in DOMAIN mem /\ mem'[k] = mem[k]
<1>1. MemOK /\ ~WriteBatch /\ \A w \in Writer : ~InsertOne(w)
  BY QuietStep DEF TypeInv
<1>2. ASSUME NEW w \in Writer, Limit(w) PROVE \E D : Removed(D)
  BY <1>2 DEF Limit, Dropped
<1>3. ASSUME NEW s \in Syncer, SyncDelete(s) PROVE \E D : Removed(D)
  BY <1>3 DEF SyncDelete
<1>4. CleanMemory => \E D : Removed(D)
  BY DEF CleanMemory, Dropped
<1>5. ASSUME NEW s \in Syncer, SyncCopy(s) PROVE mem' = mem
  BY <1>5 DEF SyncCopy
<1>6. CleanDisk => mem' = mem
  BY DEF CleanDisk
<1>7. (\E D : Removed(D)) => \A k \in DOMAIN mem' : k \in DOMAIN mem /\ mem'[k] = mem[k]
  BY DEF Removed
<1> QED BY <1>1, <1>2, <1>3, <1>4, <1>5, <1>6, <1>7, RowsFrame DEF rows

LEMMA SourcesStayIdle ==
    ASSUME TypeInv, SaveInv, Next, down' \in {"writer"} \cup After PROVE SourcesIdle'
<1>0. InsertOK
  BY DEF TypeInv
<1>1. CASE down \in After
  BY <1>1, QuietStep DEF SaveInv, SourcesIdle
<1>2. CASE down = "writer"
  <2>0. SourcesIdle
    BY <1>2 DEF SaveInv
  <2>1. ASSUME NEW w \in Writer, WriterStep(w) PROVE SourcesIdle'
    <3>1. w = "queue"
      BY <2>0, <2>1 DEF SourcesIdle, Writer, WriterStep, InsertOne, InsertFails, Note, Limit, TriggerSkips,
            TriggerSync
    <3>2. \E x : insert' = [insert EXCEPT ![w] = x]
      BY <2>1 DEF WriterStep, InsertOne, InsertFails, Inserted, Note, Limit, TriggerSkips, TriggerSync
    <3> QED BY <1>0, <2>0, <3>1, <3>2 DEF SourcesIdle, InsertOK, Writer
  <2>2. CASE QueueStep
    <3>1. \E x : insert' = [insert EXCEPT !["queue"] = x]
      BY <2>2 DEF QueueStep, Receive, Flush, WriteBatch, BatchFails, Inserted
    <3> QED BY <1>0, <2>0, <3>1 DEF SourcesIdle, InsertOK, Writer
  <2>3. \A s \in Source, hist \in BOOLEAN : ~Deliver(s, hist)
    BY <1>2 DEF Deliver
  <2>4. CASE UNCHANGED insert
    BY <2>0, <2>4 DEF SourcesIdle
  <2> QED BY <2>1, <2>2, <2>3, <2>4, InsertFrame
<1>3. CASE down \notin {"writer"} \cup After
  <2>1. StopWriter
    <3>1. down' # down /\ down' # "collectors"
      BY <1>3 DEF After
    <3>2. ~WriterStopped /\ \A l \in Loop : ~StopLoop(l)
      BY <1>3 DEF WriterStopped, StopLoop, After
    <3>3. sync["final"].pc = "idle"
      BY <1>3 DEF SaveInv, After
    <3>4. ~SyncReset("final") /\ ~SyncFails("final")
      BY <3>3 DEF SyncReset, SyncFails
    <3> QED BY <3>1, <3>2, <3>4, DownMoves
  <2> QED BY <2>1 DEF StopWriter, SourcesIdle
<1> QED BY <1>1, <1>2, <1>3

LEMMA WriterStaysDone == ASSUME TypeInv, SaveInv, Next, down' \in After PROVE WriterDone'
<1>1. CASE down \in After
  BY <1>1, QuietStep DEF SaveInv, WriterDone
<1>2. CASE down \notin After
  <2>1. down' # down /\ down' # "collectors" /\ ~StopWriter
    BY <1>2 DEF StopWriter, After
  <2>2. \A l \in Loop : ~StopLoop(l)
    BY <1>2 DEF StopLoop, After
  <2>3. sync["final"].pc = "idle"
    BY <1>2 DEF SaveInv, After
  <2>4. ~SyncReset("final") /\ ~SyncFails("final")
    BY <2>3 DEF SyncReset, SyncFails
  <2>5. WriterStopped
    BY <2>1, <2>2, <2>4, DownMoves
  <2> QED BY <2>5 DEF WriterStopped, WriterDone, queueVars
<1> QED BY <1>1, <1>2

LEMMA FinalIsLast == ASSUME TypeInv, SaveInv, Next, sync'["final"].pc # "idle" PROVE down' = "final"
<1>0. sync \in [Syncer -> SyncAt] /\ "final" \in Syncer
  BY DEF TypeInv, SyncOK, Syncer
<1>1. ASSUME NEW l \in Loop, StopLoop(l) PROVE down' = "final"
  <2>1. CASE l = "ticker"
    <3>1. sync' = sync /\ down = "sync"
      BY <1>1, <2>1 DEF StopLoop
    <3> QED BY <3>1 DEF SaveInv
  <2>2. CASE l # "ticker"
    BY <1>1, <2>2 DEF StopLoop
  <2> QED BY <2>1, <2>2
<1>2. ~SyncReset("final") /\ ~SyncFails("final")
  BY <1>0 DEF SyncReset, SyncFails, SyncEnds, Unsynced
<1>3. ASSUME \A l \in Loop : ~StopLoop(l) PROVE down' = "final"
  <2>1. sync["final"].pc # "idle"
    <3>1. CASE SyncStep("final")
      BY <3>1, <1>2 DEF SyncStep, SyncMax, SyncCopy, SyncDelete
    <3> QED BY <1>3, <3>1, FinalMoves
  <2>2. down = "final"
    BY <2>1 DEF SaveInv
  <2>3. ~StopWriter /\ ~WriterStopped /\ ~Shutdown
    BY <2>2 DEF StopWriter, WriterStopped, Shutdown
  <2>4. ~ShutdownStep
    BY <1>3, <2>3 DEF ShutdownStep
  <2>5. \A s \in Syncer : SyncReset(s) \/ SyncFails(s) => down' = down
    BY <1>2 DEF SyncReset, SyncFails, SyncEnds
  <2> QED BY <2>2, <2>3, <2>4, <2>5, DownFrame
<1> QED BY <1>1, <1>3

\* The last sync's largest id is that of every row that is there.
LEMMA FinalTakesAll ==
    ASSUME TypeInv, SaveInv, Next, sync'["final"].pc \in {"copy", "delete"}
    PROVE  \A k \in DOMAIN mem' : mem'[k] <= sync'["final"].max
<1>0. sync \in [Syncer -> SyncAt] /\ "final" \in Syncer
  BY DEF TypeInv, SyncOK, Syncer
<1>1. ASSUME NEW l \in Loop, StopLoop(l) PROVE FALSE
  <2>1. CASE l = "ticker"
    <3>1. sync' = sync /\ down = "sync"
      BY <1>1, <2>1 DEF StopLoop
    <3> QED BY <3>1 DEF SaveInv
  <2>2. CASE l # "ticker"
    <3>1. sync' = [sync EXCEPT !["final"].pc = "lock"]
      BY <1>1, <2>2 DEF StopLoop
    <3>2. sync'["final"].pc = "lock"
      BY <1>0, <3>1 DEF SyncAt
    <3> QED BY <3>2
  <2> QED BY <2>1, <2>2
<1>2. sync["final"].pc # "idle"
  <2>1. CASE SyncStep("final")
    <3>1. ~SyncReset("final") /\ ~SyncFails("final")
      BY <1>0 DEF SyncReset, SyncFails, SyncEnds, Unsynced
    <3> QED BY <2>1, <3>1 DEF SyncStep, SyncMax, SyncCopy, SyncDelete
  <2> QED BY <1>1, <2>1, FinalMoves
<1>3. down \in After
  BY <1>2 DEF SaveInv, After
<1>4. \A k \in DOMAIN mem' : k \in DOMAIN mem /\ mem'[k] = mem[k]
  BY <1>3, MemShrinks
<1>5. CASE sync'["final"] = sync["final"]
  BY <1>4, <1>5 DEF SaveInv
<1>6. CASE SyncStep("final")
  <2>1. CASE SyncMax("final")
    <3>1. sync'["final"].max = MaxId
      BY <1>0, <2>1 DEF SyncMax
    <3> QED BY <1>4, <3>1, MaxIdIsLargest
  <2>2. CASE SyncCopy("final")
    <3>1. sync'["final"].max = sync["final"].max /\ sync["final"].pc = "copy"
      BY <1>0, <2>2 DEF SyncCopy, SyncAt
    <3> QED BY <1>4, <3>1 DEF SaveInv
  <2>3. CASE SyncDelete("final")
    <3>1. sync'["final"].pc = "reset"
      BY <1>0, <2>3 DEF SyncDelete, SyncAt
    <3> QED BY <3>1
  <2>4. ~SyncReset("final") /\ ~SyncFails("final")
    BY <1>0 DEF SyncReset, SyncFails, SyncEnds, Unsynced
  <2> QED BY <1>6, <2>1, <2>2, <2>3, <2>4 DEF SyncStep
<1> QED BY <1>1, <1>5, <1>6, FinalMoves

\* After it the memory is empty, and stays so.
LEMMA MemoryEmptied ==
    ASSUME TypeInv, SaveInv, Next, sync'["final"].pc = "reset" \/ down' = "done"
    PROVE  DOMAIN mem' = {}
<1>0. sync \in [Syncer -> SyncAt] /\ "final" \in Syncer
  BY DEF TypeInv, SyncOK, Syncer
<1>1. CASE down \in After
  <2>0. \A k \in DOMAIN mem' : k \in DOMAIN mem /\ mem'[k] = mem[k]
    BY <1>1, MemShrinks
  <2>1. CASE sync["final"].pc = "reset" \/ down = "done"
    BY <2>0, <2>1 DEF SaveInv
  <2>2. CASE sync["final"].pc # "reset" /\ down # "done"
    <3>1. CASE SyncMax("final")
      <4>1. sync'["final"].pc # "reset" \/ MaxId = 0
        BY <1>0, <3>1 DEF SyncMax
      <4>2. down' = down
        BY <3>1 DEF SyncMax
      <4>3. MaxId = 0
        BY <2>2, <4>1, <4>2
      <4> QED BY <2>0, <4>3, MaxIdIsLargest
    <3>2. CASE SyncDelete("final")
      <4>1. mem' = [k \in DOMAIN mem \ UpTo(sync["final"].max) |-> mem[k]] /\ sync["final"].pc = "delete"
        BY <3>2 DEF SyncDelete, Removed, Copied
      <4>2. \A k \in DOMAIN mem : k \in UpTo(sync["final"].max)
        BY <4>1 DEF SaveInv, UpTo
      <4> QED BY <4>1, <4>2
    <3>3. SyncCopy("final") => down' = down /\ sync'["final"].pc # "reset"
      BY <1>0 DEF SyncCopy, SyncAt
    <3>4. SyncReset("final") \/ SyncFails("final") => down' # "done" /\ sync'["final"].pc # "reset"
      BY <1>0, <2>2 DEF SyncReset, SyncFails, SyncEnds, Unsynced
    <3>5. ASSUME NEW l \in Loop, StopLoop(l) PROVE down' # "done" /\ sync'["final"].pc # "reset"
      <4>1. sync' = sync \/ sync' = [sync EXCEPT !["final"].pc = "lock"]
        BY <3>5 DEF StopLoop
      <4>2. sync'["final"].pc # "reset"
        BY <1>0, <2>2, <4>1 DEF SyncAt
      <4> QED BY <3>5, <4>2 DEF StopLoop
    <3>6. ASSUME ~SyncStep("final"), \A l \in Loop : ~StopLoop(l) PROVE FALSE
      <4>1. sync'["final"].pc # "reset"
        BY <2>2, <3>6, FinalMoves
      <4>2. ~SyncReset("final") /\ ~SyncFails("final")
        BY <3>6 DEF SyncStep
      <4>3. ~StopWriter /\ ~WriterStopped
        BY <1>1 DEF StopWriter, WriterStopped, After
      <4>4. down' # "done"
        BY <2>2, <3>6, <4>2, <4>3, DownMoves
      <4> QED BY <4>1, <4>4
    <3> QED BY <2>2, <3>1, <3>2, <3>3, <3>4, <3>5, <3>6 DEF SyncStep
  <2> QED BY <2>1, <2>2
<1>2. CASE down \notin After
  <2>1. sync["final"].pc = "idle"
    BY <1>2 DEF SaveInv, After
  <2>2. ~SyncStep("final")
    BY <2>1 DEF SyncStep, SyncMax, SyncCopy, SyncDelete, SyncReset, SyncFails
  <2>3. \A l \in Loop : ~StopLoop(l)
    BY <1>2 DEF StopLoop, After
  <2>4. sync'["final"].pc # "reset"
    BY <2>1, <2>2, <2>3, FinalMoves
  <2>5. ~SyncReset("final") /\ ~SyncFails("final")
    BY <2>2 DEF SyncStep
  <2>6. StopWriter \/ WriterStopped => down' # "done"
    BY DEF StopWriter, WriterStopped
  <2>7. down # "done"
    BY <1>2 DEF After
  <2> QED BY <2>3, <2>4, <2>5, <2>6, <2>7, DownMoves
<1> QED BY <1>1, <1>2

LEMMA SaveStep == ASSUME TypeInv, SaveInv, [Next]_vars PROVE SaveInv'
<1>1. CASE Next
  BY <1>1, SourcesStayIdle, WriterStaysDone, FinalIsLast, FinalTakesAll, MemoryEmptied DEF SaveInv
<1>2. CASE UNCHANGED vars
  BY <1>2 DEF vars, queueVars, table, rows, syncVars, SaveInv, SourcesIdle, WriterDone
<1> QED BY <1>1, <1>2

\* With nothing queued or being inserted, what was delivered has ended.
LEMMA AllEnded ==
    ASSUME TypeInv, NoReadingLost, SaveInv, down \in After PROVE 1 .. taken = Ended
<1>1. collectWriteCh = <<>> /\ \A w \in Writer : insert[w].pc = "idle"
  BY DEF SaveInv, SourcesIdle, WriterDone, Writer
<1>2. \A w \in Writer : insert[w].items = <<>>
  BY <1>1 DEF TypeInv, InsertOK
<1>3. Waiting(collectWriteCh) = {} /\ \A w \in Writer : Waiting(insert[w].items) = {}
  BY <1>1, <1>2, WaitingNone
<1>4. UNION {Waiting(insert[w].items) : w \in Writer} = {}
  BY <1>3
<1> QED BY <1>3, <1>4 DEF NoReadingLost

\* Theorem: when the shutdown's last sync has succeeded, every reading a source
\* delivered has been inserted or reported as failed, and every row of the
\* history is on disk - whatever else was going on when the shutdown began
\* (the order of registerShutdown).
THEOREM ShutdownSaves == ASSUME IsFiniteSet(Source) PROVE Spec => []ShutdownPersists
<1> DEFINE Inv == TypeInv /\ NoReadingLost /\ RowsInv /\ SaveInv
<1>1. Init => Inv
  BY TypeInit, LossInit, RowsInit, SaveInit
<1>2. Inv /\ [Next]_vars => Inv'
  BY TypeStep, LossStep, RowsStep, SaveStep
<1>3. Inv => ShutdownPersists
  <2>1. ASSUME Inv, down = "done" PROVE 1 .. taken = Ended /\ history \subseteq disk
    <3>1. 1 .. taken = Ended
      BY <2>1, AllEnded DEF After
    <3>2. DOMAIN mem = {} /\ history \subseteq DOMAIN mem \cup disk
      BY <2>1 DEF SaveInv, RowsInv, HistoryKept
    <3> QED BY <3>1, <3>2
  <2> QED BY <2>1 DEF ShutdownPersists
<1> QED BY <1>1, <1>2, <1>3, PTL DEF Spec
-----------------------------------------------------------------------------
(* History: rows in the order of a query.                                   *)

\* Rows of a table: of each field and second at most one.
Table(S) == S \subseteq Row /\ IsFiniteSet(S) /\ \A r, s \in S : RowKey(r) = RowKey(s) => r = s

LEMMA HistoryBounds ==
    /\ MaxSecond \in Nat /\ MaxSecond >= 1 /\ MaxWrites \in Nat /\ MaxQueries \in Nat /\ MaxDeletes \in Nat
    /\ CacheLimit \in Nat /\ (\A A \in Asked : A \subseteq Field) /\ (\A n \in RowLimit : n \in Nat \ {0})
    /\ IsFiniteSet(Field)
    /\ \A r \in Row : r.f \in Field /\ r.f \in Nat /\ r.t \in Nat /\ r.t <= MaxSecond
<1>1. /\ {CacheLimit, MaxWrites, MaxQueries, MaxDeletes} \subseteq Nat
      /\ MaxSecond \in Nat \ {0} /\ IsFiniteSet(Field) /\ Field \subseteq Nat
  BY HistoryAssumption
<1>2. Asked \subseteq SUBSET Field /\ RowLimit \subseteq Nat \ {0}
  BY HistoryAssumption
<1>3. \A A \in Asked : A \subseteq Field
  BY <1>2
<1>4. \A n \in RowLimit : n \in Nat \ {0}
  BY <1>2
<1>5. \A r \in Row : r.f \in Field /\ r.f \in Nat /\ r.t \in Nat /\ r.t <= MaxSecond
  <2> SUFFICES ASSUME NEW r \in Row PROVE r.f \in Field /\ r.f \in Nat /\ r.t \in Nat /\ r.t <= MaxSecond
    OBVIOUS
  <2>1. r.f \in Field /\ r.t \in 0 .. MaxSecond
    BY DEF Row
  <2>2. MaxSecond \in Nat /\ Field \subseteq Nat
    BY <1>1
  <2>3. r.f \in Nat
    BY <2>1, <2>2
  <2> DEFINE t == r.t
  <2>4. t \in 0 .. MaxSecond
    BY <2>1
  <2> HIDE DEF t
  <2>5. t \in Nat /\ t <= MaxSecond
    BY <2>2, <2>4
  <2> QED BY <2>1, <2>3, <2>5 DEF t
<1>6. MaxSecond \in Nat /\ MaxSecond >= 1 /\ MaxWrites \in Nat /\ MaxQueries \in Nat /\ MaxDeletes \in Nat /\ CacheLimit \in Nat
  BY <1>1
<1> QED BY <1>1, <1>3, <1>4, <1>5, <1>6

LEMMA NewerOrders ==
    /\ \A r \in Row : ~Newer(r, r)
    /\ \A r, s, u \in Row : Newer(r, s) /\ Newer(s, u) => Newer(r, u)
    /\ \A r, s \in Row : Newer(r, s) \/ Newer(s, r) \/ RowKey(r) = RowKey(s)
    /\ \A r, s \in Row : Newer(r, s) => r.t >= s.t /\ RowKey(r) # RowKey(s)
<1>1. \A r \in Row : r.f \in Nat /\ r.t \in Nat
  BY HistoryBounds
<1> QED BY <1>1 DEF Newer, RowKey

Before(S, r) == {x \in S : Newer(x, r)}
Rank(S, r) == Cardinality(Before(S, r))

LEMMA RankRange ==
    ASSUME NEW S, Table(S), NEW r \in S
    PROVE  /\ Cardinality(S) \in Nat /\ Rank(S, r) \in Nat /\ Rank(S, r) < Cardinality(S)
           /\ IsFiniteSet(Before(S, r))
<1>1. IsFiniteSet(S) /\ r \in Row
  BY DEF Table
<1>2. Before(S, r) \in SUBSET S /\ Before(S, r) # S
  BY <1>1, NewerOrders DEF Before
<1>3. /\ IsFiniteSet(Before(S, r)) /\ Rank(S, r) <= Cardinality(S)
      /\ Cardinality(S) = Rank(S, r) => S = Before(S, r)
  BY <1>1, <1>2, FS_Subset DEF Rank
<1>4. Rank(S, r) \in Nat /\ Cardinality(S) \in Nat
  BY <1>1, <1>3, FS_CardinalityType DEF Rank
<1> QED BY <1>2, <1>3, <1>4

LEMMA RankLess ==
    ASSUME NEW S, Table(S), NEW r \in S, NEW s \in S, Newer(r, s)
    PROVE  Rank(S, r) < Rank(S, s)
<1>1. r \in Row /\ s \in Row /\ S \subseteq Row
  BY DEF Table
<1>2. Before(S, r) \in SUBSET Before(S, s)
  BY <1>1, NewerOrders DEF Before
<1>3. r \in Before(S, s) /\ r \notin Before(S, r)
  BY <1>1, NewerOrders DEF Before
<1>4. IsFiniteSet(Before(S, s)) /\ Rank(S, r) \in Nat /\ Rank(S, s) \in Nat
  BY RankRange
<1>5. Rank(S, r) <= Rank(S, s) /\ (Rank(S, s) = Rank(S, r) => Before(S, s) = Before(S, r))
  BY <1>2, <1>4, FS_Subset DEF Rank
<1> QED BY <1>3, <1>4, <1>5

LEMMA RankOnce ==
    ASSUME NEW S, Table(S), NEW r \in S, NEW s \in S, Rank(S, r) = Rank(S, s)
    PROVE  r = s
<1>1. r \in Row /\ s \in Row /\ (RowKey(r) = RowKey(s) => r = s)
  BY DEF Table
<1>2. Rank(S, r) \in Nat /\ Rank(S, s) \in Nat
  BY RankRange
<1>3. ~Newer(r, s) /\ ~Newer(s, r)
  <2>1. Newer(r, s) => Rank(S, r) < Rank(S, s)
    BY RankLess
  <2>2. Newer(s, r) => Rank(S, s) < Rank(S, r)
    BY RankLess
  <2> QED BY <1>2, <2>1, <2>2
<1> QED BY <1>1, <1>3, NewerOrders

\* Every place is some row's.
LEMMA RankOnto ==
    ASSUME NEW S, Table(S), NEW n \in 1 .. Cardinality(S)
    PROVE  \E r \in S : Rank(S, r) = n - 1
<1> DEFINE N == Cardinality(S)
           f == [r \in S |-> Rank(S, r) + 1]
<1>1. N \in Nat /\ IsFiniteSet(S)
  BY FS_CardinalityType DEF Table
<1>2. \A r \in S : Rank(S, r) \in Nat /\ Rank(S, r) < N
  BY RankRange
<1>3. f \in [S -> 1 .. N]
  BY <1>1, <1>2
<1>4. \A r, s \in S : f[r] = f[s] => r = s
  BY <1>2, RankOnce
<1>5. f \in Injection(S, 1 .. N)
  BY <1>3, <1>4 DEF Injection, IsInjective
<1>6. IsFiniteSet(1 .. N) /\ Cardinality(1 .. N) = N
  BY <1>1, FS_Interval
<1>7. f \in Surjection(S, 1 .. N)
  <2> HIDE DEF f
  <2> QED BY <1>5, <1>6, FS_Injection
<1>8. PICK r \in S : f[r] = n
  BY <1>7 DEF Surjection
<1> QED BY <1>2, <1>8

\* s has the rows of S, the newest first.
Listed(s, S) ==
    /\ s \in Seq(Row) /\ Len(s) = Cardinality(S)
    /\ \A i \in 1 .. Len(s) : s[i] \in S
    /\ \A i, j \in 1 .. Len(s) : i < j => Newer(s[i], s[j])
    /\ \A r \in S : \E i \in 1 .. Len(s) : s[i] = r

LEMMA NewestFirstLists == ASSUME NEW S, Table(S) PROVE Listed(NewestFirst(S), S)
<1> DEFINE N == Cardinality(S)
           s == NewestFirst(S)
<1>1. N \in Nat /\ S \subseteq Row
  BY FS_CardinalityType DEF Table
<1>2. \A i \in 1 .. N : s[i] \in S /\ Rank(S, s[i]) = i - 1
  <2> SUFFICES ASSUME NEW i \in 1 .. N PROVE s[i] \in S /\ Rank(S, s[i]) = i - 1
    OBVIOUS
  <2>1. s[i] = CHOOSE r \in S : Rank(S, r) = i - 1
    BY DEF NewestFirst, Rank, Before
  <2>2. \E r \in S : Rank(S, r) = i - 1
    BY RankOnto
  <2> QED BY <2>1, <2>2, Zenon
<1>3. s \in [1 .. N -> Row] /\ DOMAIN s = 1 .. N
  <2> DEFINE e(i) == CHOOSE r \in S : Cardinality({x \in S : Newer(x, r)}) = i - 1
  <2>1. s = [i \in 1 .. N |-> e(i)]
    BY DEF NewestFirst
  <2> HIDE DEF s, e
  <2>2. \A i \in 1 .. N : e(i) = s[i]
    BY <2>1
  <2>3. \A i \in 1 .. N : e(i) \in Row
    BY <1>1, <1>2, <2>2
  <2> QED BY <2>1, <2>3
<1>4. s \in Seq(Row) /\ Len(s) = N
  <2> HIDE DEF s, N
  <2>1. s \in Seq(Row)
    BY <1>1, <1>3, SeqDef
  <2> QED BY <1>1, <1>3, <2>1
<1>5. ASSUME NEW i \in 1 .. N, NEW j \in 1 .. N, i < j PROVE Newer(s[i], s[j])
  <2>1. s[i] \in S /\ s[j] \in S /\ Rank(S, s[i]) = i - 1 /\ Rank(S, s[j]) = j - 1
    BY <1>2
  <2>2. ~(Rank(S, s[j]) < Rank(S, s[i])) /\ Rank(S, s[i]) # Rank(S, s[j])
    BY <1>1, <1>5, <2>1
  <2>3. ~Newer(s[j], s[i])
    BY <2>1, <2>2, RankLess
  <2>4. RowKey(s[i]) # RowKey(s[j])
    BY <2>1, <2>2 DEF Table
  <2> QED BY <1>1, <2>1, <2>3, <2>4, NewerOrders
<1>6. ASSUME NEW r \in S PROVE \E i \in 1 .. N : s[i] = r
  <2> DEFINE i == Rank(S, r) + 1
  <2>1. i \in 1 .. N /\ Rank(S, r) = i - 1
    BY <1>1, RankRange
  <2>2. s[i] \in S /\ Rank(S, s[i]) = Rank(S, r)
    BY <1>2, <2>1
  <2>3. s[i] = r
    BY <2>2, RankOnce
  <2> QED BY <2>1, <2>3
<1> HIDE DEF s, N
<1>7. Listed(s, S)
  BY <1>2, <1>4, <1>5, <1>6 DEF Listed, N
<1> QED BY <1>7 DEF s

\* From the newest row to the oldest, no key twice.
Descending(s) == \A i, j \in 1 .. Len(s) : i < j => s[i].t >= s[j].t
Distinct(s) == \A i, j \in 1 .. Len(s) : i < j => RowKey(s[i]) # RowKey(s[j])

\* u has up to n rows of S, and what it leaves out is not newer.
Given(u, S, n) ==
    /\ u \in Seq(Row) /\ Len(u) <= n /\ Descending(u) /\ Distinct(u)
    /\ \A i \in 1 .. Len(u) : u[i] \in S
    /\ \A r \in S : (\E i \in 1 .. Len(u) : u[i] = r) \/ (Len(u) = n /\ r.t <= u[n].t)

LEMMA FirstRowsIs ==
    ASSUME NEW s \in Seq(Row), NEW n \in Nat
    PROVE  LET u == FirstRows(s, n) IN
           /\ u \in Seq(Row) /\ Len(u) = (IF Len(s) < n THEN Len(s) ELSE n)
           /\ \A i \in 1 .. Len(u) : u[i] = s[i]
<1> DEFINE m == IF Len(s) < n THEN Len(s) ELSE n
<1>1. m \in 0 .. Len(s) /\ m \in Nat
  OBVIOUS
<1> HIDE DEF m
<1>2. \A i \in 1 .. m : s[i] \in Row
  BY <1>1
<1>3. /\ SubSeq(s, 1, m) \in Seq(Row) /\ Len(SubSeq(s, 1, m)) = IF 1 <= m THEN m - 1 + 1 ELSE 0
      /\ \A i \in 1 .. m - 1 + 1 : SubSeq(s, 1, m)[i] = s[1 + i - 1]
  BY <1>1, <1>2, SubSeqProperties
<1>4. FirstRows(s, n) = SubSeq(s, 1, m)
  BY DEF FirstRows, m
<1>5. Len(FirstRows(s, n)) = m
  BY <1>1, <1>3, <1>4
<1>6. ASSUME NEW i \in 1 .. m PROVE FirstRows(s, n)[i] = s[i]
  <2>1. i \in 1 .. m - 1 + 1 /\ 1 + i - 1 = i
    BY <1>1
  <2> QED BY <1>3, <1>4, <2>1
<1>7. FirstRows(s, n) \in Seq(Row)
  BY <1>3, <1>4
<1> QED BY <1>5, <1>6, <1>7 DEF m

LEMMA FirstRowsGive ==
    ASSUME NEW S, Table(S), NEW s, Listed(s, S), NEW n \in Nat \ {0}
    PROVE  Given(FirstRows(s, n), S, n)
<1> DEFINE u == FirstRows(s, n)
<1>1. /\ s \in Seq(Row) /\ Len(s) \in Nat /\ n \in Nat /\ n >= 1 /\ S \subseteq Row
      /\ \A i \in 1 .. Len(s) : s[i] \in S /\ s[i] \in Row
  BY DEF Listed, Table
<1>2. /\ u \in Seq(Row) /\ Len(u) = (IF Len(s) < n THEN Len(s) ELSE n)
      /\ \A i \in 1 .. Len(u) : u[i] = s[i]
  BY <1>1, FirstRowsIs
<1> HIDE DEF u
<1>3. Len(u) <= n /\ Len(u) <= Len(s) /\ Len(u) \in Nat /\ \A i \in 1 .. Len(u) : i \in 1 .. Len(s)
  BY <1>1, <1>2
<1>4. \A i, j \in 1 .. Len(s) : i < j => s[i].t >= s[j].t /\ RowKey(s[i]) # RowKey(s[j])
  BY <1>1, NewerOrders DEF Listed
<1>5. Descending(u) /\ Distinct(u) /\ \A i \in 1 .. Len(u) : u[i] \in S
  BY <1>1, <1>2, <1>3, <1>4 DEF Descending, Distinct
<1>6. ASSUME NEW r \in S PROVE (\E i \in 1 .. Len(u) : u[i] = r) \/ (Len(u) = n /\ r.t <= u[n].t)
  <2>1. PICK i \in 1 .. Len(s) : s[i] = r
    BY DEF Listed
  <2>2. CASE i \in 1 .. Len(u)
    BY <1>2, <2>1, <2>2
  <2>3. CASE i \notin 1 .. Len(u)
    <3>1. Len(u) = n /\ n \in 1 .. Len(u) /\ n \in 1 .. Len(s) /\ n < i
      BY <1>1, <1>2, <1>3, <2>3
    <3>2. u[n] = s[n] /\ s[n].t >= s[i].t
      BY <1>2, <1>4, <3>1
    <3>3. s[n].t \in Nat /\ s[i].t \in Nat
      BY <1>1, <3>1, HistoryBounds
    <3> QED BY <2>1, <3>1, <3>2, <3>3
  <2> QED BY <2>2, <2>3
<1>7. Given(u, S, n)
  BY <1>2, <1>3, <1>5, <1>6 DEF Given
<1> QED BY <1>7 DEF u

-----------------------------------------------------------------------------
(* The two lists of a query put together.                                   *)

Mergeable(p, s, n) ==
    /\ p \in Seq(Row) /\ Descending(p) /\ Distinct(p)
    /\ s \in Seq(Row) /\ Descending(s) /\ Distinct(s)
    /\ n \in Nat \ {0} /\ Len(p) < n /\ Len(s) <= n

\* The row is in a, or a is full of rows that are not older.
Has(a, r) == \E x \in 1 .. Len(a) : RowKey(a[x]) = RowKey(r)
Covers(a, n, r) == Has(a, r) \/ (Len(a) = n /\ r.t <= a[n].t)

Answers(a, p, s, n) ==
    /\ a \in Seq(Row) /\ Len(a) <= n /\ Descending(a)
    /\ \A i, j \in 1 .. Len(a) :
         i < j /\ RowKey(a[i]) = RowKey(a[j]) => p # <<>> /\ a[i].t = p[Len(p)].t
    /\ \A i \in 1 .. Len(p) : Covers(a, n, p[i])
    /\ \A i \in 1 .. Len(s) : Covers(a, n, s[i])
    /\ Len(s) = n => Len(a) = n /\ s[n].t <= a[n].t

LEMMA RowsTimed ==
    ASSUME NEW s \in Seq(Row)
    PROVE  Len(s) \in Nat /\ \A i \in 1 .. Len(s) : s[i] \in Row /\ s[i].t \in Nat
<1>1. Len(s) \in Nat /\ \A i \in 1 .. Len(s) : s[i] \in Row
  OBVIOUS
<1> QED BY <1>1, HistoryBounds

LEMMA KeyTime == \A r, s : RowKey(r) = RowKey(s) => r.t = s.t
BY DEF RowKey

LEMMA JoinAnswers ==
    ASSUME NEW p, NEW s, NEW n, Mergeable(p, s, n), DoNotOverlap(p, s)
    PROVE  Answers(FirstRows(p \o s, n), p, s, n)
<1> DEFINE P == Len(p)
           S == Len(s)
           q == p \o s
           a == FirstRows(q, n)
<1>1. p \in Seq(Row) /\ s \in Seq(Row) /\ n \in Nat /\ n >= 1 /\ P < n /\ S <= n
  BY DEF Mergeable
<1>2. /\ q \in Seq(Row) /\ Len(q) = P + S
      /\ \A i \in 1 .. P + S : q[i] = IF i <= P THEN p[i] ELSE s[i - P]
  BY <1>1, ConcatProperties
<1>3. /\ a \in Seq(Row) /\ Len(a) = (IF Len(q) < n THEN Len(q) ELSE n)
      /\ \A i \in 1 .. Len(a) : a[i] = q[i]
  <2> HIDE DEF q
  <2> QED BY <1>1, <1>2, FirstRowsIs
<1>4. /\ P \in Nat /\ S \in Nat
      /\ \A i \in 1 .. P : p[i].t \in Nat
      /\ \A i \in 1 .. S : s[i].t \in Nat
  BY <1>1, RowsTimed
<1>5. /\ \A i, j \in 1 .. P : i < j => p[i].t >= p[j].t /\ RowKey(p[i]) # RowKey(p[j])
      /\ \A i, j \in 1 .. S : i < j => s[i].t >= s[j].t /\ RowKey(s[i]) # RowKey(s[j])
  BY DEF Mergeable, Descending, Distinct
<1>6. P > 0 /\ S > 0 => s[1].t <= p[P].t
  <2>1. p = <<>> => P = 0
    OBVIOUS
  <2>2. s = <<>> => S = 0
    OBVIOUS
  <2> QED BY <1>4, <2>1, <2>2 DEF DoNotOverlap
<1>7. \A i \in 1 .. P, j \in 1 .. S : p[i].t >= p[P].t /\ p[P].t >= s[j].t
  <2> SUFFICES ASSUME NEW i \in 1 .. P, NEW j \in 1 .. S PROVE p[i].t >= p[P].t /\ p[P].t >= s[j].t
    OBVIOUS
  <2> HIDE DEF P, S
  <2>1. P \in 1 .. P /\ 1 \in 1 .. S /\ P > 0 /\ S > 0 /\ (i < P \/ i = P) /\ (1 < j \/ j = 1)
    BY <1>4
  <2>2. p[i].t >= p[P].t
    BY <1>4, <1>5, <2>1
  <2>3. s[1].t >= s[j].t
    BY <1>4, <1>5, <2>1
  <2> QED BY <1>4, <1>6, <2>1, <2>2, <2>3
<1>8. p # <<>> <=> P > 0
  BY <1>1
<1> HIDE DEF P, S, q, a
<1>9. Len(a) \in Nat /\ Len(a) <= P + S /\ Len(a) <= n /\ P <= Len(a) /\ (Len(a) = P + S \/ Len(a) = n)
  BY <1>1, <1>2, <1>3, <1>4
<1>10. /\ \A i \in 1 .. P : i \in 1 .. Len(a) /\ a[i] = p[i]
       /\ \A i \in 1 .. S : P + i \in 1 .. Len(a) => a[P + i] = s[i]
       /\ \A i \in 1 .. Len(a) : i \in 1 .. P \/ (i - P \in 1 .. S /\ a[i] = s[i - P])
  <2>1. \A i \in 1 .. P : i \in 1 .. Len(a) /\ i \in 1 .. P + S
    BY <1>4, <1>9
  <2>2. \A i \in 1 .. S : P + i \in 1 .. P + S /\ ~(P + i <= P) /\ P + i - P = i
    BY <1>4
  <2>3. \A i \in 1 .. Len(a) : i \in 1 .. P + S /\ (i \in 1 .. P \/ (i - P \in 1 .. S /\ ~(i <= P)))
    BY <1>4, <1>9
  <2>4. \A i \in 1 .. Len(a) : i \in 1 .. P + S => a[i] = IF i <= P THEN p[i] ELSE s[i - P]
    BY <1>2, <1>3
  <2>5. ASSUME NEW i \in 1 .. P PROVE i \in 1 .. Len(a) /\ a[i] = p[i]
    <3>1. i <= P
      BY <1>4
    <3> QED BY <2>1, <2>4, <3>1
  <2>6. ASSUME NEW i \in 1 .. S, P + i \in 1 .. Len(a) PROVE a[P + i] = s[i]
    <3> DEFINE k == P + i
    <3>1. k \in 1 .. P + S /\ ~(k <= P) /\ k - P = i /\ k \in 1 .. Len(a)
      BY <1>4, <2>6
    <3> HIDE DEF k
    <3>2. a[k] = s[k - P]
      BY <2>4, <3>1
    <3>3. a[k] = s[i]
      BY <3>1, <3>2
    <3> QED BY <3>3 DEF k
  <2>7. ASSUME NEW i \in 1 .. Len(a) PROVE i \in 1 .. P \/ (i - P \in 1 .. S /\ a[i] = s[i - P])
    BY <2>3, <2>4
  <2> QED BY <2>5, <2>6, <2>7
<1>11. ASSUME NEW i \in 1 .. Len(a), NEW j \in 1 .. Len(a), i < j
       PROVE  /\ a[i].t >= a[j].t
              /\ RowKey(a[i]) = RowKey(a[j]) => p # <<>> /\ a[i].t = p[P].t
  <2>1. CASE i \in 1 .. P /\ j \in 1 .. P
    BY <1>5, <1>10, <1>11, <2>1
  <2>2. CASE i \in 1 .. P /\ j \notin 1 .. P
    <3>1. j - P \in 1 .. S /\ a[j] = s[j - P] /\ a[i] = p[i] /\ P > 0
      BY <1>4, <1>10, <2>2
    <3>2. p[i].t >= p[P].t /\ p[P].t >= s[j - P].t
      BY <1>7, <2>2, <3>1
    <3>3. p[i].t \in Nat /\ s[j - P].t \in Nat /\ p[P].t \in Nat
      <4>1. P \in 1 .. P
        BY <1>4, <3>1
      <4> QED BY <1>4, <2>2, <3>1, <4>1
    <3>4. RowKey(a[i]) = RowKey(a[j]) => a[i].t = a[j].t
      BY KeyTime
    <3> QED BY <1>8, <3>1, <3>2, <3>3, <3>4
  <2>3. CASE i \notin 1 .. P
    <3>1. j \notin 1 .. P
      BY <1>4, <1>11, <2>3
    <3>2. i - P \in 1 .. S /\ a[i] = s[i - P] /\ j - P \in 1 .. S /\ a[j] = s[j - P] /\ i - P < j - P
      BY <1>4, <1>10, <1>11, <2>3, <3>1
    <3> QED BY <1>5, <3>2
  <2> QED BY <2>1, <2>2, <2>3
<1>12. Descending(a)
  BY <1>11 DEF Descending
<1>13. \A i \in 1 .. P : Covers(a, n, p[i])
  BY <1>10 DEF Covers, Has
<1>14. ASSUME NEW i \in 1 .. S PROVE Covers(a, n, s[i])
  <2>1. CASE P + i \in 1 .. Len(a)
    BY <1>10, <2>1 DEF Covers, Has
  <2>2. CASE P + i \notin 1 .. Len(a)
    <3>1. Len(a) = n /\ n \in 1 .. Len(a) /\ n \notin 1 .. P /\ n < P + i
      BY <1>1, <1>4, <1>9, <2>2
    <3>2. n - P \in 1 .. S /\ a[n] = s[n - P] /\ n - P < i
      BY <1>4, <1>10, <3>1
    <3>3. s[i].t <= a[n].t
      BY <1>4, <1>5, <3>2
    <3> QED BY <3>1, <3>3 DEF Covers, Has
  <2> QED BY <2>1, <2>2
<1>15. ASSUME S = n PROVE Len(a) = n /\ s[n].t <= a[n].t
  <2>1. Len(a) = n /\ n \in 1 .. Len(a) /\ n \notin 1 .. P
    BY <1>1, <1>4, <1>9, <1>15
  <2>2. n - P \in 1 .. S /\ a[n] = s[n - P] /\ n \in 1 .. S /\ (n - P < n \/ n - P = n)
    BY <1>1, <1>4, <1>10, <1>15, <2>1
  <2>3. s[n].t <= s[n - P].t
    BY <1>4, <1>5, <2>2
  <2> QED BY <2>1, <2>2, <2>3
<1>16. Answers(a, p, s, n)
  BY <1>3, <1>9, <1>11, <1>12, <1>13, <1>14, <1>15 DEF Answers, P, S
<1> QED BY <1>16 DEF a, q

-----------------------------------------------------------------------------
LEMMA HasKey ==
    ASSUME NEW a \in Seq(Row), NEW r
    PROVE  Has(a, r) <=> RowKey(r) \in Keys(ToSet(a))
<1>1. DOMAIN a = 1 .. Len(a)
  OBVIOUS
<1> QED BY <1>1 DEF Has, Keys, ToSet

\* A row that is put at the end unless its key is there.
Grows(o, out, c, n) ==
    /\ o \in Seq(Row) /\ Len(o) <= n /\ Descending(o) /\ Distinct(o) /\ Has(o, c)
    /\ \A r : Has(out, r) => Has(o, r)
    /\ \A x \in 1 .. Len(o) : o[x] = c \/ \E y \in 1 .. Len(out) : o[x] = out[y]

LEMMA RowTaken ==
    ASSUME NEW out \in Seq(Row), NEW c \in Row, NEW n \in Nat, Len(out) < n,
           Descending(out), Distinct(out), \A x \in 1 .. Len(out) : out[x].t >= c.t
    PROVE  Grows(IF RowKey(c) \in Keys(ToSet(out)) THEN out ELSE Append(out, c), out, c, n)
<1>1. CASE RowKey(c) \in Keys(ToSet(out))
  <2>1. Has(out, c)
    BY <1>1, HasKey
  <2>2. Len(out) <= n
    BY RowsTimed
  <2>3. Grows(out, out, c, n)
    BY <2>1, <2>2 DEF Grows
  <2> QED BY <1>1, <2>3
<1>2. CASE RowKey(c) \notin Keys(ToSet(out))
  <2> DEFINE o == Append(out, c)
             N == Len(out)
  <2>1. o \in Seq(Row) /\ Len(o) = N + 1 /\ N \in Nat /\ o[N + 1] = c /\ \A x \in 1 .. N : o[x] = out[x]
    OBVIOUS
  <2>2. ~Has(out, c)
    BY <1>2, HasKey
  <2> HIDE DEF o
  <2>3. \A x \in 1 .. Len(o) : x \in 1 .. N \/ x = N + 1
    BY <2>1
  <2>4. Len(o) <= n
    BY <2>1
  <2>5. \A i, j \in 1 .. Len(o) : i < j => o[i].t >= o[j].t /\ RowKey(o[i]) # RowKey(o[j])
    <3> SUFFICES ASSUME NEW i \in 1 .. Len(o), NEW j \in 1 .. Len(o), i < j
                 PROVE  o[i].t >= o[j].t /\ RowKey(o[i]) # RowKey(o[j])
      OBVIOUS
    <3>1. i \in 1 .. N /\ (j \in 1 .. N \/ j = N + 1)
      BY <2>1, <2>3
    <3>2. CASE j \in 1 .. N
      BY <2>1, <3>1, <3>2 DEF Descending, Distinct
    <3>3. CASE j = N + 1
      BY <2>1, <2>2, <3>1, <3>3 DEF Has
    <3> QED BY <3>1, <3>2, <3>3
  <2>6. Descending(o) /\ Distinct(o)
    BY <2>5 DEF Descending, Distinct
  <2>7. Has(o, c)
    <3>1. N + 1 \in 1 .. Len(o)
      BY <2>1
    <3> QED BY <2>1, <3>1 DEF Has
  <2>8. \A r : Has(out, r) => Has(o, r)
    <3>1. \A x \in 1 .. N : x \in 1 .. Len(o)
      BY <2>1
    <3> QED BY <2>1, <3>1 DEF Has
  <2>9. \A x \in 1 .. Len(o) : o[x] = c \/ \E y \in 1 .. Len(out) : o[x] = out[y]
    BY <2>1, <2>3
  <2>10. Grows(o, out, c, n)
    BY <2>1, <2>4, <2>6, <2>7, <2>8, <2>9 DEF Grows
  <2> QED BY <1>2, <2>10 DEF o
<1> QED BY <1>1, <1>2

\* As many keys as rows that have them.
LEMMA FillsUp ==
    ASSUME NEW s \in Seq(Row), Distinct(s), NEW out \in Seq(Row), NEW j \in 0 .. Len(s),
           \A b \in 1 .. j : Has(out, s[b])
    PROVE  j <= Len(out)
<1> DEFINE N == Len(out)
           f == [b \in 1 .. j |-> CHOOSE x \in 1 .. N : RowKey(out[x]) = RowKey(s[b])]
<1>1. N \in Nat /\ j \in Nat /\ Len(s) \in Nat /\ j <= Len(s)
  OBVIOUS
<1>2. \A b \in 1 .. j : f[b] \in 1 .. N /\ RowKey(out[f[b]]) = RowKey(s[b])
  BY DEF Has
<1>3. f \in [1 .. j -> 1 .. N]
  BY <1>2
<1> HIDE DEF f, N
<1>4. ASSUME N < j PROVE FALSE
  <2>1. IsFiniteSet(1 .. j) /\ Cardinality(1 .. j) = j /\ IsFiniteSet(1 .. N) /\ Cardinality(1 .. N) = N
    <3>1. \A k \in Nat : IsFiniteSet(1 .. k) /\ Cardinality(1 .. k) = k
      BY FS_Interval
    <3> QED BY <1>1, <3>1
  <2>2. PICK x \in 1 .. j, y \in 1 .. j : x # y /\ f[x] = f[y]
    BY <1>3, <1>4, <2>1, FS_PigeonHole
  <2>3. RowKey(s[x]) = RowKey(s[y]) /\ x \in 1 .. Len(s) /\ y \in 1 .. Len(s) /\ (x < y \/ y < x)
    BY <1>1, <1>2, <2>2
  <2> QED BY <2>3 DEF Distinct
<1> QED BY <1>1, <1>4 DEF N

\* The merge on its way: what has been taken is in out, and what has not been
\* is not newer than anything there.
Merged(p, s, n, m) ==
    /\ m.i \in 0 .. Len(p) /\ m.j \in 0 .. Len(s)
    /\ m.out \in Seq(Row) /\ Len(m.out) <= n /\ Descending(m.out) /\ Distinct(m.out)
    /\ \A a \in 1 .. m.i : Has(m.out, p[a])
    /\ \A b \in 1 .. m.j : Has(m.out, s[b])
    /\ \A x \in 1 .. Len(m.out) :
         /\ \A a \in m.i + 1 .. Len(p) : m.out[x].t >= p[a].t
         /\ \A b \in m.j + 1 .. Len(s) : m.out[x].t >= s[b].t
         /\ Len(s) = n => m.out[x].t >= s[n].t

Merging(p, s, n, m) == Len(m.out) # n /\ m.i + m.j # Len(p) + Len(s)
FromP(p, s, m) == m.j = Len(s) \/ (m.i < Len(p) /\ p[m.i + 1].t >= s[m.j + 1].t)

\* What a round does: it takes c, the head of one of the lists.
Takes(p, s, n, m, i, j, c) ==
    /\ i \in 0 .. Len(p) /\ j \in 0 .. Len(s) /\ i + j = m.i + m.j + 1 /\ c \in Row
    /\ (i = m.i + 1 /\ j = m.j /\ c = p[i]) \/ (i = m.i /\ j = m.j + 1 /\ c = s[j])
    /\ \A a \in i + 1 .. Len(p) : c.t >= p[a].t
    /\ \A b \in j + 1 .. Len(s) : c.t >= s[b].t
    /\ Len(s) = n => c.t >= s[n].t

LEMMA HeadOfP ==
    ASSUME NEW p, NEW s, NEW n, Mergeable(p, s, n), NEW m, Merged(p, s, n, m), Merging(p, s, n, m),
           FromP(p, s, m)
    PROVE  Takes(p, s, n, m, m.i + 1, m.j, p[m.i + 1])
<1> DEFINE P == Len(p)
           S == Len(s)
           i == m.i
           j == m.j
           c == p[i + 1]
<1>1. p \in Seq(Row) /\ s \in Seq(Row) /\ n \in Nat /\ n >= 1 /\ Distinct(s)
  BY DEF Mergeable
<1>2. /\ P \in Nat /\ S \in Nat /\ i \in 0 .. P /\ j \in 0 .. S
      /\ \A a \in 1 .. P : p[a] \in Row /\ p[a].t \in Nat
      /\ \A b \in 1 .. S : s[b] \in Row /\ s[b].t \in Nat
  BY <1>1, RowsTimed DEF Merged
<1>3. /\ \A a, b \in 1 .. P : a < b => p[a].t >= p[b].t
      /\ \A a, b \in 1 .. S : a < b => s[a].t >= s[b].t
  BY DEF Mergeable, Descending
<1>4. j <= Len(m.out) /\ Len(m.out) <= n /\ Len(m.out) # n /\ i + j # P + S /\ Len(m.out) \in Nat
  <2>1. j <= Len(m.out)
    BY <1>1, FillsUp DEF Merged
  <2> QED BY <2>1, RowsTimed DEF Merged, Merging
<1>5. j = S \/ (i < P /\ c.t >= s[j + 1].t)
  BY DEF FromP
<1> HIDE DEF P, S, i, j, c
<1>6. i + 1 \in 1 .. P
  <2>1. j = S => i # P
    BY <1>2, <1>4
  <2>2. i < P \/ i # P
    BY <1>5, <2>1
  <2> QED BY <1>2, <2>2
<1>7. c \in Row /\ c.t \in Nat /\ c = p[i + 1]
  BY <1>2, <1>6 DEF c
<1>8. \A a \in i + 1 + 1 .. P : c.t >= p[a].t
  <2>1. \A a \in i + 1 + 1 .. P : a \in 1 .. P /\ i + 1 < a
    BY <1>2
  <2> QED BY <1>3, <1>6, <1>7, <2>1
<1>9. \A b \in j + 1 .. S : c.t >= s[b].t
  <2> SUFFICES ASSUME NEW b \in j + 1 .. S PROVE c.t >= s[b].t
    OBVIOUS
  <2>1. b \in 1 .. S /\ j + 1 \in 1 .. S /\ j # S /\ (b = j + 1 \/ j + 1 < b)
    BY <1>2
  <2>2. s[j + 1].t >= s[b].t /\ s[j + 1].t \in Nat /\ s[b].t \in Nat
    BY <1>2, <1>3, <2>1
  <2> QED BY <1>5, <1>7, <2>1, <2>2
<1>10. S = n => c.t >= s[n].t
  <2>1. S = n => S \in j + 1 .. S
    BY <1>2, <1>4
  <2> QED BY <1>9, <2>1
<1>11. i + 1 \in 0 .. P /\ i + 1 + j = i + j + 1
  BY <1>2, <1>6
<1>12. /\ i + 1 \in 0 .. Len(p) /\ j \in 0 .. Len(s) /\ i + 1 + j = m.i + m.j + 1
       /\ i + 1 = m.i + 1 /\ j = m.j
       /\ \A a \in i + 1 + 1 .. Len(p) : c.t >= p[a].t
       /\ \A b \in j + 1 .. Len(s) : c.t >= s[b].t
       /\ Len(s) = n => c.t >= s[n].t
  BY <1>2, <1>8, <1>9, <1>10, <1>11 DEF P, S, i, j
<1>13. Takes(p, s, n, m, i + 1, j, c)
  BY <1>7, <1>12 DEF Takes
<1> QED BY <1>13 DEF i, j, c

LEMMA HeadOfS ==
    ASSUME NEW p, NEW s, NEW n, Mergeable(p, s, n), NEW m, Merged(p, s, n, m), Merging(p, s, n, m),
           ~FromP(p, s, m)
    PROVE  Takes(p, s, n, m, m.i, m.j + 1, s[m.j + 1])
<1> DEFINE P == Len(p)
           S == Len(s)
           i == m.i
           j == m.j
           c == s[j + 1]
<1>1. p \in Seq(Row) /\ s \in Seq(Row) /\ n \in Nat /\ n >= 1
  BY DEF Mergeable
<1>2. /\ P \in Nat /\ S \in Nat /\ i \in 0 .. P /\ j \in 0 .. S
      /\ \A a \in 1 .. P : p[a] \in Row /\ p[a].t \in Nat
      /\ \A b \in 1 .. S : s[b] \in Row /\ s[b].t \in Nat
  BY <1>1, RowsTimed DEF Merged
<1>3. /\ \A a, b \in 1 .. P : a < b => p[a].t >= p[b].t
      /\ \A a, b \in 1 .. S : a < b => s[a].t >= s[b].t
  BY DEF Mergeable, Descending
<1>5. j # S /\ (i < P => ~(p[i + 1].t >= c.t))
  BY DEF FromP
<1> HIDE DEF P, S, i, j, c
<1>6. j + 1 \in 1 .. S
  BY <1>2, <1>5
<1>7. c \in Row /\ c.t \in Nat /\ c = s[j + 1]
  BY <1>2, <1>6 DEF c
<1>8. \A b \in j + 1 + 1 .. S : c.t >= s[b].t
  <2>1. \A b \in j + 1 + 1 .. S : b \in 1 .. S /\ j + 1 < b
    BY <1>2
  <2> QED BY <1>3, <1>6, <1>7, <2>1
<1>9. \A a \in i + 1 .. P : c.t >= p[a].t
  <2> SUFFICES ASSUME NEW a \in i + 1 .. P PROVE c.t >= p[a].t
    OBVIOUS
  <2>1. a \in 1 .. P /\ i + 1 \in 1 .. P /\ i < P /\ (a = i + 1 \/ i + 1 < a)
    BY <1>2
  <2>2. p[i + 1].t >= p[a].t /\ p[i + 1].t \in Nat /\ p[a].t \in Nat
    BY <1>2, <1>3, <2>1
  <2> QED BY <1>5, <1>7, <2>1, <2>2
<1>10. S = n => c.t >= s[n].t
  <2>1. S \in j + 1 + 1 .. S \/ S = j + 1
    BY <1>2, <1>6
  <2> QED BY <1>7, <1>8, <2>1
<1>11. j + 1 \in 0 .. S /\ i + (j + 1) = i + j + 1
  BY <1>2, <1>6
<1>12. /\ i \in 0 .. Len(p) /\ j + 1 \in 0 .. Len(s) /\ i + (j + 1) = m.i + m.j + 1
       /\ i = m.i /\ j + 1 = m.j + 1
       /\ \A b \in j + 1 + 1 .. Len(s) : c.t >= s[b].t
       /\ \A a \in i + 1 .. Len(p) : c.t >= p[a].t
       /\ Len(s) = n => c.t >= s[n].t
  BY <1>2, <1>8, <1>9, <1>10, <1>11 DEF P, S, i, j
<1>13. Takes(p, s, n, m, i, j + 1, c)
  BY <1>7, <1>12 DEF Takes
<1> QED BY <1>13 DEF i, j, c

-----------------------------------------------------------------------------
\* The round goes on from m.
GoesOn(p, s, n, m, w) ==
    /\ Merged(p, s, n, w)
    /\ Merging(p, s, n, m) => w.i + w.j = m.i + m.j + 1
    /\ ~Merging(p, s, n, m) => w = m

LEMMA TakenKeeps ==
    ASSUME NEW p, NEW s, NEW n, Mergeable(p, s, n), NEW m, Merged(p, s, n, m), Merging(p, s, n, m),
           NEW i, NEW j, NEW c, Takes(p, s, n, m, i, j, c),
           NEW o, Grows(o, m.out, c, n)
    PROVE  Merged(p, s, n, [i |-> i, j |-> j, out |-> o])
<1>1. p \in Seq(Row) /\ s \in Seq(Row) /\ n \in Nat /\ Len(p) \in Nat /\ Len(s) \in Nat
  BY DEF Mergeable
<1>2. /\ m.i \in 0 .. Len(p) /\ m.j \in 0 .. Len(s)
      /\ i \in 0 .. Len(p) /\ j \in 0 .. Len(s)
      /\ (i = m.i + 1 /\ j = m.j /\ c = p[i]) \/ (i = m.i /\ j = m.j + 1 /\ c = s[j])
  BY DEF Merged, Takes
<1>3. /\ \A a \in 1 .. m.i : Has(o, p[a])
      /\ \A b \in 1 .. m.j : Has(o, s[b])
      /\ Has(o, c)
  BY DEF Merged, Grows
<1>4. \A a \in 1 .. i : Has(o, p[a])
  <2>1. \A a \in 1 .. i : a \in 1 .. m.i \/ (a = i /\ c = p[i])
    BY <1>2
  <2> QED BY <1>3, <2>1
<1>5. \A b \in 1 .. j : Has(o, s[b])
  <2>1. \A b \in 1 .. j : b \in 1 .. m.j \/ (b = j /\ c = s[j])
    BY <1>2
  <2> QED BY <1>3, <2>1
<1>6. /\ \A a \in i + 1 .. Len(p) : a \in m.i + 1 .. Len(p)
      /\ \A b \in j + 1 .. Len(s) : b \in m.j + 1 .. Len(s)
  BY <1>1, <1>2
<1>7. ASSUME NEW x \in 1 .. Len(o)
      PROVE  /\ \A a \in i + 1 .. Len(p) : o[x].t >= p[a].t
             /\ \A b \in j + 1 .. Len(s) : o[x].t >= s[b].t
             /\ Len(s) = n => o[x].t >= s[n].t
  <2>1. CASE o[x] = c
    BY <2>1 DEF Takes
  <2>2. CASE \E y \in 1 .. Len(m.out) : o[x] = m.out[y]
    BY <1>6, <2>2 DEF Merged
  <2> QED BY <2>1, <2>2 DEF Grows
<1> DEFINE w == [i |-> i, j |-> j, out |-> o]
<1>8. w.i = i /\ w.j = j /\ w.out = o
  OBVIOUS
<1> HIDE DEF w
<1>9. o \in Seq(Row) /\ Len(o) <= n /\ Descending(o) /\ Distinct(o)
  BY DEF Grows
<1>10. Merged(p, s, n, w)
  BY <1>2, <1>4, <1>5, <1>7, <1>8, <1>9 DEF Merged
<1> QED BY <1>10 DEF w

LEMMA RoundGoesOn ==
    ASSUME NEW p, NEW s, NEW n, Mergeable(p, s, n), NEW m, Merged(p, s, n, m)
    PROVE  GoesOn(p, s, n, m, MergeRound(p, s, n, m))
<1> DEFINE w == MergeRound(p, s, n, m)
           Out(c) == IF RowKey(c) \in Keys(ToSet(m.out)) THEN m.out ELSE Append(m.out, c)
<1>1. CASE ~Merging(p, s, n, m)
  <2>1. w = m
    BY <1>1 DEF MergeRound, Merging
  <2> HIDE DEF w
  <2>2. GoesOn(p, s, n, m, w)
    BY <1>1, <2>1 DEF GoesOn
  <2> QED BY <2>2 DEF w
<1>2. ASSUME Merging(p, s, n, m), NEW i, NEW j, NEW c, Takes(p, s, n, m, i, j, c),
             w = [i |-> i, j |-> j, out |-> Out(c)]
      PROVE  GoesOn(p, s, n, m, w)
  <2>1. n \in Nat /\ Len(m.out) < n /\ m.out \in Seq(Row)
    <3>1. m.out \in Seq(Row) /\ Len(m.out) <= n /\ Len(m.out) # n
      BY <1>2 DEF Merged, Merging
    <3> QED BY <3>1, RowsTimed DEF Mergeable
  <2>2. Descending(m.out) /\ Distinct(m.out) /\ c \in Row
    BY <1>2 DEF Merged, Takes
  <2>3. \A x \in 1 .. Len(m.out) : m.out[x].t >= c.t
    <3>1. /\ m.i \in 0 .. Len(p) /\ m.j \in 0 .. Len(s) /\ i \in 0 .. Len(p) /\ j \in 0 .. Len(s)
          /\ (i = m.i + 1 /\ j = m.j /\ c = p[i]) \/ (i = m.i /\ j = m.j + 1 /\ c = s[j])
      BY <1>2 DEF Merged, Takes
    <3>2. (i \in m.i + 1 .. Len(p) /\ c = p[i]) \/ (j \in m.j + 1 .. Len(s) /\ c = s[j])
      <4>1. Len(p) \in Nat /\ Len(s) \in Nat
        BY DEF Mergeable
      <4> QED BY <3>1, <4>1
    <3> QED BY <3>2 DEF Merged
  <2>4. Grows(Out(c), m.out, c, n)
    BY <2>1, <2>2, <2>3, RowTaken
  <2> HIDE DEF w, Out
  <2>5. Merged(p, s, n, w)
    BY <1>2, <2>4, TakenKeeps
  <2>6. w.i + w.j = m.i + m.j + 1
    BY <1>2 DEF Takes
  <2> QED BY <1>2, <2>5, <2>6 DEF GoesOn
<1>3. CASE Merging(p, s, n, m) /\ FromP(p, s, m)
  <2>1. w = [i |-> m.i + 1, j |-> m.j, out |-> Out(p[m.i + 1])]
    BY <1>3 DEF MergeRound, Merging, FromP
  <2>2. Takes(p, s, n, m, m.i + 1, m.j, p[m.i + 1])
    BY <1>3, HeadOfP
  <2> HIDE DEF w, Out
  <2>3. GoesOn(p, s, n, m, w)
    BY <1>2, <1>3, <2>1, <2>2
  <2> QED BY <2>3 DEF w
<1>4. CASE Merging(p, s, n, m) /\ ~FromP(p, s, m)
  <2>1. w = [i |-> m.i, j |-> m.j + 1, out |-> Out(s[m.j + 1])]
    BY <1>4 DEF MergeRound, Merging, FromP
  <2>2. Takes(p, s, n, m, m.i, m.j + 1, s[m.j + 1])
    BY <1>4, HeadOfS
  <2> HIDE DEF w, Out
  <2>3. GoesOn(p, s, n, m, w)
    BY <1>2, <1>4, <2>1, <2>2
  <2> QED BY <2>3 DEF w
<1> QED BY <1>1, <1>3, <1>4

Start == [i |-> 0, j |-> 0, out |-> <<>>]
IsRounds(g, N, p, s, n) ==
    g = [x \in 0 .. N |-> IF x = 0 THEN Start ELSE MergeRound(p, s, n, g[x - 1])]

LEMMA StartMerged == ASSUME NEW p, NEW s, NEW n, Mergeable(p, s, n) PROVE Merged(p, s, n, Start)
<1>1. Start.i = 0 /\ Start.j = 0 /\ Start.out = <<>>
  BY DEF Start
<1>2. <<>> \in Seq(Row) /\ Len(<<>>) = 0 /\ Descending(<<>>) /\ Distinct(<<>>)
  BY DEF Descending, Distinct
<1>3. n \in Nat /\ Len(p) \in Nat /\ Len(s) \in Nat
  BY DEF Mergeable
<1> QED BY <1>1, <1>2, <1>3 DEF Merged

LEMMA RoundsExist ==
    ASSUME NEW N \in Nat, NEW p, NEW s, NEW n
    PROVE  \E g : IsRounds(g, N, p, s, n)
<1> DEFINE Is(g, k) == IsRounds(g, k, p, s, n)
           T == {k \in 0 .. N : ~\E g : Is(g, k)}
<1>1. ASSUME T # {} PROVE FALSE
  <2>1. T \subseteq Nat
    OBVIOUS
  <2>2. PICK k \in T : \A l \in T : k <= l
    BY <1>1, <2>1, MinExists
  <2>3. k # 0
    <3> DEFINE g == [x \in 0 .. 0 |-> Start]
    <3>1. \A x \in 0 .. 0 : x = 0
      OBVIOUS
    <3>2. Is(g, 0)
      BY <3>1 DEF IsRounds
    <3> QED BY <3>2
  <2>4. k \in 0 .. N /\ k \in Nat
    OBVIOUS
  <2>5. k - 1 \in 0 .. N /\ k - 1 \notin T
    <3>1. k - 1 \in 0 .. N /\ ~(k <= k - 1)
      BY <2>3, <2>4
    <3> HIDE DEF T
    <3> QED BY <2>2, <3>1
  <2>6. PICK g : IsRounds(g, k - 1, p, s, n)
    BY <2>5
  <2> DEFINE h == [x \in 0 .. k |-> IF x = k THEN MergeRound(p, s, n, g[k - 1]) ELSE g[x]]
  <2>7. \A x \in 0 .. k - 1 : x \in 0 .. k /\ x # k
    BY <2>4
  <2>8. \A x \in 0 .. k - 1 : h[x] = g[x] /\ g[x] = IF x = 0 THEN Start ELSE MergeRound(p, s, n, g[x - 1])
    BY <2>6, <2>7 DEF IsRounds
  <2>9. h[k] = MergeRound(p, s, n, g[k - 1])
    BY <2>4
  <2>10. DOMAIN h = 0 .. k /\ h = [x \in 0 .. k |-> h[x]]
    OBVIOUS
  <2> HIDE DEF h
  <2>11. ASSUME NEW x \in 0 .. k PROVE h[x] = IF x = 0 THEN Start ELSE MergeRound(p, s, n, h[x - 1])
    <3>1. CASE x = k
      <4>1. k - 1 \in 0 .. k - 1
        BY <2>3, <2>4
      <4> QED BY <2>3, <2>8, <2>9, <3>1, <4>1
    <3>2. CASE x = 0
      <4>1. 0 \in 0 .. k - 1
        BY <2>3, <2>4
      <4> QED BY <2>8, <3>2, <4>1
    <3>3. CASE x # k /\ x # 0
      <4>1. x \in 0 .. k - 1 /\ x - 1 \in 0 .. k - 1
        BY <2>4, <3>3
      <4> QED BY <2>8, <3>3, <4>1
    <3> QED BY <3>1, <3>2, <3>3
  <2>12. Is(h, k)
    BY <2>10, <2>11 DEF IsRounds
  <2> QED BY <2>12
<1>2. N \notin T
  BY <1>1
<1> QED BY <1>2

-----------------------------------------------------------------------------
Going(p, s, n, m, k) == Merged(p, s, n, m) /\ (Merging(p, s, n, m) => m.i + m.j = k)

LEMMA GoingOn ==
    ASSUME NEW p, NEW s, NEW n, Mergeable(p, s, n), NEW m, NEW k \in Nat, Going(p, s, n, m, k)
    PROVE  Going(p, s, n, MergeRound(p, s, n, m), k + 1)
<1>1. Merged(p, s, n, m)
  BY DEF Going
<1>2. GoesOn(p, s, n, m, MergeRound(p, s, n, m))
  BY <1>1, RoundGoesOn
<1> DEFINE w == MergeRound(p, s, n, m)
<1> HIDE DEF w
<1>3. GoesOn(p, s, n, m, w)
  BY <1>2 DEF w
<1>4. ASSUME Merging(p, s, n, m) PROVE Going(p, s, n, w, k + 1)
  BY <1>3, <1>4 DEF GoesOn, Going
<1>5. ASSUME ~Merging(p, s, n, m) PROVE Going(p, s, n, w, k + 1)
  BY <1>3, <1>5 DEF GoesOn, Going
<1>6. Going(p, s, n, w, k + 1)
  BY <1>4, <1>5
<1> QED BY <1>6 DEF w

LEMMA RoundsMerge ==
    ASSUME NEW p, NEW s, NEW n, Mergeable(p, s, n), NEW N \in Nat, NEW g, IsRounds(g, N, p, s, n)
    PROVE  Going(p, s, n, g[N], N)
<1> DEFINE T == {k \in 0 .. N : ~Going(p, s, n, g[k], k)}
<1>1. \A k \in 0 .. N : g[k] = IF k = 0 THEN Start ELSE MergeRound(p, s, n, g[k - 1])
  BY DEF IsRounds
<1>2. ASSUME T # {} PROVE FALSE
  <2>1. T \subseteq Nat
    OBVIOUS
  <2>2. PICK k \in T : \A l \in T : k <= l
    BY <1>2, <2>1, MinExists
  <2>3. k \in 0 .. N /\ k \in Nat /\ ~Going(p, s, n, g[k], k)
    OBVIOUS
  <2>4. CASE k = 0
    <3>1. g[k] = Start
      BY <1>1, <2>3, <2>4
    <3>2. Start.i + Start.j = 0
      BY DEF Start
    <3>3. Going(p, s, n, Start, 0)
      BY <3>2, StartMerged DEF Going
    <3> QED BY <2>3, <2>4, <3>1, <3>3
  <2>5. CASE k # 0
    <3>1. k - 1 \in 0 .. N /\ k - 1 \in Nat /\ ~(k <= k - 1) /\ k - 1 + 1 = k
      BY <2>3, <2>5
    <3>2. k - 1 \notin T
      <4> HIDE DEF T
      <4> QED BY <2>2, <3>1
    <3>3. Going(p, s, n, g[k - 1], k - 1)
      BY <3>1, <3>2
    <3>4. Going(p, s, n, MergeRound(p, s, n, g[k - 1]), k - 1 + 1)
      BY <3>1, <3>3, GoingOn
    <3>5. g[k] = MergeRound(p, s, n, g[k - 1])
      BY <1>1, <2>3, <2>5
    <3> QED BY <2>3, <3>1, <3>4, <3>5
  <2> QED BY <2>4, <2>5
<1>3. N \in 0 .. N /\ N \notin T
  BY <1>2
<1> QED BY <1>3

LEMMA MergedAnswers ==
    ASSUME NEW p, NEW s, NEW n, Mergeable(p, s, n), NEW m, Merged(p, s, n, m), ~Merging(p, s, n, m)
    PROVE  Answers(m.out, p, s, n)
<1> DEFINE P == Len(p)
           S == Len(s)
           a == m.out
<1>1. /\ P \in Nat /\ S \in Nat /\ n \in Nat /\ n >= 1 /\ m.i \in 0 .. P /\ m.j \in 0 .. S
      /\ a \in Seq(Row) /\ Len(a) \in Nat /\ Len(a) <= n /\ s \in Seq(Row) /\ Distinct(s)
      /\ \A x \in 1 .. S : s[x].t \in Nat
  BY RowsTimed DEF Mergeable, Merged
<1>2. Len(a) = n \/ (m.i = P /\ m.j = S)
  BY <1>1 DEF Merging
<1>3. /\ \A x \in 1 .. m.i : Has(a, p[x])
      /\ \A x \in 1 .. m.j : Has(a, s[x])
      /\ \A x \in 1 .. Len(a) :
           /\ \A y \in m.i + 1 .. P : a[x].t >= p[y].t
           /\ \A y \in m.j + 1 .. S : a[x].t >= s[y].t
           /\ S = n => a[x].t >= s[n].t
  BY DEF Merged
<1>4. Descending(a) /\ Distinct(a)
  BY DEF Merged
<1> HIDE DEF P, S, a
<1>5. Len(a) = n => n \in 1 .. Len(a)
  BY <1>1
<1>6. ASSUME NEW x \in 1 .. P PROVE Covers(a, n, p[x])
  <2>1. x \in 1 .. m.i \/ (x \in m.i + 1 .. P /\ m.i # P)
    BY <1>1
  <2>2. p[x] \in Row /\ (Len(a) = n => a[n] \in Row)
    <3>1. p \in Seq(Row)
      BY DEF Mergeable
    <3> QED BY <1>1, <1>5, <3>1, RowsTimed DEF P
  <2>3. p[x].t \in Nat /\ (Len(a) = n => a[n].t \in Nat)
    BY <2>2, HistoryBounds
  <2>4. CASE x \in 1 .. m.i
    BY <1>3, <2>4 DEF Covers
  <2>5. CASE x \in m.i + 1 .. P /\ m.i # P
    <3>1. Len(a) = n /\ a[n].t >= p[x].t
      BY <1>2, <1>3, <1>5, <2>5
    <3>2. p[x].t <= a[n].t
      BY <2>3, <3>1
    <3> QED BY <3>1, <3>2 DEF Covers
  <2> QED BY <2>1, <2>4, <2>5
<1>7. ASSUME NEW x \in 1 .. S PROVE Covers(a, n, s[x])
  <2>1. x \in 1 .. m.j \/ (x \in m.j + 1 .. S /\ m.j # S)
    BY <1>1
  <2>2. Len(a) = n => a[n] \in Row
    BY <1>1, <1>5, RowsTimed
  <2>3. s[x].t \in Nat /\ (Len(a) = n => a[n].t \in Nat)
    BY <1>1, <2>2, HistoryBounds
  <2>4. CASE x \in 1 .. m.j
    BY <1>3, <2>4 DEF Covers
  <2>5. CASE x \in m.j + 1 .. S /\ m.j # S
    <3>1. Len(a) = n /\ a[n].t >= s[x].t
      BY <1>2, <1>3, <1>5, <2>5
    <3>2. s[x].t <= a[n].t
      BY <2>3, <3>1
    <3> QED BY <3>1, <3>2 DEF Covers
  <2> QED BY <2>1, <2>4, <2>5
<1>8. ASSUME S = n PROVE Len(a) = n /\ s[n].t <= a[n].t
  <2>1. m.j <= Len(a)
    BY <1>1, <1>3, FillsUp DEF S
  <2>2. Len(a) = n
    BY <1>1, <1>2, <1>8, <2>1
  <2>3. n \in 1 .. Len(a) /\ n \in 1 .. S
    BY <1>1, <1>8, <2>2
  <2>4. a[n].t >= s[n].t
    BY <1>3, <1>8, <2>3
  <2>5. a[n].t \in Nat /\ s[n].t \in Nat
    BY <1>1, <2>3, RowsTimed
  <2> QED BY <2>2, <2>4, <2>5
<1>9. \A i, j \in 1 .. Len(a) : i < j => RowKey(a[i]) # RowKey(a[j])
  BY <1>4 DEF Distinct
<1>10. Answers(a, p, s, n)
  BY <1>1, <1>4, <1>6, <1>7, <1>8, <1>9 DEF Answers, P, S
<1> QED BY <1>10 DEF a

LEMMA LoopAnswers ==
    ASSUME NEW p, NEW s, NEW n, Mergeable(p, s, n)
    PROVE  Answers(MergeLoop(p, s, n), p, s, n)
<1> DEFINE N == Len(p) + Len(s)
           g == CHOOSE f : IsRounds(f, N, p, s, n)
<1>1. N \in Nat
  BY DEF Mergeable
<1>2. IsRounds(g, N, p, s, n)
  <2>1. \E f : IsRounds(f, N, p, s, n)
    BY <1>1, RoundsExist
  <2> QED BY <2>1, Zenon
<1>3. MergeLoop(p, s, n) = g[N].out
  BY DEF MergeLoop, IsRounds, Start
<1> HIDE DEF g
<1>4. Going(p, s, n, g[N], N)
  BY <1>1, <1>2, RoundsMerge
<1>5. Merged(p, s, n, g[N]) /\ ~Merging(p, s, n, g[N])
  BY <1>4 DEF Going, Merging
<1> QED BY <1>3, <1>5, MergedAnswers

LEMMA MergeAnswers ==
    ASSUME NEW p, NEW s, NEW n, Mergeable(p, s, n)
    PROVE  Answers(MergeDataPoints(p, s, n), p, s, n)
<1>1. CASE DoNotOverlap(p, s)
  BY <1>1, JoinAnswers DEF MergeDataPoints
<1>2. CASE ~DoNotOverlap(p, s)
  BY <1>2, LoopAnswers DEF MergeDataPoints
<1> QED BY <1>1, <1>2

-----------------------------------------------------------------------------
(* The invariant of History.                                                *)

TablesOK ==
    /\ Table(memRows) /\ Table(diskRows) /\ syncing \subseteq Row
    /\ cacheRows \subseteq Row /\ \A r, s \in cacheRows : r.f = s.f => r = s
    /\ deleting \subseteq Field /\ second \in 1 .. MaxSecond
    /\ writes \in 0 .. MaxWrites /\ queries \in 0 .. MaxQueries /\ deletes \in 0 .. MaxDeletes
    /\ \A r \in memRows \cup diskRows : r.t <= second

\* What is on disk is not newer than what is in memory, unless it is one of
\* its rows or about to be deleted; what came to memory after a sync has
\* copied it is not older than anything on disk.
DiskOlder ==
    /\ \A d \in diskRows, m \in memRows : d.t <= m.t \/ RowKey(d) \in Keys(memRows) \/ d.f \in deleting
    /\ syncing # {} => \A d \in diskRows, m \in memRows \ syncing : d.t <= m.t

FieldSecond == Field \X Nat
QueryAt == [pc : {"idle", "disk", "done"}, kind : {"none", "device", "range"}, fields : SUBSET Field,
            from : Nat, limit : Nat \ {0}, memRows : Seq(Row), must : SUBSET FieldSecond, ans : Seq(Row)]
LatestAt == [pc : {"idle", "disk", "done"}, shown : SUBSET Row, must : SUBSET FieldSecond]

\* A query on its way to the disk has all that memory had for it; what else it
\* must name is on disk.
AtDisk(q, dRows) ==
    /\ Len(q.memRows) < q.limit /\ Descending(q.memRows) /\ Distinct(q.memRows) /\ q.ans = <<>>
    /\ \A k \in q.must :
        /\ k[1] \in q.fields /\ k[2] >= q.from
        /\ \/ k \in Keys(ToSet(q.memRows))
           \/ /\ k \in Keys(dRows)
              /\ q.kind = "device" /\ q.memRows # <<>> => k[2] <= OldestCollectedAt(q)

Ordered(q) == \A i, j \in 1 .. Len(q.ans) : i < j =>
    /\ q.ans[i].t >= q.ans[j].t
    /\ RowKey(q.ans[i]) = RowKey(q.ans[j]) => q.memRows # <<>> /\ q.ans[i].t = OldestCollectedAt(q)
Complete(q) == \A k \in q.must :
    \/ k \in Keys(ToSet(q.ans))
    \/ (Len(q.ans) = q.limit /\ k[2] <= q.ans[q.limit].t)
    \/ (q.kind = "device" /\ q.memRows # <<>> /\ k[2] = OldestCollectedAt(q))

\* The same of any query and table: the steps below state it of the next ones.
QuerySound(q, dRows) ==
    /\ q \in QueryAt /\ Ordered(q)
    /\ q.pc = "disk" => AtDisk(q, dRows)
    /\ q.pc = "done" => Complete(q)

Shows(l, k) == \E r \in l.shown : r.f = k[1] /\ r.t >= k[2]
LatestSound(l, dRows) ==
    /\ l \in LatestAt
    /\ l.pc # "idle" => \A r, s \in l.shown : r.f = s.f => r = s
    /\ l.pc = "disk" => \A k \in l.must : Shows(l, k) \/ k \in Keys(dRows)
    /\ l.pc = "done" => \A k \in l.must : Shows(l, k)

HistoryInv == TablesOK /\ DiskOlder /\ QuerySound(query, diskRows) /\ LatestSound(latest, diskRows)

LEMMA HistoryInvSafe == HistoryInv => AnswersSound
<1> SUFFICES ASSUME HistoryInv PROVE AnswersSound
  OBVIOUS
<1>1. query \in QueryAt /\ latest \in LatestAt
  BY DEF HistoryInv, QuerySound, LatestSound
<1>2. HistoryTypeOK
  <2>1. memRows \subseteq Row /\ diskRows \subseteq Row
    BY DEF HistoryInv, TablesOK, Table
  <2>2. \A S \in {memRows, diskRows} : \A r, s \in S : RowKey(r) = RowKey(s) => r = s
    BY DEF HistoryInv, TablesOK, Table
  <2>3. query.pc \in {"idle", "disk", "done"} /\ query.ans \in Seq(Row) /\ query.memRows \in Seq(Row)
    BY <1>1 DEF QueryAt
  <2>4. latest.pc \in {"idle", "disk", "done"} /\ latest.shown \subseteq Row
    BY <1>1 DEF LatestAt
  <2> QED BY <2>1, <2>2, <2>3, <2>4 DEF HistoryTypeOK, HistoryInv, TablesOK
<1>3. DOMAIN query.ans = 1 .. Len(query.ans)
  BY <1>1 DEF QueryAt
<1>4. AnswerOrdered
  BY <1>3 DEF AnswerOrdered, HistoryInv, QuerySound, Ordered, Split
<1>5. AnswerComplete
  BY DEF AnswerComplete, HistoryInv, QuerySound, Complete, Split
<1>6. LatestIsNewest
  BY DEF LatestIsNewest, HistoryInv, LatestSound, Shows
<1> QED BY <1>2, <1>4, <1>5, <1>6 DEF AnswersSound

LEMMA KeysAre ==
    /\ \A r \in Row : RowKey(r) \in FieldSecond /\ RowKey(r)[1] = r.f /\ RowKey(r)[2] = r.t
    /\ \A S : \A k \in Keys(S) : \E r \in S : RowKey(r) = k
    /\ \A S, T : S \subseteq T => Keys(S) \subseteq Keys(T)
<1>1. \A r \in Row : r.f \in Field /\ r.t \in Nat
  BY HistoryBounds
<1>2. \A r \in Row : RowKey(r) \in FieldSecond /\ RowKey(r)[1] = r.f /\ RowKey(r)[2] = r.t
  BY <1>1 DEF RowKey, FieldSecond
<1>3. \A S : \A k \in Keys(S) : \E r \in S : RowKey(r) = k
  BY DEF Keys
<1>4. \A S, T : S \subseteq T => Keys(S) \subseteq Keys(T)
  BY DEF Keys
<1> QED BY <1>2, <1>3, <1>4

LEMMA KeysOfRows == ASSUME NEW S, S \subseteq Row PROVE Keys(S) \subseteq FieldSecond
BY KeysAre

-----------------------------------------------------------------------------
(* Initially.                                                               *)

LEMMA HistoryInvInit == HistoryInit => HistoryInv
<1> SUFFICES ASSUME HistoryInit PROVE HistoryInv
  OBVIOUS
<1>1. PICK F \in SUBSET Field : diskRows = {[f |-> f, t |-> 0, v |-> 0] : f \in F}
  BY DEF HistoryInit
<1>2. MaxSecond \in Nat /\ MaxSecond >= 1 /\ MaxWrites \in Nat /\ MaxQueries \in Nat /\ MaxDeletes \in Nat
  BY HistoryBounds
<1>3. diskRows \subseteq Row
  BY <1>1, <1>2 DEF Row
<1>4. IsFiniteSet(diskRows)
  <2> DEFINE g == [f \in F |-> [f |-> f, t |-> 0, v |-> 0]]
  <2>1. IsFiniteSet(F)
    BY HistoryBounds, FS_Subset
  <2>2. g \in [F -> diskRows]
    BY <1>1
  <2>3. \A d \in diskRows : \E f \in F : g[f] = d
    BY <1>1
  <2>4. g \in Surjection(F, diskRows)
    BY <2>2, <2>3 DEF Surjection
  <2> HIDE DEF g
  <2> QED BY <2>1, <2>4, FS_Surjection
<1>5. \A r, s \in diskRows : RowKey(r) = RowKey(s) => r = s
  BY <1>1 DEF RowKey
<1>6. Table(diskRows)
  BY <1>3, <1>4, <1>5 DEF Table
<1>7. Table({})
  BY FS_EmptySet DEF Table
<1>8. \A r \in diskRows : r.t = 0
  BY <1>1
<1>9. TablesOK
  BY <1>2, <1>6, <1>7, <1>8 DEF TablesOK, HistoryInit
<1>10. DiskOlder
  BY DEF DiskOlder, HistoryInit
<1>11. query \in QueryAt /\ query.pc = "idle" /\ query.ans = <<>> /\ Len(query.ans) = 0
  BY DEF HistoryInit, NoQuery, QueryAt
<1>12. QuerySound(query, diskRows)
  BY <1>11 DEF QuerySound, Ordered
<1>13. latest \in LatestAt /\ latest.pc = "idle"
  BY DEF HistoryInit, NoLatest, LatestAt
<1>14. LatestSound(latest, diskRows)
  BY <1>13 DEF LatestSound
<1> QED BY <1>9, <1>10, <1>12, <1>14 DEF HistoryInv

-----------------------------------------------------------------------------
(* What is written meanwhile.                                               *)

\* A query that has less to name, all of which is still on disk if it was,
\* stays as sound as it was.
LEMMA QueryStays ==
    ASSUME NEW q, NEW D, QuerySound(q, D), NEW M, M \subseteq q.must, NEW E,
           \A k \in M : k \in Keys(D) => k \in Keys(E)
    PROVE  QuerySound([q EXCEPT !.must = M], E)
<1> DEFINE w == [q EXCEPT !.must = M]
<1>1. q \in QueryAt
  BY DEF QuerySound
<1>2. /\ w \in QueryAt /\ w.pc = q.pc /\ w.kind = q.kind /\ w.fields = q.fields /\ w.from = q.from
      /\ w.limit = q.limit /\ w.memRows = q.memRows /\ w.must = M /\ w.ans = q.ans
  BY <1>1 DEF QueryAt
<1> HIDE DEF w
<1>3. OldestCollectedAt(w) = OldestCollectedAt(q)
  BY <1>2 DEF OldestCollectedAt
<1>4. Ordered(w)
  BY <1>2, <1>3 DEF QuerySound, Ordered
<1>5. ASSUME w.pc = "disk" PROVE AtDisk(w, E)
  <2>1. AtDisk(q, D)
    BY <1>2, <1>5 DEF QuerySound
  <2> QED BY <1>2, <1>3, <2>1 DEF AtDisk
<1>6. ASSUME w.pc = "done" PROVE Complete(w)
  <2>1. Complete(q)
    BY <1>2, <1>6 DEF QuerySound
  <2> QED BY <1>2, <1>3, <2>1 DEF Complete
<1>7. QuerySound(w, E)
  BY <1>2, <1>4, <1>5, <1>6 DEF QuerySound
<1> QED BY <1>7 DEF w

LEMMA LatestStays ==
    ASSUME NEW l, NEW D, LatestSound(l, D), NEW M, M \subseteq l.must, NEW E,
           \A k \in M : k \in Keys(D) => k \in Keys(E)
    PROVE  LatestSound([l EXCEPT !.must = M], E)
<1> DEFINE w == [l EXCEPT !.must = M]
<1>1. l \in LatestAt
  BY DEF LatestSound
<1>2. w \in LatestAt /\ w.pc = l.pc /\ w.shown = l.shown /\ w.must = M
  BY <1>1 DEF LatestAt
<1> HIDE DEF w
<1>3. \A k : Shows(w, k) <=> Shows(l, k)
  BY <1>2 DEF Shows
<1>4. LatestSound(w, E)
  BY <1>2, <1>3 DEF LatestSound
<1> QED BY <1>4 DEF w

LEMMA BothStay ==
    ASSUME HistoryInv, query' = query, latest' = latest, Keys(diskRows) \subseteq Keys(diskRows')
    PROVE  QuerySound(query, diskRows)' /\ LatestSound(latest, diskRows)'
<1>1. query \in QueryAt /\ latest \in LatestAt
  BY DEF HistoryInv, QuerySound, LatestSound
<1>2. query' = [query EXCEPT !.must = query.must]
  BY <1>1 DEF QueryAt
<1>3. latest' = [latest EXCEPT !.must = latest.must]
  BY <1>1 DEF LatestAt
<1>4. QuerySound(query', diskRows')
  BY <1>2, QueryStays DEF HistoryInv
<1>5. LatestSound(latest', diskRows')
  BY <1>3, LatestStays DEF HistoryInv
<1> QED BY <1>4, <1>5

LEMMA BothForget ==
    ASSUME HistoryInv, NEW f, Forget(f), \A k \in Keys(diskRows) : k[1] # f => k \in Keys(diskRows')
    PROVE  QuerySound(query, diskRows)' /\ LatestSound(latest, diskRows)'
<1> DEFINE M == {k \in query.must : k[1] # f}
           L == {k \in latest.must : k[1] # f}
<1>1. query' = [query EXCEPT !.must = M] /\ latest' = [latest EXCEPT !.must = L]
  BY DEF Forget
<1>2. M \subseteq query.must /\ L \subseteq latest.must
  OBVIOUS
<1>3. \A k \in M \cup L : k \in Keys(diskRows) => k \in Keys(diskRows')
  OBVIOUS
<1> HIDE DEF M, L
<1>4. QuerySound(query', diskRows')
  BY <1>1, <1>2, <1>3, QueryStays DEF HistoryInv
<1>5. LatestSound(latest', diskRows')
  BY <1>1, <1>2, <1>3, LatestStays DEF HistoryInv
<1> QED BY <1>4, <1>5

-----------------------------------------------------------------------------
LEMMA TablesAre ==
    ASSUME HistoryInv
    PROVE  /\ Table(memRows) /\ Table(diskRows) /\ syncing \subseteq Row /\ cacheRows \subseteq Row
           /\ \A r, s \in cacheRows : r.f = s.f => r = s
           /\ deleting \subseteq Field /\ second \in Nat /\ second <= MaxSecond
           /\ \A r \in memRows \cup diskRows : r \in Row /\ r.t \in Nat /\ r.t <= second
<1>1. /\ Table(memRows) /\ Table(diskRows) /\ syncing \subseteq Row /\ cacheRows \subseteq Row
      /\ \A r, s \in cacheRows : r.f = s.f => r = s
      /\ deleting \subseteq Field /\ second \in 1 .. MaxSecond
      /\ \A r \in memRows \cup diskRows : r.t <= second
  BY DEF HistoryInv, TablesOK
<1>2. second \in Nat /\ second <= MaxSecond
  BY <1>1, HistoryBounds
<1>3. \A r \in memRows \cup diskRows : r \in Row /\ r.t \in Nat
  BY <1>1, HistoryBounds DEF Table
<1> QED BY <1>1, <1>2, <1>3

LEMMA SmallerTable == ASSUME NEW S, Table(S), NEW T, T \subseteq S PROVE Table(T)
BY FS_Subset DEF Table

\* A row in the place of one with its key.
LEMMA ReplacedTable ==
    ASSUME NEW S, Table(S), NEW r \in Row
    PROVE  LET T == Replaced(S, {x \in S : RowKey(x) = RowKey(r)}, r) IN
           /\ Table(T) /\ r \in T /\ Keys(S) \subseteq Keys(T) /\ \A x \in T : x = r \/ x \in S
<1> DEFINE U == {x \in S : RowKey(x) # RowKey(r)}
           T == Replaced(S, {x \in S : RowKey(x) = RowKey(r)}, r)
<1>1. T = U \cup {r}
  BY DEF Replaced
<1>2. Table(U)
  BY SmallerTable
<1>3. IsFiniteSet(T)
  BY <1>1, <1>2, FS_AddElement DEF Table
<1>4. T \subseteq Row /\ \A x, y \in T : RowKey(x) = RowKey(y) => x = y
  BY <1>1, <1>2 DEF Table
<1>5. Keys(S) \subseteq Keys(T)
  BY <1>1 DEF Keys
<1> QED BY <1>1, <1>3, <1>4, <1>5 DEF Table

LEMMA CollectSafe == ASSUME HistoryInv, NEW f \in Field, NEW isStored, Collect(f, isStored) PROVE HistoryInv'
<1> DEFINE r == [f |-> f, t |-> second, v |-> writes + 1]
           T == Replaced(memRows, {x \in memRows : RowKey(x) = RowKey(r)}, r)
           C == Replaced(cacheRows, {x \in cacheRows : x.f = f}, r)
<1>1. /\ writes < MaxWrites /\ writes' = writes + 1
      /\ memRows' = IF isStored THEN T ELSE memRows
      /\ cacheRows' \in Trimmed(C)
      /\ UNCHANGED <<diskRows, second, queries, syncing, deleting, deletes, query, latest>>
  BY DEF Collect
<1>2. writes \in 0 .. MaxWrites /\ MaxWrites \in Nat /\ MaxSecond \in Nat /\ second \in 1 .. MaxSecond
  BY HistoryBounds DEF HistoryInv, TablesOK
<1>3. r \in Row /\ r.t = second /\ r.f = f
  BY <1>1, <1>2 DEF Row
<1>4. Table(T) /\ r \in T /\ Keys(memRows) \subseteq Keys(T) /\ \A x \in T : x = r \/ x \in memRows
  BY <1>3, TablesAre, ReplacedTable
<1>5. C \subseteq Row /\ \A x, y \in C : x.f = y.f => x = y
  <2>1. \A x \in C : x = r \/ (x \in cacheRows /\ x.f # f)
    BY DEF Replaced
  <2> HIDE DEF C
  <2> QED BY <1>3, <2>1, TablesAre
<1>6. cacheRows' \subseteq C
  <2> HIDE DEF C
  <2>1. \A S \in Trimmed(C) : S \subseteq C
    BY DEF Trimmed
  <2> QED BY <1>1, <2>1
<1> HIDE DEF r, T, C
<1>7. Table(memRows') /\ Keys(memRows) \subseteq Keys(memRows') /\ \A x \in memRows' : x = r \/ x \in memRows
  BY <1>1, <1>4, TablesAre
<1>8. \A x \in memRows' \cup diskRows' : x.t <= second'
  BY <1>1, <1>2, <1>3, <1>7, TablesAre
<1>9. TablesOK'
  <2>1. writes' \in 0 .. MaxWrites
    BY <1>1, <1>2
  <2>2. cacheRows' \subseteq Row /\ \A x, y \in cacheRows' : x.f = y.f => x = y
    BY <1>5, <1>6
  <2> QED BY <1>1, <1>7, <1>8, <2>1, <2>2 DEF TablesOK, HistoryInv
<1>10. \A d \in diskRows : d.t <= r.t
  BY <1>3, TablesAre
<1>11. DiskOlder'
  BY <1>1, <1>7, <1>10 DEF DiskOlder, HistoryInv
<1>12. QuerySound(query, diskRows)' /\ LatestSound(latest, diskRows)'
  BY <1>1, BothStay
<1> QED BY <1>9, <1>11, <1>12 DEF HistoryInv

LEMMA SecondSafe == ASSUME HistoryInv, SecondPasses PROVE HistoryInv'
<1>1. second < MaxSecond /\ second' = second + 1 /\ second \in 1 .. MaxSecond /\ MaxSecond \in Nat
  BY HistoryBounds DEF SecondPasses, HistoryInv, TablesOK
<1>2. /\ memRows' = memRows /\ diskRows' = diskRows /\ cacheRows' = cacheRows /\ syncing' = syncing
      /\ deleting' = deleting /\ writes' = writes /\ queries' = queries /\ deletes' = deletes
      /\ query' = query /\ latest' = latest
  BY DEF SecondPasses
<1>3. second' \in 1 .. MaxSecond
  BY <1>1
<1>4. \A r \in memRows' \cup diskRows' : r.t <= second'
  BY <1>1, <1>2, TablesAre
<1>5. TablesOK'
  BY <1>2, <1>3, <1>4 DEF TablesOK, HistoryInv
<1>6. DiskOlder'
  BY <1>2 DEF DiskOlder, HistoryInv
<1> QED BY <1>2, <1>5, <1>6, BothStay DEF HistoryInv

LEMMA SyncSafe == ASSUME HistoryInv, SyncToDisk PROVE HistoryInv'
<1> DEFINE N == {r \in memRows : RowKey(r) \notin Keys(diskRows)}
<1>1. /\ diskRows' = diskRows \cup N /\ syncing' = memRows /\ memRows' = memRows
      /\ UNCHANGED <<cacheRows, second, writes, queries, deleting, deletes, query, latest>>
  BY DEF SyncToDisk
<1>2. Table(memRows) /\ Table(diskRows)
  BY TablesAre
<1>3. IsFiniteSet(diskRows')
  <2>1. Table(N)
    BY <1>2, SmallerTable
  <2> QED BY <1>1, <1>2, <2>1, FS_Union DEF Table
<1>4. diskRows' \subseteq Row /\ \A r, s \in diskRows' : RowKey(r) = RowKey(s) => r = s
  BY <1>1, <1>2 DEF Table, Keys
<1>5. Table(diskRows')
  BY <1>3, <1>4 DEF Table
<1>6. \A r \in diskRows' : r \in diskRows \/ r \in memRows
  BY <1>1
<1>7. TablesOK'
  BY <1>1, <1>2, <1>5, <1>6 DEF TablesOK, HistoryInv, Table
<1>8. DiskOlder'
  <2>1. \A r \in memRows : RowKey(r) \in Keys(memRows)
    BY DEF Keys
  <2>2. memRows' \ syncing' = {}
    BY <1>1
  <2> HIDE DEF N
  <2>3. \A d \in diskRows', m \in memRows' : d.t <= m.t \/ RowKey(d) \in Keys(memRows') \/ d.f \in deleting'
    BY <1>1, <1>6, <2>1 DEF DiskOlder, HistoryInv
  <2> QED BY <2>2, <2>3 DEF DiskOlder
<1>9. Keys(diskRows) \subseteq Keys(diskRows')
  BY <1>1 DEF Keys
<1>10. QuerySound(query, diskRows)' /\ LatestSound(latest, diskRows)'
  BY <1>1, <1>9, BothStay
<1> QED BY <1>7, <1>8, <1>10 DEF HistoryInv

LEMMA SyncedSafe == ASSUME HistoryInv, SyncFromMemory PROVE HistoryInv'
<1>1. /\ syncing # {} /\ memRows' = memRows \ syncing /\ syncing' = {} /\ diskRows' = diskRows
      /\ cacheRows' = cacheRows /\ second' = second /\ writes' = writes /\ queries' = queries
      /\ deleting' = deleting /\ deletes' = deletes /\ query' = query /\ latest' = latest
  BY DEF SyncFromMemory
<1>2. Table(memRows')
  BY <1>1, TablesAre, SmallerTable
<1>3. TablesOK'
  BY <1>1, <1>2 DEF TablesOK, HistoryInv
<1>4. DiskOlder'
  BY <1>1 DEF DiskOlder, HistoryInv
<1> QED BY <1>1, <1>3, <1>4, BothStay DEF HistoryInv

LEMMA DeleteInMemorySafe == ASSUME HistoryInv, NEW f \in Field, DeleteInMemory(f) PROVE HistoryInv'
<1>1. /\ deleting' = deleting \cup {f} /\ deletes < MaxDeletes /\ deletes' = deletes + 1
      /\ memRows' = Without(memRows, f) /\ Forget(f) /\ diskRows' = diskRows /\ syncing' = syncing
      /\ cacheRows' = cacheRows /\ second' = second /\ writes' = writes /\ queries' = queries
  BY DEF DeleteInMemory
<1>2. memRows' \subseteq memRows /\ \A r \in memRows : r.f # f => r \in memRows'
  BY <1>1 DEF Without
<1>3. Table(memRows')
  BY <1>2, TablesAre, SmallerTable
<1>4. deletes' \in 0 .. MaxDeletes
  BY <1>1, HistoryBounds DEF TablesOK, HistoryInv
<1>5. TablesOK'
  BY <1>1, <1>2, <1>3, <1>4 DEF TablesOK, HistoryInv
<1>6. ASSUME NEW d \in diskRows, RowKey(d) \in Keys(memRows) PROVE RowKey(d) \in Keys(memRows') \/ d.f = f
  <2>1. PICK r \in memRows : RowKey(r) = RowKey(d)
    BY <1>6 DEF Keys
  <2>2. r.f = d.f
    BY <2>1 DEF RowKey
  <2> QED BY <1>2, <2>1, <2>2 DEF Keys
<1>7. DiskOlder'
  BY <1>1, <1>2, <1>6 DEF DiskOlder, HistoryInv
<1>8. QuerySound(query, diskRows)' /\ LatestSound(latest, diskRows)'
  BY <1>1, BothForget
<1> QED BY <1>5, <1>7, <1>8 DEF HistoryInv

LEMMA DeleteOnDiskSafe == ASSUME HistoryInv, NEW f \in Field, DeleteOnDisk(f) PROVE HistoryInv'
<1>1. /\ deleting' = deleting \ {f} /\ diskRows' = Without(diskRows, f) /\ Forget(f)
      /\ memRows' = memRows /\ syncing' = syncing /\ cacheRows' = cacheRows /\ second' = second
      /\ writes' = writes /\ queries' = queries /\ deletes' = deletes
  BY DEF DeleteOnDisk
<1>2. \A d \in diskRows' : d \in diskRows /\ d.f # f
  BY <1>1 DEF Without
<1>3. Table(diskRows')
  BY <1>2, TablesAre, SmallerTable
<1>4. TablesOK'
  BY <1>1, <1>2, <1>3 DEF TablesOK, HistoryInv
<1>5. DiskOlder'
  BY <1>1, <1>2 DEF DiskOlder, HistoryInv
<1>6. \A k \in Keys(diskRows) : k[1] # f => k \in Keys(diskRows')
  <2> SUFFICES ASSUME NEW k \in Keys(diskRows), k[1] # f PROVE k \in Keys(diskRows')
    OBVIOUS
  <2>1. PICK d \in diskRows : RowKey(d) = k
    BY DEF Keys
  <2>2. d.f # f
    BY <2>1 DEF RowKey
  <2> QED BY <1>1, <2>1, <2>2 DEF Keys, Without
<1>7. QuerySound(query, diskRows)' /\ LatestSound(latest, diskRows)'
  BY <1>1, <1>6, BothForget
<1> QED BY <1>4, <1>5, <1>7 DEF HistoryInv

-----------------------------------------------------------------------------
(* The queries.                                                             *)

OfQuery(S, q) == {r \in S : r.f \in q.fields /\ r.t >= q.from}

LEMMA SelectedGives ==
    ASSUME NEW S, Table(S), NEW q, q.limit \in Nat \ {0}
    PROVE  Given(Selected(S, q), OfQuery(S, q), q.limit)
<1>1. Table(OfQuery(S, q))
  BY SmallerTable DEF OfQuery
<1>2. Listed(NewestFirst(OfQuery(S, q)), OfQuery(S, q))
  BY <1>1, NewestFirstLists
<1> DEFINE s == NewestFirst(OfQuery(S, q))
<1> HIDE DEF s
<1>3. Given(FirstRows(s, q.limit), OfQuery(S, q), q.limit)
  BY <1>1, <1>2, FirstRowsGive DEF s
<1>4. Selected(S, q) = FirstRows(s, q.limit)
  BY DEF Selected, OfQuery, s
<1> QED BY <1>3, <1>4

\* The tables as they were, a query more.
LEMMA TablesStay ==
    ASSUME HistoryInv,
           UNCHANGED <<memRows, diskRows, cacheRows, second, writes, syncing, deleting, deletes>>,
           queries' = queries \/ (queries < MaxQueries /\ queries' = queries + 1)
    PROVE  TablesOK' /\ DiskOlder'
<1>1. queries' \in 0 .. MaxQueries
  BY HistoryBounds DEF HistoryInv, TablesOK
<1>2. TablesOK'
  BY <1>1 DEF HistoryInv, TablesOK
<1>3. DiskOlder'
  BY DEF HistoryInv, DiskOlder
<1> QED BY <1>2, <1>3

LEMMA LatestStaysSound ==
    ASSUME HistoryInv, latest' = latest, diskRows' = diskRows
    PROVE  LatestSound(latest, diskRows)'
BY DEF HistoryInv

LEMMA QueryStaysSound ==
    ASSUME HistoryInv, query' = query, diskRows' = diskRows
    PROVE  QuerySound(query, diskRows)'
BY DEF HistoryInv

\* The keys a query must name.
Musts(fields, from) == {k \in Keys(memRows \cup diskRows) : k[1] \in fields \ deleting /\ k[2] >= from}

LEMMA MustsAre ==
    ASSUME HistoryInv, NEW fields, NEW from, NEW k \in Musts(fields, from)
    PROVE  /\ k \in FieldSecond /\ k[1] \in fields /\ k[2] \in Nat /\ k[2] >= from
           /\ \/ \E r \in memRows : r \in Row /\ RowKey(r) = k /\ r.f = k[1] /\ r.t = k[2]
              \/ k \in Keys(diskRows) /\ \A m \in memRows : k[2] <= m.t
<1>1. PICK r \in memRows \cup diskRows : RowKey(r) = k
  BY DEF Musts, Keys
<1>2. r \in Row /\ RowKey(r) \in FieldSecond /\ r.f = k[1] /\ r.t = k[2] /\ r.t \in Nat
  BY <1>1, TablesAre, KeysAre
<1>3. k[1] \in fields /\ k[1] \notin deleting /\ k[2] >= from
  BY DEF Musts
<1>4. CASE RowKey(r) \in Keys(memRows)
  <2>1. PICK m \in memRows : RowKey(m) = k
    BY <1>1, <1>4 DEF Keys
  <2>2. m \in Row /\ m.f = k[1] /\ m.t = k[2]
    BY <2>1, TablesAre, KeysAre
  <2> QED BY <1>1, <1>2, <1>3, <2>1, <2>2
<1>5. CASE RowKey(r) \notin Keys(memRows)
  <2>1. r \notin memRows
    BY <1>5 DEF Keys
  <2>2. r \in diskRows /\ k \in Keys(diskRows)
    BY <1>1, <2>1 DEF Keys
  <2>3. \A m \in memRows : r.t <= m.t
    BY <1>2, <1>3, <1>5, <2>2 DEF HistoryInv, DiskOlder
  <2> QED BY <1>1, <1>2, <1>3, <2>2, <2>3
<1> QED BY <1>4, <1>5

Begun(q, kind, fields, from, limit, u) ==
    /\ q \in QueryAt /\ q.pc = "disk" /\ q.kind = kind /\ q.fields = fields /\ q.from = from
    /\ q.limit = limit /\ q.memRows = u /\ q.must = Musts(fields, from) /\ q.ans = <<>>

\* Memory first: what it gives, u, has what the query must name of it.
LEMMA BeginSound ==
    ASSUME HistoryInv, NEW kind \in {"device", "range"}, NEW fields \in SUBSET Field,
           NEW from \in Nat, NEW limit \in Nat \ {0}, NEW u,
           NEW S, Given(u, S, limit), S = {r \in memRows : r.f \in fields /\ r.t >= from},
           NEW q, Begun(q, kind, fields, from, limit, u)
    PROVE  /\ Len(u) < limit => QuerySound(q, diskRows)
           /\ ~(Len(u) < limit) => QuerySound([q EXCEPT !.pc = "done", !.ans = u], diskRows)
<1>1. /\ u \in Seq(Row) /\ Len(u) <= limit /\ Len(u) \in Nat /\ Descending(u) /\ Distinct(u)
      /\ \A i \in 1 .. Len(u) : u[i] \in memRows /\ u[i] \in Row /\ u[i].t \in Nat
  <2>1. u \in Seq(Row) /\ \A i \in 1 .. Len(u) : u[i] \in memRows
    BY DEF Given
  <2> QED BY <2>1, RowsTimed DEF Given
<1>3. \A i \in 1 .. Len(u) : RowKey(u[i]) \in Keys(ToSet(u))
  <2>1. DOMAIN u = 1 .. Len(u)
    BY <1>1
  <2> QED BY <2>1 DEF Keys, ToSet
<1>4. ASSUME NEW k \in Musts(fields, from)
      PROVE  \/ k \in Keys(ToSet(u))
             \/ Len(u) = limit /\ k[2] <= u[limit].t
             \/ k \in Keys(diskRows) /\ \A m \in memRows : k[2] <= m.t
  <2>1. k[1] \in fields /\ k[2] >= from
    BY MustsAre
  <2>2. CASE \E r \in memRows : r \in Row /\ RowKey(r) = k /\ r.f = k[1] /\ r.t = k[2]
    <3>1. PICK r \in memRows : RowKey(r) = k /\ r.f = k[1] /\ r.t = k[2]
      BY <2>2
    <3>2. (\E i \in 1 .. Len(u) : u[i] = r) \/ (Len(u) = limit /\ r.t <= u[limit].t)
      BY <2>1, <3>1 DEF Given
    <3> QED BY <1>3, <3>1, <3>2
  <2>3. CASE k \in Keys(diskRows) /\ \A m \in memRows : k[2] <= m.t
    BY <2>3
  <2> QED BY <2>2, <2>3, MustsAre
<1>5. ASSUME Len(u) < limit PROVE QuerySound(q, diskRows)
  <2>2. /\ q \in QueryAt /\ q.pc = "disk" /\ q.ans = <<>> /\ q.memRows = u
        /\ q.fields = fields /\ q.from = from /\ q.limit = limit /\ q.must = Musts(fields, from)
    BY DEF Begun
  <2>3. Ordered(q)
    BY <2>2 DEF Ordered
  <2>4. ASSUME NEW k \in Musts(fields, from), k \notin Keys(ToSet(u)), u # <<>>
        PROVE  k[2] <= OldestCollectedAt(q)
    <3>1. Len(u) \in 1 .. Len(u)
      BY <1>1, <2>4
    <3>2. u[Len(u)] \in memRows
      BY <1>1, <3>1
    <3>3. \A m \in memRows : k[2] <= m.t
      BY <1>1, <1>4, <1>5, <2>4
    <3> QED BY <2>2, <3>2, <3>3 DEF OldestCollectedAt
  <2>5. ASSUME NEW k \in Musts(fields, from)
        PROVE  k[1] \in fields /\ k[2] >= from /\ (k \in Keys(ToSet(u)) \/ k \in Keys(diskRows))
    BY <1>1, <1>4, <1>5, MustsAre
  <2> HIDE DEF Musts
  <2>6. AtDisk(q, diskRows)
    BY <1>1, <1>5, <2>2, <2>4, <2>5 DEF AtDisk
  <2> QED BY <2>2, <2>3, <2>6 DEF QuerySound
<1>6. ASSUME ~(Len(u) < limit) PROVE QuerySound([q EXCEPT !.pc = "done", !.ans = u], diskRows)
  <2> DEFINE w == [q EXCEPT !.pc = "done", !.ans = u]
  <2>1. w \in QueryAt
    BY <1>1 DEF Begun, QueryAt
  <2>2. w.pc = "done" /\ w.ans = u /\ w.memRows = u /\ w.limit = limit /\ w.must = Musts(fields, from)
    BY DEF Begun, QueryAt
  <2> HIDE DEF w
  <2>3. Ordered(w)
    BY <2>2, <1>1 DEF Ordered, Descending, Distinct
  <2>4. Len(u) = limit /\ limit \in 1 .. Len(u)
    BY <1>1, <1>6
  <2>5. \A k \in Musts(fields, from) : k \in Keys(ToSet(u)) \/ k[2] <= u[limit].t
    BY <1>1, <1>4, <2>4
  <2>6. Complete(w)
    BY <2>2, <2>4, <2>5 DEF Complete
  <2>7. QuerySound(w, diskRows)
    BY <2>1, <2>2, <2>3, <2>6 DEF QuerySound
  <2> QED BY <2>7 DEF w
<1> QED BY <1>5, <1>6

LEMMA BeginQuerySafe ==
    ASSUME HistoryInv, NEW kind \in {"device", "range"}, NEW fields \in Asked, NEW from \in 0 .. 1,
           NEW limit \in RowLimit, BeginQuery(kind, fields, from, limit)
    PROVE  HistoryInv'
<1> DEFINE asked == [NoQuery EXCEPT !.pc = "disk", !.kind = kind, !.fields = fields,
                       !.from = from, !.limit = limit]
           must == {k \in Keys(memRows \cup diskRows) : k[1] \in fields \ deleting /\ k[2] >= from}
           u == Selected(memRows, asked)
           q == [asked EXCEPT !.memRows = u, !.must = must]
<1>1. /\ queries < MaxQueries /\ queries' = queries + 1
      /\ IF Len(q.memRows) >= limit THEN query' = [q EXCEPT !.pc = "done", !.ans = q.memRows] ELSE query' = q
      /\ UNCHANGED <<memRows, diskRows, cacheRows, second, writes, syncing, deleting, deletes, latest>>
  BY DEF BeginQuery, Answer
<1>2. fields \in SUBSET Field /\ limit \in Nat \ {0} /\ from \in Nat
  BY HistoryBounds
<1>3. /\ asked \in QueryAt /\ asked.pc = "disk" /\ asked.kind = kind /\ asked.fields = fields
      /\ asked.from = from /\ asked.limit = limit /\ asked.ans = <<>>
  <2>1. NoQuery \in QueryAt /\ NoQuery.ans = <<>>
    BY DEF NoQuery, QueryAt
  <2> QED BY <1>2, <2>1 DEF QueryAt
<1> HIDE DEF asked
<1>4. Given(u, OfQuery(memRows, asked), limit)
  BY <1>2, <1>3, SelectedGives, TablesAre
<1> DEFINE S == OfQuery(memRows, asked)
<1>11. S = {r \in memRows : r.f \in fields /\ r.t >= from}
  BY <1>3 DEF OfQuery
<1> HIDE DEF S
<1> HIDE DEF u
<1>5. must = Musts(fields, from) /\ must \in SUBSET FieldSecond
  <2>1. must = Musts(fields, from)
    BY DEF Musts
  <2> HIDE DEF must
  <2> QED BY <2>1, MustsAre
<1> HIDE DEF must
<1>6. u \in Seq(Row)
  BY <1>4 DEF Given
<1>7. /\ q \in QueryAt /\ q.pc = "disk" /\ q.kind = kind /\ q.fields = fields /\ q.from = from
      /\ q.limit = limit /\ q.memRows = u /\ q.must = must /\ q.ans = <<>>
  BY <1>3, <1>5, <1>6 DEF QueryAt
<1>8. q.memRows = u
  BY <1>7
<1> HIDE DEF q
<1>9. /\ Len(u) < limit => QuerySound(q, diskRows)
      /\ ~(Len(u) < limit) => QuerySound([q EXCEPT !.pc = "done", !.ans = u], diskRows)
  <2>1. Begun(q, kind, fields, from, limit, u)
    BY <1>5, <1>7 DEF Begun
  <2>2. Given(u, S, limit)
    BY <1>4 DEF S
  <2> QED BY <1>2, <1>11, <2>1, <2>2, BeginSound
<1>10. Len(u) \in Nat
  BY <1>6, RowsTimed DEF Given
<1>14. QuerySound(query, diskRows)'
  <2>1. CASE Len(u) >= limit
    BY <1>1, <1>2, <1>8, <1>9, <1>10, <2>1
  <2>2. CASE ~(Len(u) >= limit)
    BY <1>1, <1>2, <1>8, <1>9, <1>10, <2>2
  <2> QED BY <2>1, <2>2
<1>12. TablesOK' /\ DiskOlder'
  BY <1>1, TablesStay
<1>13. LatestSound(latest, diskRows)'
  BY <1>1, LatestStaysSound
<1> QED BY <1>14, <1>12, <1>13 DEF HistoryInv

\* Then the disk: s is what it gives.
LEMMA FinishSound ==
    ASSUME NEW q, NEW D, QuerySound(q, D), q.pc = "disk", NEW S,
           \A d \in D : \/ d \in S
                        \/ d.f \notin q.fields \/ ~(d.t >= q.from)
                        \/ (q.kind = "device" /\ q.memRows # <<>> /\ ~(d.t < OldestCollectedAt(q))),
           D \subseteq Row, NEW s, Given(s, S, q.limit), NEW a, Answers(a, q.memRows, s, q.limit)
    PROVE  QuerySound([q EXCEPT !.pc = "done", !.ans = a], D)
<1> DEFINE w == [q EXCEPT !.pc = "done", !.ans = a]
           p == q.memRows
           n == q.limit
<1>1. q \in QueryAt /\ AtDisk(q, D)
  BY DEF QuerySound
<1>2. a \in Seq(Row) /\ p \in Seq(Row) /\ s \in Seq(Row) /\ n \in Nat /\ n >= 1
  BY <1>1 DEF QueryAt, Answers, Given
<1>3. /\ w \in QueryAt /\ w.pc = "done" /\ w.kind = q.kind /\ w.limit = n
      /\ w.memRows = p /\ w.must = q.must /\ w.ans = a
  BY <1>1, <1>2 DEF QueryAt
<1>4. OldestCollectedAt(q) = p[Len(p)].t /\ OldestCollectedAt(w) = p[Len(p)].t
  BY <1>3 DEF OldestCollectedAt
<1>5. \A k \in q.must : k \in FieldSecond
  BY <1>1 DEF QueryAt
<1> HIDE DEF w
<1>6. Ordered(w)
  BY <1>3, <1>4 DEF Ordered, Answers, Descending
<1>7. ASSUME NEW r \in Row, Covers(a, n, r)
      PROVE  RowKey(r) \in Keys(ToSet(a)) \/ (Len(a) = n /\ RowKey(r)[2] <= a[n].t)
  BY <1>2, <1>7, HasKey, KeysAre DEF Covers
<1>8. ASSUME NEW k \in q.must
      PROVE  \/ k \in Keys(ToSet(a))
             \/ (Len(a) = n /\ k[2] <= a[n].t)
             \/ (q.kind = "device" /\ p # <<>> /\ k[2] = p[Len(p)].t)
  <2>1. /\ k[1] \in q.fields /\ k[2] >= q.from
        /\ \/ k \in Keys(ToSet(p))
           \/ k \in Keys(D) /\ (q.kind = "device" /\ p # <<>> => k[2] <= p[Len(p)].t)
    BY <1>1, <1>4 DEF AtDisk
  <2>2. CASE k \in Keys(ToSet(p))
    <3>1. PICK i \in 1 .. Len(p) : RowKey(p[i]) = k
      <4>1. DOMAIN p = 1 .. Len(p)
        BY <1>2
      <4> QED BY <2>2, <4>1 DEF Keys, ToSet
    <3>2. p[i] \in Row /\ Covers(a, n, p[i])
      BY <1>2, RowsTimed DEF Answers
    <3> QED BY <1>7, <3>1, <3>2
  <2>3. CASE k \in Keys(D) /\ (q.kind = "device" /\ p # <<>> => k[2] <= p[Len(p)].t)
    <3>1. PICK d \in D : RowKey(d) = k
      BY <2>3 DEF Keys
    <3>2. d \in Row /\ d.f = k[1] /\ d.t = k[2] /\ d.t \in Nat
      BY <3>1, KeysAre, HistoryBounds
    <3>3. CASE d \in S
      <4>1. CASE \E i \in 1 .. Len(s) : s[i] = d
        <5>1. PICK i \in 1 .. Len(s) : s[i] = d
          BY <4>1
        <5>2. Covers(a, n, d)
          BY <5>1 DEF Answers
        <5> QED BY <1>7, <3>1, <3>2, <5>2
      <4>2. CASE Len(s) = n /\ d.t <= s[n].t
        <5>1. Len(a) = n /\ s[n].t <= a[n].t
          BY <4>2 DEF Answers
        <5>2. n \in 1 .. Len(a) /\ n \in 1 .. Len(s)
          BY <1>2, <4>2, <5>1
        <5>3. a[n].t \in Nat /\ s[n].t \in Nat
          BY <1>2, <5>2, RowsTimed
        <5>4. d.t <= a[n].t
          BY <3>2, <4>2, <5>1, <5>3
        <5> QED BY <3>2, <5>1, <5>4
      <4> QED BY <3>3, <4>1, <4>2 DEF Given
    <3>4. CASE d \notin S
      <4>1. q.kind = "device" /\ p # <<>> /\ ~(d.t < p[Len(p)].t)
        BY <1>4, <2>1, <3>1, <3>2, <3>4
      <4>2. Len(p) \in 1 .. Len(p)
        BY <1>2, <4>1
      <4>3. p[Len(p)].t \in Nat
        BY <1>2, <4>2, RowsTimed
      <4> QED BY <2>3, <3>2, <4>1, <4>3
    <3> QED BY <3>3, <3>4
  <2> QED BY <2>1, <2>2, <2>3
<1>9. Complete(w)
  BY <1>3, <1>4, <1>8 DEF Complete
<1>10. QuerySound(w, D)
  BY <1>3, <1>6, <1>9 DEF QuerySound
<1> QED BY <1>10 DEF w

LEMMA FinishQuerySafe == ASSUME HistoryInv, FinishQuery PROVE HistoryInv'
<1> DEFINE S == IF query.kind = "device" /\ query.memRows # <<>>
                THEN {r \in diskRows : r.t < OldestCollectedAt(query)} ELSE diskRows
           s == FromDisk(query)
           p == query.memRows
           n == query.limit
           a == MergeDataPoints(p, s, n)
<1>1. /\ query.pc = "disk" /\ query' = [query EXCEPT !.pc = "done", !.ans = a]
      /\ UNCHANGED <<memRows, diskRows, cacheRows, second, writes, queries, syncing, deleting, deletes, latest>>
  BY DEF FinishQuery, Answer
<1>2. QuerySound(query, diskRows) /\ query \in QueryAt /\ AtDisk(query, diskRows)
  BY <1>1 DEF HistoryInv, QuerySound
<1>3. n \in Nat \ {0} /\ p \in Seq(Row)
  BY <1>2 DEF QueryAt
<1>4. Table(S) /\ diskRows \subseteq Row
  <2>1. S \subseteq diskRows
    OBVIOUS
  <2> QED BY <2>1, TablesAre, SmallerTable DEF Table
<1>5. s = Selected(S, query)
  BY DEF FromDisk
<1>6. \A d \in diskRows : \/ d \in OfQuery(S, query)
                          \/ d.f \notin query.fields \/ ~(d.t >= query.from)
                          \/ (query.kind = "device" /\ p # <<>> /\ ~(d.t < OldestCollectedAt(query)))
  BY DEF OfQuery
<1> HIDE DEF S, s
<1>7. Given(s, OfQuery(S, query), n)
  BY <1>3, <1>4, <1>5, SelectedGives
<1>8. Mergeable(p, s, n)
  BY <1>2, <1>3, <1>7 DEF Mergeable, Given, AtDisk
<1>9. Answers(a, p, s, n)
  BY <1>8, MergeAnswers
<1> HIDE DEF a
<1>10. QuerySound([query EXCEPT !.pc = "done", !.ans = a], diskRows)
  BY <1>1, <1>2, <1>4, <1>6, <1>7, <1>9, FinishSound
<1>11. QuerySound(query, diskRows)'
  BY <1>1, <1>10
<1>12. TablesOK' /\ DiskOlder'
  BY <1>1, TablesStay
<1>13. LatestSound(latest, diskRows)'
  BY <1>1, LatestStaysSound
<1> QED BY <1>11, <1>12, <1>13 DEF HistoryInv

-----------------------------------------------------------------------------
(* The latest values.                                                       *)

\* The newest row of a field, if it has one.
LEMMA NewestExists ==
    ASSUME NEW S, S \subseteq Row, NEW d \in S
    PROVE  \E x \in NewestOf(S) : x.f = d.f /\ x.t >= d.t
<1> DEFINE T == {y \in Nat : \E r \in S : r.f = d.f /\ y = MaxSecond - r.t}
<1>1. \A r \in S : r \in Row /\ r.t \in Nat /\ MaxSecond \in Nat /\ MaxSecond - r.t \in Nat
  BY HistoryBounds
<1>2. T \subseteq Nat /\ T # {}
  <2>1. MaxSecond - d.t \in T
    BY <1>1
  <2> QED BY <2>1
<1>3. PICK y \in T : \A u \in T : y <= u
  <2> HIDE DEF T
  <2> QED BY <1>2, MinExists
<1>4. PICK x \in S : x.f = d.f /\ y = MaxSecond - x.t
  OBVIOUS
<1>5. \A r \in S : r.f = d.f => MaxSecond - r.t \in T
  BY <1>1
<1> HIDE DEF T
<1>6. \A r \in S : r.f = d.f => r.t <= x.t
  BY <1>1, <1>3, <1>4, <1>5
<1>7. x \in NewestOf(S)
  BY <1>4, <1>6 DEF NewestOf
<1> QED BY <1>1, <1>4, <1>6, <1>7

LEMMA NewestOnce ==
    ASSUME NEW S, Table(S), NEW r \in NewestOf(S), NEW s \in NewestOf(S), r.f = s.f
    PROVE  r = s
<1>1. r \in S /\ s \in S /\ r.t <= s.t /\ s.t <= r.t
  BY DEF NewestOf
<1>2. r.t \in Nat /\ s.t \in Nat
  BY <1>1, HistoryBounds DEF Table
<1>3. RowKey(r) = RowKey(s)
  BY <1>1, <1>2 DEF RowKey
<1> QED BY <1>1, <1>3 DEF Table

\* What the answer shows is not older than what either part has.
LEMMA FresherShows ==
    ASSUME NEW S, NEW D, S \subseteq Row, D \subseteq Row,
           \A r, s \in S : r.f = s.f => r = s, \A r, s \in D : r.f = s.f => r = s
    PROVE  /\ Fresher(S, D) \subseteq Row
           /\ \A r, s \in Fresher(S, D) : r.f = s.f => r = s
           /\ \A r \in S \cup D : \E x \in Fresher(S, D) : x.f = r.f /\ x.t >= r.t
<1> DEFINE hidden(r) == \E x \in D : x.f = r.f /\ r.t <= x.t
           older(r) == \E x \in S : x.f = r.f /\ x.t > r.t
           F == Fresher(S, D)
<1>1. F = {r \in S : ~hidden(r)} \cup {r \in D : ~older(r)}
  BY DEF Fresher
<1>2. \A r \in S \cup D : r \in Row /\ r.t \in Nat
  BY HistoryBounds
<1>3. \A r \in F : (r \in S /\ ~hidden(r)) \/ (r \in D /\ ~older(r))
  BY <1>1
<1>4. \A r : (r \in S /\ ~hidden(r)) \/ (r \in D /\ ~older(r)) => r \in F
  BY <1>1
<1> HIDE DEF F
<1>5. ASSUME NEW r \in F, NEW s \in F, r.f = s.f PROVE r = s
  <2>1. CASE r \in S /\ s \in S
    BY <1>5, <2>1
  <2>2. CASE r \in D /\ s \in D
    BY <1>5, <2>2
  <2>3. CASE r \in S /\ ~hidden(r) /\ s \in D /\ ~older(s)
    BY <1>2, <1>5, <2>3
  <2>4. CASE r \in D /\ ~older(r) /\ s \in S /\ ~hidden(s)
    BY <1>2, <1>5, <2>4
  <2> QED BY <1>3, <2>1, <2>2, <2>3, <2>4
<1>6. ASSUME NEW r \in D PROVE \E x \in F : x.f = r.f /\ x.t >= r.t
  <2>1. CASE ~older(r)
    BY <1>2, <1>4, <2>1
  <2>2. CASE older(r)
    <3>1. PICK y \in S : y.f = r.f /\ y.t > r.t
      BY <2>2
    <3>2. ~hidden(y)
      <4> SUFFICES ASSUME NEW x \in D, x.f = y.f, y.t <= x.t PROVE FALSE
        OBVIOUS
      <4>1. x = r
        BY <3>1
      <4> QED BY <1>2, <3>1, <4>1
    <3>3. y \in F /\ y.t >= r.t
      BY <1>2, <1>4, <3>1, <3>2
    <3> QED BY <3>1, <3>3
  <2> QED BY <2>1, <2>2
<1>7. ASSUME NEW r \in S PROVE \E x \in F : x.f = r.f /\ x.t >= r.t
  <2>1. CASE ~hidden(r)
    BY <1>2, <1>4, <2>1
  <2>2. CASE hidden(r)
    <3>1. PICK d \in D : d.f = r.f /\ r.t <= d.t
      BY <2>2
    <3>2. PICK x \in F : x.f = d.f /\ x.t >= d.t
      BY <1>6, <3>1
    <3>3. x \in Row /\ x.t \in Nat
      BY <1>2, <1>3, <3>2
    <3>4. x.t >= r.t
      BY <1>2, <3>1, <3>2, <3>3
    <3> QED BY <3>1, <3>2, <3>4
  <2> QED BY <2>1, <2>2
<1>8. F \subseteq Row
  BY <1>2, <1>3
<1>9. \A r \in S \cup D : \E x \in F : x.f = r.f /\ x.t >= r.t
  BY <1>6, <1>7
<1>10. \A r, s \in F : r.f = s.f => r = s
  BY <1>5
<1> HIDE DEF hidden, older
<1> QED BY <1>8, <1>9, <1>10 DEF F

LEMMA BeginLatestSafe == ASSUME HistoryInv, BeginLatest PROVE HistoryInv'
<1> DEFINE S == IF cacheRows # {} THEN cacheRows ELSE NewestOf(memRows)
           D == {k \in Keys(NewestOf(diskRows)) : k[1] \notin deleting}
           l == [pc |-> "disk", shown |-> S, must |-> Keys(S) \cup D]
<1>1. /\ queries < MaxQueries /\ queries' = queries + 1 /\ latest' = l
      /\ UNCHANGED <<memRows, diskRows, cacheRows, second, writes, syncing, deleting, deletes, query>>
  BY DEF BeginLatest
<1>2. S \subseteq Row /\ \A r, s \in S : r.f = s.f => r = s
  <2>1. NewestOf(memRows) \subseteq Row /\ \A r, s \in NewestOf(memRows) : r.f = s.f => r = s
    BY TablesAre, NewestOnce DEF NewestOf, Table
  <2> QED BY <2>1, TablesAre
<1>3. D \subseteq Keys(diskRows)
  <2>1. NewestOf(diskRows) \subseteq diskRows
    BY DEF NewestOf
  <2> QED BY <2>1, KeysAre
<1>4. Keys(diskRows) \subseteq FieldSecond
  BY TablesAre, KeysOfRows DEF Table
<1> HIDE DEF S, D
<1>5. Keys(S) \subseteq FieldSecond
  BY <1>2, KeysOfRows
<1>6. l \in LatestAt /\ l.pc = "disk" /\ l.shown = S /\ l.must = Keys(S) \cup D
  BY <1>2, <1>3, <1>4, <1>5 DEF LatestAt
<1> HIDE DEF l
<1>7. ASSUME NEW k \in Keys(S) PROVE Shows(l, k)
  <2>1. PICK r \in S : RowKey(r) = k
    BY KeysAre
  <2>2. r.f = k[1] /\ r.t = k[2] /\ r.t \in Nat
    BY <1>2, <2>1, KeysAre, HistoryBounds
  <2>3. r.t >= k[2]
    BY <2>2
  <2> QED BY <1>6, <2>2, <2>3 DEF Shows
<1>8. LatestSound(l, diskRows)
  BY <1>2, <1>3, <1>6, <1>7 DEF LatestSound
<1>9. LatestSound(latest, diskRows)'
  BY <1>1, <1>8
<1>10. TablesOK' /\ DiskOlder'
  BY <1>1, TablesStay
<1>11. QuerySound(query, diskRows)'
  BY <1>1, QueryStaysSound
<1> QED BY <1>9, <1>10, <1>11 DEF HistoryInv

LEMMA FinishLatestSafe == ASSUME HistoryInv, FinishLatest PROVE HistoryInv'
<1> DEFINE S == latest.shown
           D == NewestOf(diskRows)
           F == Fresher(S, D)
           l == [latest EXCEPT !.pc = "done", !.shown = F]
<1>1. /\ latest.pc = "disk" /\ latest' = l
      /\ UNCHANGED <<memRows, diskRows, cacheRows, second, writes, queries, syncing, deleting, deletes, query>>
  BY DEF FinishLatest
<1>2. LatestSound(latest, diskRows) /\ latest \in LatestAt
  BY DEF HistoryInv, LatestSound
<1>3. S \subseteq Row /\ \A r, s \in S : r.f = s.f => r = s
  BY <1>1, <1>2 DEF LatestSound, LatestAt
<1>4. D \subseteq Row /\ D \subseteq diskRows /\ \A r, s \in D : r.f = s.f => r = s
  <2>1. D \subseteq diskRows
    BY DEF NewestOf
  <2> QED BY <2>1, TablesAre, NewestOnce DEF Table
<1> HIDE DEF D
<1>5. /\ F \subseteq Row
      /\ \A r, s \in F : r.f = s.f => r = s
      /\ \A r \in S \cup D : \E x \in F : x.f = r.f /\ x.t >= r.t
  BY <1>3, <1>4, FresherShows
<1> HIDE DEF F
<1>6. l \in LatestAt /\ l.pc = "done" /\ l.shown = F /\ l.must = latest.must
  BY <1>2, <1>5 DEF LatestAt
<1> HIDE DEF l
<1>7. ASSUME NEW k \in latest.must PROVE Shows(l, k)
  <2>1. Shows(latest, k) \/ k \in Keys(diskRows)
    BY <1>1, <1>2 DEF LatestSound
  <2>2. PICK r \in S \cup D : r.f = k[1] /\ r.t >= k[2] /\ k[2] \in Nat
    <3>1. k[2] \in Nat
      BY <1>2 DEF LatestAt, FieldSecond
    <3>2. CASE Shows(latest, k)
      BY <3>1, <3>2 DEF Shows
    <3>3. CASE k \in Keys(diskRows)
      <4>1. PICK d \in diskRows : RowKey(d) = k
        BY <3>3, KeysAre
      <4>2. d \in Row /\ d.f = k[1] /\ d.t = k[2]
        BY <4>1, TablesAre, KeysAre
      <4>3. \E x \in D : x.f = d.f /\ x.t >= d.t
        BY <4>1, TablesAre, NewestExists DEF Table, D
      <4> QED BY <3>1, <4>2, <4>3
    <3> QED BY <2>1, <3>2, <3>3
  <2>3. PICK x \in F : x.f = r.f /\ x.t >= r.t
    BY <1>5
  <2>4. r.t \in Nat /\ x.t \in Nat
    BY <1>3, <1>4, <1>5, HistoryBounds
  <2>5. x.t >= k[2]
    BY <2>2, <2>3, <2>4
  <2> QED BY <1>6, <2>2, <2>3, <2>5 DEF Shows
<1>8. LatestSound(l, diskRows)
  BY <1>5, <1>6, <1>7 DEF LatestSound
<1>9. LatestSound(latest, diskRows)'
  BY <1>1, <1>8
<1>10. TablesOK' /\ DiskOlder'
  BY <1>1, TablesStay
<1>11. QuerySound(query, diskRows)'
  BY <1>1, QueryStaysSound
<1> QED BY <1>9, <1>10, <1>11 DEF HistoryInv

LEMMA UnreadableSafe == ASSUME HistoryInv, DiskUnreadable PROVE HistoryInv'
<1> DEFINE u == query.memRows
           M == Keys(ToSet(u))
           q == [query EXCEPT !.pc = "done", !.ans = u, !.must = M]
           L == Keys(latest.shown)
           l == [latest EXCEPT !.pc = "done", !.must = L]
<1>1. /\ \/ query.pc = "disk" /\ latest' = latest /\ query' = q
         \/ latest.pc = "disk" /\ query' = query /\ latest' = l
      /\ UNCHANGED <<memRows, diskRows, cacheRows, second, writes, queries, syncing, deleting, deletes>>
  BY DEF DiskUnreadable
<1>2. TablesOK' /\ DiskOlder'
  BY <1>1, TablesStay
<1>3. CASE query.pc = "disk" /\ latest' = latest /\ query' = q
  <2>1. query \in QueryAt /\ AtDisk(query, diskRows)
    BY <1>3 DEF HistoryInv, QuerySound
  <2>2. u \in Seq(Row) /\ DOMAIN u = 1 .. Len(u)
    BY <2>1 DEF QueryAt
  <2>3. M \in SUBSET FieldSecond
    <3>1. ToSet(u) \subseteq Row
      BY <2>2 DEF ToSet
    <3> QED BY <3>1, KeysOfRows
  <2> HIDE DEF M
  <2>4. q \in QueryAt /\ q.pc = "done" /\ q.ans = u /\ q.must = M
    BY <2>1, <2>2, <2>3 DEF QueryAt
  <2> HIDE DEF q
  <2>5. Ordered(q)
    BY <2>1, <2>4 DEF Ordered, AtDisk, Descending, Distinct
  <2>6. Complete(q)
    BY <2>4 DEF Complete, M
  <2>7. QuerySound(q, diskRows)
    BY <2>4, <2>5, <2>6 DEF QuerySound
  <2>8. QuerySound(query, diskRows)'
    BY <1>1, <1>3, <2>7
  <2>9. LatestSound(latest, diskRows)'
    BY <1>1, <1>3, LatestStaysSound
  <2> QED BY <1>2, <2>8, <2>9 DEF HistoryInv
<1>4. CASE latest.pc = "disk" /\ query' = query /\ latest' = l
  <2>1. latest \in LatestAt /\ latest.shown \subseteq Row /\ \A r, s \in latest.shown : r.f = s.f => r = s
    BY <1>4 DEF HistoryInv, LatestSound, LatestAt
  <2>2. L \in SUBSET FieldSecond
    BY <2>1, KeysOfRows
  <2>3. ASSUME NEW k \in L PROVE \E r \in latest.shown : r.f = k[1] /\ r.t >= k[2]
    <3>1. PICK r \in latest.shown : RowKey(r) = k
      BY KeysAre
    <3>2. r.f = k[1] /\ r.t = k[2] /\ r.t \in Nat
      BY <2>1, <3>1, KeysAre, HistoryBounds
    <3> QED BY <3>2
  <2> HIDE DEF L
  <2>4. l \in LatestAt /\ l.pc = "done" /\ l.shown = latest.shown /\ l.must = L
    BY <2>1, <2>2 DEF LatestAt
  <2> HIDE DEF l
  <2>5. \A k \in L : Shows(l, k)
    BY <2>3, <2>4 DEF Shows
  <2>6. LatestSound(l, diskRows)
    BY <2>1, <2>4, <2>5 DEF LatestSound
  <2>7. LatestSound(latest, diskRows)'
    BY <1>1, <1>4, <2>6
  <2>8. QuerySound(query, diskRows)'
    BY <1>1, <1>4, QueryStaysSound
  <2> QED BY <1>2, <2>7, <2>8 DEF HistoryInv
<1> QED BY <1>1, <1>3, <1>4

LEMMA HistoryInvNext == HistoryInv /\ [HistoryNext]_HistoryVars => HistoryInv'
<1> SUFFICES ASSUME HistoryInv, [HistoryNext]_HistoryVars PROVE HistoryInv'
  OBVIOUS
<1>1. CASE \E f \in Field, isStored \in BOOLEAN : Collect(f, isStored)
  BY <1>1, CollectSafe
<1>2. CASE SecondPasses
  BY <1>2, SecondSafe
<1>3. CASE SyncToDisk
  BY <1>3, SyncSafe
<1>4. CASE SyncFromMemory
  BY <1>4, SyncedSafe
<1>5. CASE \E f \in Field : DeleteInMemory(f) \/ DeleteOnDisk(f)
  BY <1>5, DeleteInMemorySafe, DeleteOnDiskSafe
<1>6. CASE \E kind \in {"device", "range"}, fields \in Asked,
              from \in 0 .. 1, limit \in RowLimit : BeginQuery(kind, fields, from, limit)
  BY <1>6, BeginQuerySafe
<1>7. CASE FinishQuery
  BY <1>7, FinishQuerySafe
<1>8. CASE BeginLatest
  BY <1>8, BeginLatestSafe
<1>9. CASE FinishLatest
  BY <1>9, FinishLatestSafe
<1>10. CASE DiskUnreadable
  BY <1>10, UnreadableSafe
<1>11. CASE UNCHANGED HistoryVars
  <2>1. /\ memRows' = memRows /\ diskRows' = diskRows /\ cacheRows' = cacheRows /\ second' = second
        /\ writes' = writes /\ queries' = queries /\ deletes' = deletes /\ syncing' = syncing
        /\ deleting' = deleting /\ query' = query /\ latest' = latest
    BY <1>11 DEF HistoryVars
  <2>2. TablesOK' /\ DiskOlder'
    BY <2>1, TablesStay
  <2> QED BY <2>1, <2>2, QueryStaysSound, LatestStaysSound DEF HistoryInv
<1> QED BY <1>1, <1>2, <1>3, <1>4, <1>5, <1>6, <1>7, <1>8, <1>9, <1>10, <1>11 DEF HistoryNext

\* A history query misses no row that was stored when it began, while the sync
\* moves rows to disk under it, names them in order, and none twice but in the
\* one second it splits; the latest values are not older than the cache or the
\* newest rows on disk.
THEOREM QueriesAnswered == HistorySpec => []AnswersSound
<1>1. HistoryInit => HistoryInv
  BY HistoryInvInit
<1>2. HistoryInv /\ [HistoryNext]_HistoryVars => HistoryInv'
  BY HistoryInvNext
<1>3. HistoryInv => AnswersSound
  BY HistoryInvSafe
<1> QED BY <1>1, <1>2, <1>3, PTL DEF HistorySpec
=============================================================================

---------------------------- MODULE ProductKeys ----------------------------
(***************************************************************************)
(* Which product key a device has.  The collector fixes one key per driver *)
(* (driverProductKeys), from the first reading that names one, and writes  *)
(* it to the row and to the task of every device the driver serves         *)
(* (collector/modbus_collect.go).  The manual PandaX synchronisation writes*)
(* the key the driver's file declares into the same rows (northbound/      *)
(* adapters/pandax_sync.go), and the user edits them.  Tasks hold a copy of*)
(* the row, which SyncDeviceStatus renews (collector/collector.go).        *)
(*                                                                         *)
(* A collection works on the device object it was started with, while its  *)
(* task may be given another one or be removed.  Devices are their ids; the*)
(* plugins, their files and SQLite are external.  A device without a driver*)
(* is never read, and has no part here.                                    *)
(***************************************************************************)
EXTENDS Integers

CONSTANTS
    LastDevice,      \* ids of devices are 1 .. LastDevice
    KeyDriver, ProductKey,
    Reader,          \* collections that may be under way at once
    MaxMeddling      \* bound: edits, uploads, PandaX synchronisations and faults

ASSUME ProductKeysAssumption ==
    LastDevice \in Nat /\ "" \notin ProductKey /\ MaxMeddling \in Nat

VARIABLES
    devRow,     \* table devices: [id |-> [driver, key, enabled]]
    fileKey,    \* the key a driver's file declares, "" for none
    plugKey,    \* the key the loaded plugin puts in its results
    keyCache,   \* driverProductKeys
    task,       \* tasks: [id |-> [driver, key, pk, busy]]; driver and key of
                \* task.device, pk is task.deviceProductKey
    reading,    \* the collection each Reader is at
    keySync,    \* SyncDeviceStatus
    pandaX,     \* PandaXAdapter.SyncDevices
    meddling,
    given,      \* given[v]: keys driver v declared, or a user gave its devices
    crossed     \* a collection or PandaX used a key of a device for a driver
                \* the device had meanwhile been taken from

KeyTables == <<devRow, fileKey, plugKey>>
ProductKeysVars ==
    <<KeyTables, keyCache, task, reading, keySync, pandaX, meddling, given, crossed>>

KeyDevice == 1 .. LastDevice
MaybeKey == ProductKey \cup {""}
KeyRow == [driver : KeyDriver, key : MaybeKey, enabled : BOOLEAN]
SomeRows == UNION {[D -> KeyRow] : D \in SUBSET KeyDevice}

NoReading == [pc |-> "idle"]
NoSync    == [pc |-> "idle"]
Locked == keySync.pc = "apply"     \* SyncDeviceStatus holds the collector's lock
Meddle == meddling < MaxMeddling /\ meddling' = meddling + 1

\* newCollectTask, and the part of it refreshTaskLocked does again.
NewTask(row) == [driver |-> row.driver, key |-> row.key, pk |-> row.key, busy |-> FALSE]
\* Wrong variant: the task keeps the product key it had.
RefreshedKeeping(t, row) == [t EXCEPT !.driver = row.driver, !.key = row.key]
Refreshed(t, row) == [t EXCEPT !.driver = row.driver, !.key = row.key, !.pk = row.key]

ProductKeysInit ==
    /\ devRow \in [KeyDevice -> [driver : KeyDriver, key : MaybeKey, enabled : {TRUE}]]
    /\ fileKey \in [KeyDriver -> MaybeKey] /\ plugKey = fileKey
    /\ keyCache = [v \in KeyDriver |-> ""]
    /\ task = [d \in KeyDevice |-> NewTask(devRow[d])]
    /\ reading = [r \in Reader |-> NoReading]
    /\ keySync = NoSync /\ pandaX = NoSync
    /\ meddling = 0
    /\ given = [v \in KeyDriver |->
                  {fileKey[v]} \cup {devRow[d].key : d \in {e \in KeyDevice : devRow[e].driver = v}}]
    /\ crossed = FALSE

-----------------------------------------------------------------------------
(* One collection.                                                          *)

\* The executor refuses a device that is still being read for another task.
BeginReading(r, d) ==
    /\ reading[r].pc = "idle" /\ ~Locked
    /\ d \in DOMAIN task /\ ~task[d].busy
    /\ task' = [task EXCEPT ![d].busy = TRUE]
    /\ reading' = [reading EXCEPT ![r] =
         [pc   |-> IF \E s \in Reader : reading[s].pc = "exec" /\ reading[s].dev = d
                   THEN "done" ELSE "exec",
          dev  |-> d, driver |-> task[d].driver, key |-> task[d].key,
          own  |-> TRUE,      \* its task is still the device's task
          same |-> TRUE,      \* and its device object still the task's
          pk   |-> "", next |-> ""]]
    /\ UNCHANGED <<KeyTables, keyCache, keySync, pandaX, meddling, given, crossed>>

\* deviceProductKey of the task the collection was started for.
TaskKey(r) == IF reading[r].own THEN task[reading[r].dev].pk ELSE reading[r].pk

\* normalizeDriverResultIdentity: the key in a result, wherever the plugin put
\* it; it may put none.
ResultKeys(v) == {plugKey[v], ""}

\* The plugin returns; a result without a key falls back on the task's, which
\* may be the key of the device object the task has been given meanwhile.
Executed(r) ==
    /\ reading[r].pc = "exec"
    /\ \E k \in ResultKeys(reading[r].driver) :
         /\ reading' = [reading EXCEPT ![r].pc = "fix", ![r].next = IF k # "" THEN k ELSE TaskKey(r)]
         /\ crossed' = (crossed \/ (k = "" /\ ~reading[r].same))
    /\ UNCHANGED <<KeyTables, keyCache, task, keySync, pandaX, meddling, given>>

ExecuteFails(r) ==
    /\ reading[r].pc = "exec" /\ Meddle
    /\ reading' = [reading EXCEPT ![r].pc = "done"]
    /\ UNCHANGED <<KeyTables, keyCache, task, keySync, pandaX, given, crossed>>

FixedKey(v, candidate) == IF keyCache[v] # "" THEN keyCache[v] ELSE candidate

\* syncDeviceProductKey up to the write: what the key is, and whether the
\* device has it already.
ResolveFixed(r) ==
    /\ reading[r].pc = "fix"
    /\ LET v == reading[r].driver
           k == FixedKey(v, reading[r].next)
       IN /\ keyCache' = [keyCache EXCEPT ![v] = k]
          /\ reading' = [reading EXCEPT ![r].next = k,
                           ![r].pc = IF k = "" \/ k = reading[r].key THEN "done" ELSE "row"]
    /\ UNCHANGED <<KeyTables, task, keySync, pandaX, meddling, given, crossed>>

\* The statement UPDATE devices SET product_key = k WHERE id = d, on behalf of
\* a writer that takes d to be served by driver v.
UpdateDeviceProductKey(d, v, k) ==
    /\ devRow' = IF d \in DOMAIN devRow THEN [devRow EXCEPT ![d].key = k] ELSE devRow
    /\ crossed' = (crossed \/ (d \in DOMAIN devRow /\ devRow[d].driver # v))

WriteKey(r) ==
    /\ reading[r].pc = "row"
    /\ UpdateDeviceProductKey(reading[r].dev, reading[r].driver, reading[r].next)
    /\ reading' = [reading EXCEPT ![r].pc = "mem"]
    /\ UNCHANGED <<fileKey, plugKey, keyCache, task, keySync, pandaX, meddling, given>>

WriteKeyFails(r) ==
    /\ reading[r].pc = "row" /\ Meddle
    /\ reading' = [reading EXCEPT ![r].pc = "done"]
    /\ UNCHANGED <<KeyTables, keyCache, task, keySync, pandaX, given, crossed>>

SetDeviceKey(r) ==
    /\ reading[r].pc = "mem"
    /\ reading' = [reading EXCEPT ![r].pc = "task", ![r].key = reading[r].next]
    /\ task' = IF reading[r].same THEN [task EXCEPT ![reading[r].dev].key = reading[r].next] ELSE task
    /\ UNCHANGED <<KeyTables, keyCache, keySync, pandaX, meddling, given, crossed>>

\* findTask: the task the device has now, which may be another one.
SetTaskKey(r) ==
    /\ reading[r].pc = "task" /\ ~Locked
    /\ LET d == reading[r].dev
       IN IF d \in DOMAIN task
          THEN /\ task' = [task EXCEPT ![d].pk = reading[r].next]
               /\ crossed' = (crossed \/ task[d].driver # reading[r].driver)
          ELSE UNCHANGED <<task, crossed>>
    /\ reading' = [reading EXCEPT ![r].pc = "done"]
    /\ UNCHANGED <<KeyTables, keyCache, keySync, pandaX, meddling, given>>

EndReading(r) ==
    /\ reading[r].pc = "done" /\ ~Locked
    /\ task' = IF reading[r].own THEN [task EXCEPT ![reading[r].dev].busy = FALSE] ELSE task
    /\ reading' = [reading EXCEPT ![r] = NoReading]
    /\ UNCHANGED <<KeyTables, keyCache, keySync, pandaX, meddling, given, crossed>>

ReadingStep(r) ==
    \/ Executed(r) \/ ResolveFixed(r) \/ WriteKey(r) \/ SetDeviceKey(r)
    \/ SetTaskKey(r) \/ EndReading(r)

-----------------------------------------------------------------------------
(* SyncDeviceStatus: the rows are read before the lock is taken.            *)

SyncKeyList ==
    /\ keySync.pc = "idle"
    /\ keySync' = [pc |-> "listed", list |-> devRow, todo |-> KeyDevice]
    /\ UNCHANGED <<KeyTables, keyCache, task, reading, pandaX, meddling, given, crossed>>

\* sameTaskDeviceConfig; the fields that do not matter here left out.
\* Wrong variant: the product key is not compared.
SameDriver(t, row) == t.driver = row.driver
SameConfig(t, row) == t.driver = row.driver /\ t.key = row.key

\* pruneUnusedDriverProductKeysLocked, once the tasks are T.
Pruned(T) == [v \in KeyDriver |-> IF \E d \in DOMAIN T : T[d].driver = v THEN keyCache[v] ELSE ""]

\* What the collection under way for d's task holds once the task is changed.
Detached(d, own) ==
    [r \in Reader |->
       IF reading[r].pc # "idle" /\ reading[r].dev = d /\ reading[r].own
       THEN [reading[r] EXCEPT !.same = FALSE, !.own = own, !.pk = TaskKey(r)]
       ELSE reading[r]]

\* upsertTaskLocked without and with a task, and removeTaskLocked.
AddTask(d, row) ==
    /\ task' = [e \in DOMAIN task \cup {d} |-> IF e = d THEN NewTask(row) ELSE task[e]]
    /\ UNCHANGED <<keyCache, reading>>
UpdateTask(d, row) ==
    /\ task' = [task EXCEPT ![d] = Refreshed(@, row)]
    /\ keyCache' = IF task[d].driver = row.driver THEN keyCache ELSE Pruned(task')
    /\ reading' = Detached(d, TRUE)
RemoveTask(d) ==
    /\ task' = [e \in DOMAIN task \ {d} |-> task[e]]
    /\ keyCache' = Pruned(task')
    /\ reading' = Detached(d, FALSE)

\* The rows in the order of their ids, then the tasks that have none.
NextOf(S, listed) ==
    LET L == S \cap listed
    IN IF L # {} THEN {CHOOSE d \in L : \A e \in L : d <= e} ELSE S

\* The lock is taken with the first and given back with the last.
SyncKeyDevice(d) ==
    /\ keySync.pc # "idle" /\ d \in NextOf(keySync.todo, DOMAIN keySync.list)
    /\ LET list   == keySync.list
           wanted == d \in DOMAIN list /\ list[d].enabled
           there  == d \in DOMAIN task
       IN \/ wanted /\ ~there /\ AddTask(d, list[d])
          \/ ~wanted /\ there /\ RemoveTask(d)
          \/ wanted /\ there /\ ~SameConfig(task[d], list[d]) /\ UpdateTask(d, list[d])
          \/ /\ wanted = there /\ (wanted => SameConfig(task[d], list[d]))
             /\ UNCHANGED <<keyCache, task, reading>>
    /\ LET left == keySync.todo \ {d}
       IN keySync' = IF left = {} THEN NoSync ELSE [keySync EXCEPT !.pc = "apply", !.todo = left]
    /\ UNCHANGED <<KeyTables, pandaX, meddling, given, crossed>>

SyncKeys == SyncKeyList \/ \E d \in KeyDevice : SyncKeyDevice(d)

-----------------------------------------------------------------------------
(* The user, and the drivers' files.                                        *)

EditDeviceRow(d) ==
    /\ d \in DOMAIN devRow /\ Meddle
    /\ \E row \in KeyRow \ {devRow[d]} :
         /\ devRow' = [devRow EXCEPT ![d] = row]
         /\ given' = [given EXCEPT ![row.driver] = @ \cup {row.key}]
    /\ UNCHANGED <<fileKey, plugKey, keyCache, task, reading, keySync, pandaX, crossed>>

DeleteDeviceRow(d) ==
    /\ d \in DOMAIN devRow /\ Meddle
    /\ devRow' = [e \in DOMAIN devRow \ {d} |-> devRow[e]]
    /\ UNCHANGED <<fileKey, plugKey, keyCache, task, reading, keySync, pandaX, given, crossed>>

\* SaveUploadedDriver replaces the file; the plugin loaded is still the old one.
UploadKey(v) ==
    /\ Meddle
    /\ \E k \in MaybeKey \ {fileKey[v]} :
         /\ fileKey' = [fileKey EXCEPT ![v] = k]
         /\ given' = [given EXCEPT ![v] = @ \cup {k}]
    /\ UNCHANGED <<devRow, plugKey, keyCache, task, reading, keySync, pandaX, crossed>>

ReloadKey(v) ==
    /\ plugKey[v] # fileKey[v]
    /\ plugKey' = [plugKey EXCEPT ![v] = fileKey[v]]
    /\ UNCHANGED <<devRow, fileKey, keyCache, task, reading, keySync, pandaX, meddling, given, crossed>>

-----------------------------------------------------------------------------
(* PandaX SyncDevices: rows, then the drivers' files, then a write per row. *)

ListSyncDevices ==
    /\ pandaX.pc = "idle" /\ Meddle
    /\ pandaX' = [pc |-> "resolve", list |-> devRow]
    /\ UNCHANGED <<KeyTables, keyCache, task, reading, keySync, given, crossed>>

\* A device whose driver's file declares no key keeps the one it has.
ResolveSyncKeys ==
    /\ pandaX.pc = "resolve"
    /\ pandaX' = IF DOMAIN pandaX.list = {} THEN NoSync
                 ELSE [pc |-> "backfill", list |-> pandaX.list, todo |-> DOMAIN pandaX.list,
                       keys |-> [d \in DOMAIN pandaX.list |-> fileKey[pandaX.list[d].driver]]]
    /\ UNCHANGED <<KeyTables, keyCache, task, reading, keySync, meddling, given, crossed>>

FirstOf(S) == CHOOSE d \in S : \A e \in S : d <= e
BackfillGoesOn(d) ==
    LET left == pandaX.todo \ {d}
    IN pandaX' = IF left = {} THEN NoSync ELSE [pandaX EXCEPT !.todo = left]

BackfillKey(d) ==
    /\ pandaX.pc = "backfill" /\ d = FirstOf(pandaX.todo)
    /\ IF pandaX.keys[d] \in {"", pandaX.list[d].key}
       THEN UNCHANGED <<devRow, crossed>>
       ELSE UpdateDeviceProductKey(d, pandaX.list[d].driver, pandaX.keys[d])
    /\ BackfillGoesOn(d)
    /\ UNCHANGED <<fileKey, plugKey, keyCache, task, reading, keySync, meddling, given>>

BackfillKeyFails(d) ==
    /\ pandaX.pc = "backfill" /\ d = FirstOf(pandaX.todo)
    /\ pandaX.keys[d] \notin {"", pandaX.list[d].key} /\ Meddle
    /\ BackfillGoesOn(d)
    /\ UNCHANGED <<KeyTables, keyCache, task, reading, keySync, given, crossed>>

-----------------------------------------------------------------------------
ProductKeysNext ==
    \/ \E r \in Reader : ExecuteFails(r) \/ WriteKeyFails(r) \/ ReadingStep(r)
    \/ \E r \in Reader, d \in KeyDevice : BeginReading(r, d)
    \/ SyncKeys
    \/ \E d \in KeyDevice : EditDeviceRow(d) \/ DeleteDeviceRow(d) \/ BackfillKey(d) \/ BackfillKeyFails(d)
    \/ \E v \in KeyDriver : UploadKey(v) \/ ReloadKey(v)
    \/ ListSyncDevices \/ ResolveSyncKeys

\* The scheduler serves every task again and again (Collector), plugins return,
\* the lock is granted, and the synchronisation's ticker keeps ticking.
ReadAgain(d) == \E r \in Reader : BeginReading(r, d)
ProductKeysFairness ==
    /\ \A d \in KeyDevice : SF_ProductKeysVars(ReadAgain(d))
    /\ \A r \in Reader : SF_ProductKeysVars(ReadingStep(r))
    /\ WF_ProductKeysVars(SyncKeys)

ProductKeysSpec == ProductKeysInit /\ [][ProductKeysNext]_ProductKeysVars /\ ProductKeysFairness

\* The values the variables take; a task's collection is under way, or the task rests.
ProductKeysTypeOK ==
    /\ devRow \in SomeRows
    /\ {fileKey, plugKey, keyCache} \subseteq [KeyDriver -> MaybeKey]
    /\ DOMAIN task \subseteq KeyDevice
    /\ \A d \in DOMAIN task :
         /\ task[d] \in [driver : KeyDriver, key : MaybeKey, pk : MaybeKey, busy : BOOLEAN]
         /\ task[d].busy <=> \E r \in Reader : reading[r].pc # "idle" /\ reading[r].dev = d /\ reading[r].own
    /\ \A r \in Reader : reading[r].pc \in {"idle", "exec", "fix", "row", "mem", "task", "done"}
    /\ keySync.pc \in {"idle", "listed", "apply"} /\ pandaX.pc \in {"idle", "resolve", "backfill"}

\* The key the collector fixes for a driver (modbus_collect.go:125, and writes
\* to every device of that driver) is one the driver declared or one a user
\* gave a device of that driver, never another driver's left over in a task:
\* unless a key was written for a device that had changed driver meanwhile,
\* which nothing in the code prevents.
KeysFromOwnDriver ==
    ~crossed => \A v \in KeyDriver : keyCache[v] \in given[v] \cup {""}

\* When nobody changes the rows or the drivers any more, every enabled device
\* ends up with the key fixed for its driver, whatever the user, PandaX and
\* collections under way wrote before and whichever writes failed.
KeysConverge ==
    <>[](\A d \in DOMAIN devRow :
           LET k == keyCache[devRow[d].driver]
           IN devRow[d].enabled /\ k # "" => devRow[d].key = k)

\* Tasks, readings and keys are well formed, and a driver's key is its own.
KeysSound == ProductKeysTypeOK /\ KeysFromOwnDriver
=============================================================================

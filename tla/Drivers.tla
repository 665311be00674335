------------------------------ MODULE Drivers ------------------------------
(***************************************************************************)
(* The drivers an operator administers: the files of the drivers           *)
(* directory, the rows of table drivers, the plugins in the driver manager *)
(* and the binding of a device to a row.                                   *)
(*                                                                         *)
(* A request of service/driver_service.go goes through file, row and       *)
(* plugin one after the other and locks none of them for longer than one   *)
(* step; a collection loads what it misses on its own                      *)
(* (driver/manager_resolve.go).  A file's content is the number of the     *)
(* upload that wrote it.  A plugin is bound to one resource: the device's   *)
(* own, or another, and a collection loads it again in the second case.     *)
(* The version column, which ListDrivers reads again from the file each    *)
(* time, is left out; file system and SQLite are external.                 *)
(***************************************************************************)
EXTENDS Integers, Sequences

CONSTANTS
    DriverName,
    Candidates,        \* names of the rows a device may be bound to again, in order
    DriverRequest,     \* requests of the operator
    MaxDriverId,       \* bound: rows ever inserted
    MaxUploads,        \* bound: uploads
    MaxDriverRequests, \* bound: requests
    MaxBindFaults      \* bound: statements that fail

ASSUME DriversAssumption ==
    /\ {MaxDriverId, MaxUploads, MaxDriverRequests, MaxBindFaults} \subseteq Nat
    /\ MaxDriverId > 0 /\ MaxUploads > 0 /\ Candidates \in Seq(DriverName)

VARIABLES
    wasm,        \* content of each file, Missing, or Torn while it is written
    rows,        \* table drivers: [id |-> [name, file]], of the rows there
    inserted,    \* the last id AUTOINCREMENT gave
    plugins,     \* DriverManager.drivers: the content each plugin was made of
    bound,       \* devices.driver_id; 0: NULL
    held,        \* DriverID of the device the collector holds; 0: nil
    work,        \* the request, or the collection, of each process
    ran,         \* the last collection called its plugin
    uploads, requests, bindFaults,
    late,        \* ids whose plugin was loaded after their row was deleted
    onBus        \* ids whose plugin is bound to the resource of the device

Missing == 0
Torn == -1
DriverId == 1 .. MaxDriverId
collecting == <<bound, held, ran>>
counters == <<uploads, requests, bindFaults>>
DriversVars == <<wasm, rows, inserted, plugins, collecting, work, counters, late, onBus>>

Collecting == "collection"
Process == DriverRequest \cup {Collecting}
NoWork == [steps |-> <<>>, id |-> 0, name |-> "", file |-> "", data |-> Missing]

DriversInit ==
    /\ \E n \in DriverName : \E R \in SUBSET {1} :
        /\ rows = [i \in R |-> [name |-> n, file |-> n]]
        /\ wasm = [m \in DriverName |-> IF m = n /\ R # {} THEN 1 ELSE Missing]
        /\ \E x \in {Missing, 1} : plugins = [i \in DriverId |-> IF i \in R THEN x ELSE Missing]
    /\ onBus \in SUBSET {i \in DriverId : plugins[i] # Missing}
    /\ inserted = 1 /\ bound = 1 /\ held = 1 /\ ran = FALSE
    /\ work = [p \in Process |-> NoWork]
    /\ uploads = 1 /\ requests = 0 /\ bindFaults = 0 /\ late = {}

-----------------------------------------------------------------------------
(* What each request does, step by step.                                    *)

Loading == <<"read", "unload", "load">>
\* Wrong variant: the plugin goes first, then the row.
DropsFirst == <<"find", "drop", "delete", "remove">>
DeleteSteps == <<"find", "delete", "drop", "remove">>
StepsOf(op, on) ==
    CASE op = "create" -> <<"stat", "insert">> \o (IF on THEN Loading ELSE <<>>)
      [] op = "update" -> <<"find", "stat", "update">> \o (IF on THEN Loading ELSE <<"drop">>)
      [] op = "delete" -> DeleteSteps
      [] op = "reload" -> <<"find", "stat">> \o Loading
      [] op = "upload" -> <<"truncate", "write", "upsert">>

Request(p, op, i, n, f, on) ==
    /\ work[p].steps = <<>> /\ requests < MaxDriverRequests /\ requests' = requests + 1
    /\ op = "upload" => uploads < MaxUploads
    /\ uploads' = IF op = "upload" THEN uploads + 1 ELSE uploads
    /\ work' = [work EXCEPT ![p] = [steps |-> StepsOf(op, on), id |-> i, name |-> n, file |-> f,
                                    data |-> IF op = "upload" THEN uploads + 1 ELSE Missing]]
    /\ UNCHANGED <<wasm, rows, inserted, plugins, collecting, bindFaults, late, onBus>>

At(p, step) == work[p].steps # <<>> /\ Head(work[p].steps) = step
Rest(p) == Tail(work[p].steps)
Goes(p) == work' = [work EXCEPT ![p].steps = Rest(p)]
\* The request answers with an error, and what it has done stays.
Ends(p) == work' = [work EXCEPT ![p] = NoWork]
GoesIf(p, ok) == IF ok THEN Goes(p) ELSE Ends(p)

\* LoadDriver of the row; UpdateDriver keeps the name and path of the request.
Find(p) ==
    LET w == work[p]  i == w.id IN
    /\ At(p, "find")
    /\ IF i \notin DOMAIN rows THEN Ends(p)
       ELSE work' = [work EXCEPT ![p] = [w EXCEPT !.steps = Rest(p),
                        !.name = IF w.name = "" THEN rows[i].name ELSE w.name,
                        !.file = IF w.file = "" THEN rows[i].file ELSE w.file]]
    /\ UNCHANGED <<wasm, rows, inserted, plugins, collecting, counters, late, onBus>>

Stat(p) ==
    /\ At(p, "stat") /\ GoesIf(p, wasm[work[p].file] # Missing)
    /\ UNCHANGED <<wasm, rows, inserted, plugins, collecting, counters, late, onBus>>

\* A name is UNIQUE, and an id is never given again.
NameFree(n, i) == \A j \in DOMAIN rows : rows[j].name = n => j = i
Insert(p, i) == [j \in DOMAIN rows \cup {i} |->
                    IF j = i THEN [name |-> work[p].name, file |-> work[p].file] ELSE rows[j]]

InsertRow(p) ==
    LET i == inserted + 1 IN
    /\ At(p, "insert") /\ inserted < MaxDriverId
    /\ IF NameFree(work[p].name, i)
       THEN /\ rows' = Insert(p, i) /\ inserted' = i
            /\ work' = [work EXCEPT ![p] = [@ EXCEPT !.steps = Rest(p), !.id = i]]
       ELSE Ends(p) /\ UNCHANGED <<rows, inserted>>
    /\ UNCHANGED <<wasm, plugins, collecting, counters, late, onBus>>

\* A row that is gone is updated without an error.
UpdateRow(p) ==
    LET i == work[p].id IN
    /\ At(p, "update") /\ GoesIf(p, NameFree(work[p].name, i))
    /\ rows' = IF NameFree(work[p].name, i) /\ i \in DOMAIN rows THEN Insert(p, i) ELSE rows
    /\ UNCHANGED <<wasm, inserted, plugins, collecting, counters, late, onBus>>

\* The error of the DELETE is ignored.  Where foreign keys are on, the devices
\* of the row lose their driver.
DeleteRow(p) ==
    LET i == work[p].id IN
    /\ At(p, "delete") /\ Goes(p)
    /\ \/ /\ rows' = [j \in DOMAIN rows \ {i} |-> rows[j]]
          /\ bound' \in {bound, IF bound = i THEN 0 ELSE bound} /\ UNCHANGED bindFaults
       \/ bindFaults < MaxBindFaults /\ bindFaults' = bindFaults + 1 /\ UNCHANGED <<rows, bound>>
    /\ UNCHANGED <<wasm, inserted, plugins, held, ran, uploads, requests, late, onBus>>

\* UnloadDriver, whose error nobody reads.
Unload(p) ==
    /\ At(p, "drop") \/ At(p, "unload")
    /\ plugins' = [plugins EXCEPT ![work[p].id] = Missing] /\ late' = late \ {work[p].id}
    /\ onBus' = onBus \ {work[p].id} /\ Goes(p)
    /\ UNCHANGED <<wasm, rows, inserted, collecting, counters>>

\* The file goes, whichever rows still name it.
RemoveFile(p) ==
    /\ At(p, "remove") /\ Goes(p)
    /\ wasm' = [wasm EXCEPT ![work[p].file] = Missing]
    /\ UNCHANGED <<rows, inserted, plugins, collecting, counters, late, onBus>>

ReadFile(p) ==
    LET x == wasm[work[p].file] IN
    /\ At(p, "read")
    /\ IF x = Missing THEN Ends(p)
       ELSE work' = [work EXCEPT ![p] = [@ EXCEPT !.steps = Rest(p), !.data = x]]
    /\ UNCHANGED <<wasm, rows, inserted, plugins, collecting, counters, late, onBus>>

\* A plugin loaded meanwhile is an error, and so is a file that is not whole.
\* A collection binds it to the device's resource, a request and a start to the
\* one config_schema names, which may be that one, another or none.
CanLoad(p) == plugins[work[p].id] = Missing /\ work[p].data # Torn
Load(p) ==
    LET i == work[p].id IN
    /\ At(p, "load") /\ GoesIf(p, CanLoad(p))
    /\ IF CanLoad(p)
       THEN /\ plugins' = [plugins EXCEPT ![i] = work[p].data]
            /\ late' = IF i \in DOMAIN rows THEN late ELSE late \cup {i}
            /\ onBus' \in {onBus \cup {i}} \cup (IF p = Collecting THEN {} ELSE {onBus})
       ELSE UNCHANGED <<plugins, late, onBus>>
    /\ UNCHANGED <<wasm, rows, inserted, collecting, counters>>

-----------------------------------------------------------------------------
(* SaveUploadedDriver: the file is truncated and written in place, and the  *)
(* row is inserted if the name has none.  A plugin in use is left alone.    *)

TruncateFile(p) ==
    /\ At(p, "truncate") /\ Goes(p)
    /\ wasm' = [wasm EXCEPT ![work[p].name] = Torn]
    /\ UNCHANGED <<rows, inserted, plugins, collecting, counters, late, onBus>>

WriteFile(p) ==
    /\ At(p, "write") /\ Goes(p)
    /\ wasm' = [wasm EXCEPT ![work[p].name] = work[p].data]
    /\ UNCHANGED <<rows, inserted, plugins, collecting, counters, late, onBus>>

\* Its client goes away: the file stays as far as it was written.
UploadBreaks(p) ==
    /\ At(p, "write") /\ Ends(p)
    /\ UNCHANGED <<wasm, rows, inserted, plugins, collecting, counters, late, onBus>>

UpsertRow(p) ==
    LET i == inserted + 1 IN
    /\ At(p, "upsert") /\ Goes(p)
    /\ IF NameFree(work[p].name, 0) /\ inserted < MaxDriverId
       THEN rows' = Insert(p, i) /\ inserted' = i
       ELSE UNCHANGED <<rows, inserted>>
    /\ UNCHANGED <<wasm, plugins, collecting, counters, late, onBus>>

-----------------------------------------------------------------------------
(* A collection: ensureDriverLoaded, then the call.                         *)

Named(n) == {i \in DOMAIN rows : rows[i].name = n}
\* recoverMissingDriverBinding: the first candidate that has a row.
\* Wrong variant: only the device's own driver type is tried.
OwnTypeOnly == Named(Candidates[1])
Recoverable ==
    LET C == {k \in DOMAIN Candidates : Named(Candidates[k]) # {}}
    IN  IF C = {} THEN {} ELSE Named(Candidates[CHOOSE k \in C : \A l \in C : k <= l])

LoadRow(i) == [NoWork EXCEPT !.steps = Loading \o <<"call">>, !.id = i, !.file = rows[i].file]

Ready(i) == plugins[i] # Missing /\ i \in onBus

\* The plugin is there and on the device's resource, or its row is read to load
\* it again, or the row is missing.
EnsureLoaded ==
    /\ work[Collecting] = NoWork /\ held # 0 /\ ran' = FALSE
    /\ work' = [work EXCEPT ![Collecting] =
                    IF Ready(held) THEN [NoWork EXCEPT !.steps = <<"call">>]
                    ELSE IF held \in DOMAIN rows THEN LoadRow(held)
                    ELSE [NoWork EXCEPT !.steps = <<"recover">>]]
    /\ UNCHANGED <<wasm, rows, inserted, plugins, bound, held, counters, late, onBus>>

\* syncRecoveredDriverBinding: if the UPDATE fails the device keeps its old
\* DriverID, and the plugin is loaded all the same.
Recover ==
    /\ At(Collecting, "recover")
    /\ \/ Recoverable = {} /\ Ends(Collecting) /\ UNCHANGED <<bound, held, bindFaults>>
       \/ \E i \in Recoverable :
            /\ work' = [work EXCEPT ![Collecting] = LoadRow(i)]
            /\ \/ bound' = i /\ held' = i /\ UNCHANGED bindFaults
               \/ bindFaults < MaxBindFaults /\ bindFaults' = bindFaults + 1 /\ UNCHANGED <<bound, held>>
    /\ UNCHANGED <<wasm, rows, inserted, plugins, ran, uploads, requests, late, onBus>>

CallPlugin ==
    /\ At(Collecting, "call") /\ Ends(Collecting)
    /\ ran' = (plugins[held] # Missing)
    /\ UNCHANGED <<wasm, rows, inserted, plugins, bound, held, counters, late, onBus>>

\* The collector reads its devices again.
SyncDevice ==
    /\ work[Collecting] = NoWork /\ held # bound /\ held' = bound /\ ran' = FALSE
    /\ UNCHANGED <<wasm, rows, inserted, plugins, bound, work, counters, late, onBus>>

-----------------------------------------------------------------------------
RowStep(p) == Find(p) \/ Stat(p) \/ InsertRow(p) \/ UpdateRow(p) \/ DeleteRow(p) \/ UpsertRow(p)
FileStep(p) == RemoveFile(p) \/ TruncateFile(p) \/ WriteFile(p)
PluginStep(p) == ReadFile(p) \/ Unload(p) \/ Load(p)
Collection == EnsureLoaded \/ Recover \/ CallPlugin \/ PluginStep(Collecting)

DriversNext ==
    \/ Collection \/ SyncDevice
    \/ \E p \in DriverRequest : RowStep(p) \/ FileStep(p) \/ PluginStep(p) \/ UploadBreaks(p)
    \/ \E p \in DriverRequest, n \in DriverName, f \in DriverName, on \in BOOLEAN :
        \/ inserted < MaxDriverId /\ Request(p, "create", 0, n, f, on)
        \/ \E i \in DOMAIN rows : Request(p, "update", i, n, f, on)
    \/ \E p \in DriverRequest, i \in DOMAIN rows, op \in {"delete", "reload"} :
        Request(p, op, i, "", "", TRUE)
    \/ \E p \in DriverRequest, n \in DriverName : Request(p, "upload", 0, n, n, TRUE)

\* The collector keeps collecting, and a request that can go on goes on.
DriversFairness ==
    /\ WF_DriversVars(Collection)
    /\ \A p \in DriverRequest : WF_DriversVars(RowStep(p) \/ FileStep(p) \/ PluginStep(p))

DriversSpec == DriversInit /\ [][DriversNext]_DriversVars /\ DriversFairness

-----------------------------------------------------------------------------
DriversTypeOK ==
    /\ wasm \in [DriverName -> -1 .. MaxUploads]
    /\ DOMAIN rows \subseteq DriverId
    /\ \A i \in DOMAIN rows : rows[i] \in [name : DriverName, file : DriverName]
    /\ \A i, j \in DOMAIN rows : rows[i].name = rows[j].name => i = j
    /\ inserted \in 0 .. MaxDriverId /\ {bound, held} \subseteq 0 .. MaxDriverId
    /\ plugins \in [DriverId -> 0 .. MaxUploads]
    /\ ran \in BOOLEAN /\ {late, onBus} \subseteq SUBSET DriverId
    /\ \A p \in Process : work[p].id \in 0 .. MaxDriverId /\ work[p].data \in -1 .. MaxUploads

\* When a deletion has answered, the driver's plugin is gone, and no
\* collection brings it back: DeleteDriver deletes the row before it unloads,
\* so only a load that had read the row before can leave a plugin without one.
NoPluginWithoutRow ==
    \A i \in DriverId : plugins[i] # Missing /\ i \notin DOMAIN rows =>
        i \in late \/ \E p \in DriverRequest : work[p].id = i /\ At(p, "drop")

\* The device's next collection can load a plugin.
Whole(i) == wasm[rows[i].file] > 0
Usable == {i \in DOMAIN rows : \E k \in DOMAIN Candidates : Candidates[k] = rows[i].name}
Servable ==
    /\ held # 0
    /\ \/ Ready(held)
       \/ held \in DOMAIN rows /\ Whole(held)
       \/ held \notin DOMAIN rows /\ Usable # {} /\ \A i \in Usable : Whole(i)

\* A device whose driver was deleted and uploaded again, or whose plugin a
\* failed reload took away or a good one bound to another resource, is collected
\* again without anybody's help as soon as a usable row and file are there:
\* ensureDriverLoaded loads what is missing or bound elsewhere and binds the
\* device to the new row.  A plugin bound elsewhere is of no use without them.
DeviceServed == <>[]Servable => []<>ran

\* Rows, files and plugins are well formed, and no plugin outlives its row.
PluginsSound == DriversTypeOK /\ NoPluginWithoutRow
=============================================================================

----------------------------- MODULE Northbound -----------------------------
(***************************************************************************)
(* The northbound configurations and the adapters that run for them: the   *)
(* table northbound_configs (database/northbound_store.go), the manager's  *)
(* maps (northbound/manager.go), and the requests that change both in      *)
(* several steps, with a rollback when one fails                           *)
(* (service/northbound_config_service.go, northbound_runtime_service.go,   *)
(* app/routes_api_deps.go).                                                *)
(*                                                                         *)
(* A request is a list of steps it still has to do; each step is one call  *)
(* of the manager, which holds its lock, one SQL statement, or one         *)
(* Initialize, which connects.  Requests run at the same time, and the     *)
(* process may stop between any two steps.                                 *)
(***************************************************************************)
EXTENDS Integers, Sequences, FiniteSets

CONSTANTS
    NbId, NbName,
    NbRequest,       \* requests served at the same time
    MaxRequests,     \* bound: requests
    MaxInitFaults,   \* bound: adapters that fail to initialize
    MaxDBFaults,     \* bound: statements that fail
    MaxRestarts      \* bound: restarts of the process

ASSUME NorthboundAssumption ==
    /\ {MaxRequests, MaxInitFaults, MaxDBFaults, MaxRestarts} \subseteq Nat
    /\ IsFiniteSet(NbName) /\ IsFiniteSet(NbRequest)

VARIABLES
    nbRows,        \* [id |-> config], of the rows there
    nbAdapters,    \* m.adapters
    nbEnabled,     \* m.enabled; no entry reads as FALSE
    nbRequest,     \* the request each NbRequest serves
    connections,   \* adapters initialized and not closed
    nbRequests, initFaults, dbFaults, restarts,
    excused        \* names whose runtime a fault or an overlap has disturbed

NorthboundVars == <<nbRows, nbAdapters, nbEnabled, nbRequest, connections,
                    nbRequests, initFaults, dbFaults, restarts, excused>>

Operation == {"create", "update", "delete", "toggle", "reload", "sync"}
\* version: everything of a configuration but its name and enabled
Config == [id : NbId, name : NbName, enabled : BOOLEAN, version : 0 .. MaxRequests]
NoAdapter == [version |-> -1, started |-> FALSE]
NoNbRequest == [op |-> "none", todo |-> <<>>, names |-> {}, undoing |-> FALSE, clean |-> TRUE]

Do(what, config) == [do |-> what, config |-> config]
Taken(name) == \E i \in DOMAIN nbRows : nbRows[i].name = name
Serving(q) == nbRequest[q].op # "none"

\* Boot: loadEnabledNorthboundConfigs registers the enabled configurations
\* whose adapter initializes, all but those named in F, and
\* startNorthboundSchedulers sets the manager's enabled flags.
Booted(rows, F) ==
    [n \in NbName |->
        IF n \notin F /\ \E i \in DOMAIN rows : rows[i].name = n /\ rows[i].enabled
        THEN [version |-> (CHOOSE c \in {rows[i] : i \in DOMAIN rows} : c.name = n).version, started |-> TRUE]
        ELSE NoAdapter]
BootFlags(rows) == [n \in NbName |-> \E i \in DOMAIN rows : rows[i].name = n /\ rows[i].enabled]
Present(A) == {n \in NbName : A[n] # NoAdapter}

NorthboundInit ==
    /\ \E D \in SUBSET NbId :
        nbRows \in {r \in [D -> Config] :
            /\ \A i \in D : r[i].id = i /\ r[i].version = 0
            /\ \A i, j \in D : r[i].name = r[j].name => i = j}
    /\ nbAdapters = Booted(nbRows, {}) /\ nbEnabled = BootFlags(nbRows)
    /\ nbRequest = [q \in NbRequest |-> NoNbRequest]
    /\ connections = Cardinality(Present(nbAdapters))
    /\ nbRequests = 0 /\ initFaults = 0 /\ dbFaults = 0 /\ restarts = 0 /\ excused = {}

-----------------------------------------------------------------------------
(* What the operations have to do, and what undoes them.                    *)

\* newNorthboundRuntimeRebuilder.
Rebuild(c) ==
    IF c.enabled
    THEN <<Do("remove", c), Do("initialize", c), Do("register", c), Do("start", c)>>
    ELSE <<Do("remove", c), Do("disable", c)>>

\* replaceRuntime.
Replace(old, new) ==
    IF old.name = new.name THEN Rebuild(new) ELSE <<Do("remove", old)>> \o Rebuild(new)

Flipped(c) == [c EXCEPT !.enabled = ~@]

CreateSteps(new)      == Rebuild(new) \o <<Do("insert", new)>>
UpdateSteps(old, new) == Replace(old, new) \o <<Do("save", new)>>
DeleteSteps(old)      == <<Do("delete", old), Do("remove", old)>>
ToggleSteps(old)      == <<Do("flag", Flipped(old))>> \o Rebuild(Flipped(old))
\* RuntimeAdapterForConfig rebuilds an enabled adapter that is missing.
SyncSteps(old)        == <<Do("missing", old)>>

\* What is done when a step fails; nothing undoes a failure of an undo.
\* Wrong variant: a failed update does not bring the old adapter back.
UndoNoRollback(op, failed, old, new) ==
    CASE failed = "insert" -> <<Do("remove", new)>>
      [] failed = "save" -> <<Do("remove", new)>>
      [] op = "toggle" /\ failed = "initialize" -> <<Do("flag", old)>> \o Rebuild(old)
      [] OTHER -> <<>>
Undo(op, failed, old, new) ==
    CASE failed = "insert" -> <<Do("remove", new)>>
      [] failed = "save" -> <<Do("remove", new)>> \o Rebuild(old)
      [] op = "update" /\ failed = "initialize" -> Rebuild(old)
      [] op = "toggle" /\ failed = "initialize" -> <<Do("flag", old)>> \o Rebuild(old)
      [] OTHER -> <<>>

-----------------------------------------------------------------------------
(* A request arrives.  LoadNorthboundConfig has read its row by then; the   *)
(* new configuration has passed normalizeNorthboundConfig and               *)
(* validateNorthboundConfig.                                                *)

\* Requests for the row, whatever name it has had since they read it, or for
\* one of the names.
Overlapping(i, names) ==
    {p \in NbRequest : Serving(p) /\ (nbRequest[p].new.id = i \/ nbRequest[p].names \cap names # {})}

Arrive(q, op, old, new, todo) ==
    /\ ~Serving(q) /\ nbRequests < MaxRequests /\ nbRequests' = nbRequests + 1
    /\ LET names == {old.name, new.name}
           others == Overlapping(new.id, names)
       IN  nbRequest' = [p \in NbRequest |->
              IF p = q THEN [op |-> op, old |-> old, new |-> new, todo |-> todo,
                             names |-> names, undoing |-> FALSE, clean |-> others = {}]
              ELSE IF p \in others THEN [nbRequest[p] EXCEPT !.clean = FALSE]
              ELSE nbRequest[p]]
    /\ UNCHANGED <<nbRows, nbAdapters, nbEnabled, connections, initFaults, dbFaults, restarts, excused>>

\* The configuration of a request, normalized.
Submitted(i, name, on) == [id |-> i, name |-> name, enabled |-> on, version |-> nbRequests + 1]

CreateNorthboundConfig(q, name, on) ==
    \E i \in NbId \ DOMAIN nbRows :
        /\ \A p \in NbRequest : Serving(p) => nbRequest[p].op # "create" \/ nbRequest[p].new.id # i
        /\ LET new == Submitted(i, name, on) IN Arrive(q, "create", new, new, CreateSteps(new))

UpdateNorthboundConfig(q, i, name, on) ==
    LET new == Submitted(i, name, on) IN
    i \in DOMAIN nbRows /\ Arrive(q, "update", nbRows[i], new, UpdateSteps(nbRows[i], new))

DeleteNorthboundConfig(q, i) ==
    i \in DOMAIN nbRows /\ Arrive(q, "delete", nbRows[i], nbRows[i], DeleteSteps(nbRows[i]))

ToggleNorthboundEnable(q, i) ==
    i \in DOMAIN nbRows /\ Arrive(q, "toggle", nbRows[i], nbRows[i], ToggleSteps(nbRows[i]))

ReloadNorthboundConfig(q, i) ==
    i \in DOMAIN nbRows /\ Arrive(q, "reload", nbRows[i], nbRows[i], Rebuild(nbRows[i]))

\* Only of a configuration that is enabled.
SyncNorthboundDevices(q, i) ==
    /\ i \in DOMAIN nbRows /\ nbRows[i].enabled
    /\ Arrive(q, "sync", nbRows[i], nbRows[i], SyncSteps(nbRows[i]))

-----------------------------------------------------------------------------
(* The steps.                                                               *)

At(q, what) == nbRequest[q].todo # <<>> /\ Head(nbRequest[q].todo).do = what
Arg(q) == Head(nbRequest[q].todo).config

\* The request goes on with todo; one that has nothing left to do is over, and
\* if nothing failed or overlapped, the runtime of its names is right again.
Goes(q, todo, excuses) ==
    LET r == nbRequest[q]
    IN  IF todo # <<>>
        THEN /\ nbRequest' = [nbRequest EXCEPT ![q].todo = todo]
             /\ excused' = excused \cup excuses
        ELSE /\ nbRequest' = [nbRequest EXCEPT ![q] = NoNbRequest]
             /\ excused' = IF r.clean /\ ~r.undoing THEN excused \ r.names
                           ELSE excused \cup excuses \cup (IF r.clean THEN {} ELSE r.names)
GoesOn(q) == Goes(q, Tail(nbRequest[q].todo), {})

\* The request is over and has left the runtime as it was.
LeavesAlone(q) ==
    /\ nbRequest' = [nbRequest EXCEPT ![q] = NoNbRequest]
    /\ excused' = excused \cup (IF nbRequest[q].clean THEN {} ELSE nbRequest[q].names)

\* A step fails, and what undoes the request is done.  A row that has the name
\* the request wanted loses its adapter for nothing.
Fails(q, what) ==
    LET r == nbRequest[q]
        undo == IF r.undoing THEN <<>> ELSE Undo(r.op, what, r.old, r.new)
        victims == {n \in {r.new.name} : \E i \in DOMAIN nbRows : i # r.new.id /\ nbRows[i].name = n}
        unserved == IF what = "initialize" /\ undo = <<>> THEN {Arg(q).name} ELSE {}
        overlapped == IF undo = <<>> /\ ~r.clean THEN r.names ELSE {}
    IN  /\ nbRequest' = [nbRequest EXCEPT ![q] =
                IF undo = <<>> THEN NoNbRequest ELSE [@ EXCEPT !.todo = undo, !.undoing = TRUE]]
        /\ excused' = excused \cup victims \cup unserved \cup overlapped

\* UnregisterAdapter (and SetInterval, which only status pages read).
Unregister(q) ==
    /\ At(q, "remove")
    /\ LET n == Arg(q).name
       IN  /\ nbAdapters' = [nbAdapters EXCEPT ![n] = NoAdapter]
           /\ nbEnabled' = [nbEnabled EXCEPT ![n] = FALSE]
           /\ connections' = IF nbAdapters[n] = NoAdapter THEN connections ELSE connections - 1
    /\ GoesOn(q)
    /\ UNCHANGED <<nbRows, nbRequests, initFaults, dbFaults, restarts>>

\* SetEnabled stops, or starts, whatever adapter has the name by now.
SetEnabled(n, on) ==
    /\ nbEnabled' = [nbEnabled EXCEPT ![n] = on]
    /\ nbAdapters' = IF nbAdapters[n] = NoAdapter THEN nbAdapters
                     ELSE [nbAdapters EXCEPT ![n].started = on]

Disable(q) ==
    /\ At(q, "disable") /\ SetEnabled(Arg(q).name, FALSE) /\ GoesOn(q)
    /\ UNCHANGED <<nbRows, connections, nbRequests, initFaults, dbFaults, restarts>>

Initialize(q) ==
    /\ At(q, "initialize") /\ connections' = connections + 1 /\ GoesOn(q)
    /\ UNCHANGED <<nbRows, nbAdapters, nbEnabled, nbRequests, initFaults, dbFaults, restarts>>

InitializeFails(q) ==
    /\ At(q, "initialize") /\ initFaults < MaxInitFaults /\ initFaults' = initFaults + 1
    /\ SetEnabled(Arg(q).name, FALSE) /\ Fails(q, "initialize")
    /\ UNCHANGED <<nbRows, connections, nbRequests, dbFaults, restarts>>

\* RegisterAdapter closes the adapter another request has registered meanwhile.
\* Wrong variant: it only replaces it.
RegisterKeepsOld(n) == connections
RegisterCloses(n) == IF nbAdapters[n] = NoAdapter THEN connections ELSE connections - 1

Register(q) ==
    /\ At(q, "register")
    /\ LET c == Arg(q)
       IN  /\ nbAdapters' = [nbAdapters EXCEPT ![c.name] = [version |-> c.version, started |-> FALSE]]
           /\ nbEnabled' = [nbEnabled EXCEPT ![c.name] = TRUE]
           /\ connections' = RegisterCloses(c.name)
    /\ GoesOn(q)
    /\ UNCHANGED <<nbRows, nbRequests, initFaults, dbFaults, restarts>>

Start(q) ==
    /\ At(q, "start") /\ SetEnabled(Arg(q).name, TRUE) /\ GoesOn(q)
    /\ UNCHANGED <<nbRows, connections, nbRequests, initFaults, dbFaults, restarts>>

\* GetAdapter of a sync: the runtime is rebuilt only if it is missing; one that
\* is there stays, be it the right one or not.
Missing(q) ==
    /\ At(q, "missing")
    /\ IF nbAdapters[Arg(q).name] # NoAdapter THEN LeavesAlone(q) ELSE Goes(q, Rebuild(Arg(q)), {})
    /\ UNCHANGED <<nbRows, nbAdapters, nbEnabled, connections, nbRequests, initFaults, dbFaults, restarts>>

\* The statements of northbound_store.go.  UPDATE and DELETE of a row that is
\* gone change nothing and are no error; the name is UNIQUE.
Put(i, c)  == [j \in DOMAIN nbRows \cup {i} |-> IF j = i THEN c ELSE nbRows[j]]
There(c)   == c.id \in DOMAIN nbRows
Inserted(c) == Put(c.id, c)
Saved(c)   == IF There(c) THEN Put(c.id, c) ELSE nbRows
Flagged(c) == IF There(c) THEN Put(c.id, [nbRows[c.id] EXCEPT !.enabled = c.enabled]) ELSE nbRows
Deleted(c) == [j \in DOMAIN nbRows \ {c.id} |-> nbRows[j]]
NbWritten(q) ==
    CASE At(q, "insert") -> Inserted(Arg(q))
      [] At(q, "save")   -> Saved(Arg(q))
      [] At(q, "flag")   -> Flagged(Arg(q))
      [] At(q, "delete") -> Deleted(Arg(q))
Refused(q) ==
    \/ At(q, "insert") /\ Taken(Arg(q).name)
    \/ At(q, "save") /\ \E i \in DOMAIN nbRows :
            i # Arg(q).id /\ There(Arg(q)) /\ nbRows[i].name = Arg(q).name

Statement == {"insert", "save", "flag", "delete"}

Write(q) ==
    /\ \E s \in Statement : At(q, s)
    /\ ~Refused(q) /\ nbRows' = NbWritten(q) /\ GoesOn(q)
    /\ UNCHANGED <<nbAdapters, nbEnabled, connections, nbRequests, initFaults, dbFaults, restarts>>

\* The error of an undo's statement is ignored.
WriteFails(q) ==
    /\ \E s \in Statement :
        /\ At(q, s)
        /\ \/ Refused(q) /\ UNCHANGED dbFaults
           \/ dbFaults < MaxDBFaults /\ dbFaults' = dbFaults + 1
        /\ IF nbRequest[q].undoing
           THEN Goes(q, Tail(nbRequest[q].todo), {Arg(q).name})
           ELSE Fails(q, s)
    /\ UNCHANGED <<nbRows, nbAdapters, nbEnabled, connections, nbRequests, initFaults, restarts>>

\* The process stops, wherever its requests are, and boots from the table.
Restart(F) ==
    /\ restarts < MaxRestarts /\ restarts' = restarts + 1
    /\ initFaults + Cardinality(F) <= MaxInitFaults /\ initFaults' = initFaults + Cardinality(F)
    /\ nbAdapters' = Booted(nbRows, F) /\ nbEnabled' = BootFlags(nbRows)
    /\ connections' = Cardinality(Present(Booted(nbRows, F)))
    /\ nbRequest' = [q \in NbRequest |-> NoNbRequest] /\ excused' = F
    /\ UNCHANGED <<nbRows, nbRequests, dbFaults>>

NorthboundNext ==
    \/ \E q \in NbRequest, n \in NbName, on \in BOOLEAN :
            CreateNorthboundConfig(q, n, on) \/ \E i \in NbId : UpdateNorthboundConfig(q, i, n, on)
    \/ \E q \in NbRequest, i \in NbId :
            \/ DeleteNorthboundConfig(q, i) \/ ToggleNorthboundEnable(q, i)
            \/ ReloadNorthboundConfig(q, i) \/ SyncNorthboundDevices(q, i)
    \/ \E q \in NbRequest :
            \/ Unregister(q) \/ Disable(q) \/ Initialize(q) \/ InitializeFails(q) \/ Register(q)
            \/ Start(q) \/ Missing(q) \/ Write(q) \/ WriteFails(q)
    \/ \E F \in SUBSET NbName : Restart(F)

NorthboundSpec == NorthboundInit /\ [][NorthboundNext]_NorthboundVars

-----------------------------------------------------------------------------
NorthboundTypeOK ==
    /\ DOMAIN nbRows \subseteq NbId /\ \A i \in DOMAIN nbRows : nbRows[i] \in Config /\ nbRows[i].id = i
    /\ nbAdapters \in [NbName -> [version : -1 .. MaxRequests, started : BOOLEAN]]
    /\ nbEnabled \in [NbName -> BOOLEAN] /\ excused \subseteq NbName
    /\ \A q \in NbRequest : Serving(q) =>
        /\ nbRequest[q].op \in Operation /\ nbRequest[q].old \in Config /\ nbRequest[q].new \in Config
        /\ nbRequest[q].todo # <<>>
    /\ connections \in Nat

\* Between requests the adapter of every name is the one its configuration
\* asks for: it runs the saved version, started and enabled, or there is none
\* when the configuration is disabled or gone.  This holds through every
\* failure of a step that is rolled back, and again after the next request
\* that rebuilds or removes the name's adapter and succeeds, or the next boot;
\* a rollback that fails itself, a name that another row has, and requests
\* that overlap, in a name or in their row, are the exceptions.
RuntimeFollowsDB ==
    (\A q \in NbRequest : ~Serving(q)) =>
        \A n \in NbName \ excused :
            LET rows == {nbRows[i] : i \in {j \in DOMAIN nbRows : nbRows[j].name = n /\ nbRows[j].enabled}}
            IN  IF rows = {} THEN nbAdapters[n] = NoAdapter /\ ~nbEnabled[n]
                ELSE /\ nbEnabled[n]
                     /\ \A c \in rows : nbAdapters[n] = [version |-> c.version, started |-> TRUE]

\* However requests overlap, no adapter that has connected is forgotten: each
\* is registered under its name, or is in the hands of the request that will
\* register it, so that Stop and Close reach it.
NoConnectionForgotten ==
    connections = Cardinality(Present(nbAdapters)) + Cardinality({q \in NbRequest : At(q, "register")})

\* The adapters that run are those the table asks for, and none is forgotten.
AdaptersFollow == NorthboundTypeOK /\ RuntimeFollowsDB /\ NoConnectionForgotten
=============================================================================

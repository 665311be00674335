----------------------------- MODULE Resources -----------------------------
(***************************************************************************)
(* A network resource between the database, the handlers that edit it and  *)
(* the executor's caches: internal/httpapi/resource_write.go, service/     *)
(* resource_service.go, database/resource_store.go and, in driver/, the    *)
(* path cache and the connection a collection uses.                        *)
(*                                                                         *)
(* A handler writes the row first and then brings the caches in line; a    *)
(* collection takes the path from the cache, or else from the row, or else *)
(* from its device, and then locks the resource for its plugin call.  No   *)
(* lock covers a handler and a collection.                                 *)
(*                                                                         *)
(* The plugin's first transfer dials, and locks the resource to do so: it  *)
(* blocks on the mutex its own collection holds, unless CloseResource has  *)
(* thrown that mutex away meanwhile.                                       *)
(***************************************************************************)
EXTENDS Naturals

CONSTANTS
    ResRequest,      \* handlers at work at once
    ResPath,         \* paths a resource may be given
    DevicePath,      \* the address of the device itself, "" if it has none
    MaxResEdits,     \* bound: requests
    MaxResFaults     \* bound: statements, dials and transfers that fail

ASSUME ResourcesAssumption == MaxResEdits \in Nat /\ MaxResFaults \in Nat

VARIABLES
    row,             \* the row, or Gone
    path, conn,      \* the executor's cached path and the path its connection leads to, or ""
    edit,            \* [ResRequest -> [op, pc, body]]
    fetch,           \* the collection: [pc, seen]
    mine,            \* the collection holds the mutex that resourceMux has
    raced,           \* a step used what another one had changed, and no edit has closed the resource since
    resEdits, resFaults

ResourcesVars == <<row, path, conn, edit, fetch, mine, raced, resEdits, resFaults>>

Rows == [type : {"net", "serial"}, path : ResPath \cup {""}, enabled : BOOLEAN]
Gone == [type |-> "gone", path |-> "", enabled |-> FALSE]
NoEdit == [op |-> "none", pc |-> "idle", body |-> Gone]
NoFetch == [pc |-> "idle", seen |-> ""]

ResourcesInit ==
    /\ row \in {r \in Rows : r.type = "net" /\ r.enabled}
    /\ path = "" /\ conn = ""
    /\ edit = [q \in ResRequest |-> NoEdit] /\ fetch = NoFetch /\ mine = FALSE
    /\ raced = FALSE /\ resEdits = 0 /\ resFaults = 0

-----------------------------------------------------------------------------
(* The executor.                                                            *)

\* Wrong variant: the connection to the old path is kept.
SetResourcePathOnly(p) == path' = p /\ UNCHANGED conn
\* Another path closes the connection; an empty one is forgotten.
SetResourcePath(p) ==
    /\ path' = p
    /\ conn' = IF path # "" /\ path # p THEN "" ELSE conn

\* The mutex goes too, whoever holds it.
CloseResource == path' = "" /\ conn' = "" /\ mine' = FALSE

Closes(b) == ~b.enabled \/ b.type # "net"
RefreshResource(b) ==
    IF Closes(b) THEN CloseResource ELSE SetResourcePath(b.path) /\ UNCHANGED mine

-----------------------------------------------------------------------------
(* Handlers.                                                                *)

EditEnds(q) == edit' = [edit EXCEPT ![q] = NoEdit]
EditGoes(q, pc) == edit' = [edit EXCEPT ![q].pc = pc]

\* The resource must be there; a toggle remembers it as it was, flipped.
Begin(q, op, b) ==
    /\ edit[q].pc = "idle" /\ row # Gone
    /\ resEdits < MaxResEdits /\ resEdits' = resEdits + 1
    /\ edit' = [edit EXCEPT ![q] = [op |-> op, pc |-> "write", body |-> b]]
    /\ UNCHANGED <<row, path, conn, fetch, mine, raced, resFaults>>

UpdateResource(q) == \E b \in Rows : Begin(q, "update", b)
DeleteResource(q) == Begin(q, "delete", Gone)
ToggleResource(q) == Begin(q, "toggle", [row EXCEPT !.enabled = ~@])

\* The statement of the request; it changes nothing if the row has gone.
Stored(e) ==
    IF row = Gone \/ e.op = "delete" THEN Gone
    ELSE IF e.op = "toggle" THEN [row EXCEPT !.enabled = e.body.enabled]
    ELSE e.body

ResourceStatement(q) ==
    /\ edit[q].pc = "write"
    /\ row' = Stored(edit[q]) /\ EditGoes(q, "refresh")
    /\ UNCHANGED <<path, conn, fetch, mine, raced, resEdits, resFaults>>

ResourceFails(q) ==
    /\ edit[q].pc = "write" /\ resFaults < MaxResFaults /\ resFaults' = resFaults + 1
    /\ EditEnds(q)
    /\ UNCHANGED <<row, path, conn, fetch, mine, raced, resEdits>>

\* The caches follow the request, not the row as it is now.  Whatever was
\* wrong before, a request that closes the resource leaves nothing behind.
Refresh(q) ==
    LET b == edit[q].body IN
    /\ edit[q].pc = "refresh" /\ EditEnds(q)
    /\ RefreshResource(b)
    /\ raced' = IF Closes(b) THEN FALSE ELSE raced \/ b.path # row.path
    /\ UNCHANGED <<row, fetch, resEdits, resFaults>>

-----------------------------------------------------------------------------
(* A collection: ensureResourcePath, then the plugin and GetTCPConn.        *)

FetchGoes(pc, seen) == fetch' = [pc |-> pc, seen |-> seen]
KeepEdits == UNCHANGED <<row, edit, resEdits>>

EnsureResourcePath ==
    /\ fetch.pc = "idle"
    /\ FetchGoes(IF path = "" THEN "load" ELSE "lock", "") /\ KeepEdits
    /\ UNCHANGED <<path, conn, mine, raced, resFaults>>

LoadResource ==
    /\ fetch.pc = "load"
    /\ FetchGoes(IF row.path # "" THEN "set" ELSE "fallback", row.path) /\ KeepEdits
    /\ UNCHANGED <<path, conn, mine, raced, resFaults>>

SetLoaded ==
    /\ fetch.pc = "set" /\ SetResourcePath(fetch.seen) /\ FetchGoes("lock", "")
    /\ raced' = (raced \/ row.path # fetch.seen) /\ KeepEdits
    /\ UNCHANGED <<mine, resFaults>>

Fallback ==
    /\ fetch.pc = "fallback" /\ FetchGoes("lock", "")
    /\ IF path = "" /\ DevicePath # ""
       THEN SetResourcePath(DevicePath) /\ raced' = (raced \/ row.path # "")
       ELSE UNCHANGED <<path, conn, raced>>
    /\ KeepEdits /\ UNCHANGED <<mine, resFaults>>

LockResource ==
    /\ fetch.pc = "lock" /\ FetchGoes("plugin", "") /\ mine' = TRUE /\ KeepEdits
    /\ UNCHANGED <<path, conn, raced, resFaults>>

\* A transfer with no connection dials, if there is a path.
Transfer ==
    /\ fetch.pc = "plugin" /\ conn = "" /\ path # ""
    /\ FetchGoes("dial_lock", path) /\ KeepEdits
    /\ UNCHANGED <<path, conn, mine, raced, resFaults>>

\* A transfer that fails gives the connection up.
TransferFails ==
    /\ fetch.pc = "plugin" /\ conn # "" /\ conn' = ""
    /\ resFaults < MaxResFaults /\ resFaults' = resFaults + 1
    /\ KeepEdits /\ UNCHANGED <<path, fetch, mine, raced>>

\* Its own mutex is never free again: the collection is blocked for good.
DialLock ==
    /\ fetch.pc = "dial_lock"
    /\ FetchGoes(IF mine THEN "blocked" ELSE "dial", fetch.seen) /\ KeepEdits
    /\ UNCHANGED <<path, conn, mine, raced, resFaults>>

KeepConnection ==
    /\ fetch.pc = "dial" /\ FetchGoes("plugin", "")
    /\ \/ conn' = fetch.seen /\ raced' = (raced \/ path # fetch.seen) /\ UNCHANGED resFaults
       \/ UNCHANGED <<conn, raced>> /\ resFaults < MaxResFaults /\ resFaults' = resFaults + 1
    /\ KeepEdits /\ UNCHANGED <<path, mine>>

CollectionEnds ==
    /\ fetch.pc = "plugin" /\ fetch' = NoFetch /\ mine' = FALSE /\ KeepEdits
    /\ UNCHANGED <<path, conn, raced, resFaults>>

ResourcesNext ==
    \/ \E q \in ResRequest : \/ UpdateResource(q) \/ DeleteResource(q) \/ ToggleResource(q)
                             \/ ResourceStatement(q) \/ ResourceFails(q) \/ Refresh(q)
    \/ EnsureResourcePath \/ LoadResource \/ SetLoaded \/ Fallback \/ LockResource
    \/ Transfer \/ TransferFails \/ DialLock \/ KeepConnection \/ CollectionEnds

ResourcesSpec == ResourcesInit /\ [][ResourcesNext]_ResourcesVars

-----------------------------------------------------------------------------
\* The address a collection should use now.
Address == IF row.path # "" THEN row.path ELSE DevicePath

Refreshing == {q \in ResRequest : edit[q].pc = "refresh"}

\* With no edit between its statement and its refresh, the cached path and the
\* open connection lead where the row, or else the device, says.  Only a step
\* that used a path another one had changed since it was read may break this,
\* and an edit that closes the resource makes good for it.
ConnectionFollowsRow ==
    Refreshing = {} /\ ~raced => path \in {"", Address} /\ conn \in {"", Address}
=============================================================================

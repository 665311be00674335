------------------------------ MODULE Startup ------------------------------
(***************************************************************************)
(* Opening the databases and upgrading param.db at every start:            *)
(* internal/app/database_bootstrap.go, database/db.go, migration.go and    *)
(* the Init and ensure functions of the stores, over a param.db an earlier *)
(* release left.  The process may die between any two statements, and an   *)
(* error ends it too (Run returns): both are Crash, after which the next   *)
(* start begins again with what is committed.                              *)
(*                                                                         *)
(* The data: one resource with an address in its old column port, one      *)
(* device bound to it, one threshold of the device.  SQLite is external:   *)
(* a statement commits by itself unless it is in a transaction; the schema *)
(* script turns foreign keys on, so that DROP TABLE deletes the rows first *)
(* and the references to them follow their ON DELETE.                      *)
(***************************************************************************)
EXTENDS Naturals, Sequences

CONSTANTS
    MaxCrashes,    \* bound: times the process dies
    MaxStarts      \* bound: times it starts

ASSUME StartupAssumption == MaxCrashes \in Nat /\ MaxStarts \in Nat

VARIABLES
    db,            \* param.db as the open connection sees it
    committed,     \* param.db as a new process would find it
    boot,          \* the statement the start has come to
    ensured,       \* lazily upgraded tables this process has upgraded
    origin,        \* the release that wrote the file
    settled,       \* the data as a complete start or its administrator left it; empty before
    starts, crashes, unfilled

StartupVars == <<db, committed, boot, ensured, origin, settled, starts, crashes, unfilled>>

Table == {"users", "resources", "devices", "northbound", "thresholds"}

\* A resource row: its type, and what is left of its address in each column.
NoRow == [type |-> "none", port |-> FALSE, path |-> FALSE]
AResource(t) == [type |-> t, port |-> TRUE, path |-> FALSE]

Blank == [tables |-> {}, users |-> 0, gateways |-> 0, audit |-> FALSE, unused |-> FALSE,
          res |-> NoRow, resNew |-> FALSE, hasPath |-> FALSE, hasPort |-> TRUE, allowsNet |-> TRUE,
          dev |-> FALSE, devNew |-> FALSE, bound |-> FALSE, devCols |-> TRUE, devLegacy |-> TRUE,
          rule |-> FALSE, shielded |-> TRUE, ruleEnabled |-> FALSE, nbCols |-> FALSE]

\* What migrations/001, 005 and 002 and the current release leave, the
\* thresholds of the first two as ensureThresholdColumns expects old ones.
Left(rel, t) ==
    [Blank EXCEPT !.tables = Table, !.users = 1, !.dev = TRUE, !.bound = TRUE, !.rule = TRUE,
        !.res = IF rel = "current" THEN [type |-> t, port |-> FALSE, path |-> TRUE] ELSE AResource(t),
        !.unused = rel = "001", !.allowsNet = rel # "001",
        !.devCols = rel \notin {"001", "005"}, !.shielded = rel \notin {"001", "005"},
        !.ruleEnabled = rel \in {"001", "005"},
        !.hasPath = rel = "current", !.hasPort = rel # "current", !.devLegacy = rel # "current",
        !.gateways = IF rel = "current" THEN 1 ELSE 0, !.audit = rel = "current",
        !.nbCols = rel = "current"]

Origins ==
    {<<"fresh", Blank>>} \cup {<<r, Left(r, "serial")>> : r \in {"001", "005", "002", "current"}}
    \cup {<<r, Left(r, "network")>> : r \in {"001", "005"}}

StartupInit ==
    /\ \E o \in Origins : origin = o /\ db = o[2] /\ committed = o[2]
    /\ boot = "down" /\ ensured = {} /\ settled = <<>> /\ starts = 0 /\ crashes = 0 /\ unfilled = FALSE

-----------------------------------------------------------------------------
(* Statements.                                                              *)

Exec(d) == db' = d /\ committed' = d
\* Wrong variant: every statement of a rebuild commits by itself.
ExecAlone(d) == db' = d /\ committed' = d
ExecTx(d) == db' = d /\ UNCHANGED committed

Goto(next) == boot' = next
Go(from, next) == boot = from /\ Goto(next)

\* The next process rolls back what was not committed.
Crash ==
    /\ boot # "down" /\ crashes < MaxCrashes /\ crashes' = crashes + 1
    /\ boot' = "down" /\ db' = committed /\ ensured' = {}
    /\ unfilled' = (unfilled \/ boot = "backfill")
    /\ UNCHANGED <<committed, origin, settled, starts>>

KeepRest == UNCHANGED <<ensured, origin, settled, starts, crashes, unfilled>>

-----------------------------------------------------------------------------
(* initDatabases and InitParamSchema.                                       *)

OpenDatabases ==
    /\ starts < MaxStarts /\ starts' = starts + 1
    /\ Go("down", "schema")
    /\ UNCHANGED <<db, committed, ensured, origin, settled, crashes, unfilled>>

\* 002_param_schema.sql: CREATE TABLE IF NOT EXISTS, one after the other.
Ordered == <<"users", "resources", "devices", "northbound", "thresholds">>
Created(d, t) ==
    [d EXCEPT !.tables = @ \cup {t}, !.res = IF t = "resources" THEN NoRow ELSE @,
              !.dev = @ /\ t # "devices"]
CreateTable ==
    /\ boot = "schema" /\ UNCHANGED boot
    /\ \E i \in DOMAIN Ordered :
         /\ Ordered[i] \notin db.tables /\ \A j \in 1 .. i - 1 : Ordered[j] \in db.tables
         /\ Exec(Created(db, Ordered[i]))
    /\ KeepRest

DropUnused ==
    /\ Table \subseteq db.tables /\ Go("schema", "path")
    /\ Exec([db EXCEPT !.unused = FALSE]) /\ KeepRest

-----------------------------------------------------------------------------
(* InitResourceTable.                                                       *)

EnsurePathColumn ==
    /\ boot = "path"
    /\ IF db.hasPath THEN Goto("constraint") /\ UNCHANGED <<db, committed>>
       ELSE Goto("backfill") /\ Exec([db EXCEPT !.hasPath = TRUE])
    /\ KeepRest

\* The address goes from port to path; an error of this statement is ignored.
Backfill ==
    /\ Go("backfill", "constraint")
    /\ Exec([db EXCEPT !.res.path = @ \/ (db.hasPort /\ db.res.port)]) /\ KeepRest
BackfillFails ==
    /\ Go("backfill", "constraint") /\ unfilled' = TRUE
    /\ UNCHANGED <<db, committed, ensured, origin, settled, starts, crashes>>

EnsureTypeConstraint ==
    /\ boot = "constraint"
    /\ IF db.allowsNet THEN Goto("legacy_res") /\ UNCHANGED <<db, committed>>
       ELSE ~db.resNew /\ Goto("narrow_copy") /\ ExecTx([db EXCEPT !.resNew = TRUE])
    /\ KeepRest

\* The copy keeps the types: one the new CHECK does not allow ends the start.
NarrowCopy ==
    /\ Go("narrow_copy", "narrow_drop") /\ db.res.type # "network"
    /\ ExecTx(db) /\ KeepRest
NarrowCopyFails ==
    /\ Go("narrow_copy", "down") /\ db.res.type = "network"
    /\ db' = committed /\ UNCHANGED committed /\ KeepRest

\* DROP TABLE resources sets the devices' references to NULL.
Unbound(d) == [d EXCEPT !.tables = @ \ {"resources"}, !.bound = FALSE]
NarrowDrop == Go("narrow_drop", "narrow_rename") /\ ExecTx(Unbound(db)) /\ KeepRest
\* The new table has path, and neither port nor address.
Renamed(d) ==
    [d EXCEPT !.tables = @ \cup {"resources"}, !.resNew = FALSE, !.allowsNet = TRUE,
              !.hasPort = FALSE, !.res.port = FALSE]
NarrowCommit == Go("narrow_rename", "legacy_res") /\ Exec(Renamed(db)) /\ KeepRest

\* Wrong variants: the table is rebuilt at every start, or by its new column.
AlwaysLegacy(d) == TRUE
LegacyWithoutPath(d) == ~d.hasPath
LegacyResource(d) == d.hasPort
CleanupResource ==
    /\ boot = "legacy_res"
    /\ IF ~LegacyResource(db) THEN Goto("gateway") /\ UNCHANGED <<db, committed>>
       ELSE ~db.resNew /\ Goto("res_copy") /\ ExecTx([db EXCEPT !.resNew = TRUE])
    /\ KeepRest
\* Wrong variant: the address is copied from the new column only.
CopiedPathOnly(r) == [r EXCEPT !.type = IF @ = "network" THEN "net" ELSE @]
Copied(r) == [r EXCEPT !.type = IF @ = "network" THEN "net" ELSE @, !.path = @ \/ r.port]
ResourceCopy == Go("res_copy", "res_drop") /\ ExecTx([db EXCEPT !.res = Copied(@)]) /\ KeepRest
ResourceDrop == Go("res_drop", "res_rename") /\ ExecTx(Unbound(db)) /\ KeepRest
ResourceCommit == Go("res_rename", "gateway") /\ Exec(Renamed(db)) /\ KeepRest

-----------------------------------------------------------------------------
(* InitGatewayConfigTable, InitRuntimeConfigAuditTable, InitDeviceTable.    *)

DefaultGateway(n) == IF n = 0 THEN 1 ELSE n
InitGatewayConfigTable ==
    Go("gateway", "audit") /\ Exec([db EXCEPT !.gateways = DefaultGateway(@)]) /\ KeepRest
InitRuntimeConfigAuditTable == Go("audit", "columns") /\ Exec([db EXCEPT !.audit = TRUE]) /\ KeepRest

\* Columns that are there already give errors, which are ignored.
InitDeviceTable == Go("columns", "legacy_dev") /\ Exec([db EXCEPT !.devCols = TRUE]) /\ KeepRest

LegacyDevice(d) == d.devLegacy
CleanupDevice ==
    /\ boot = "legacy_dev"
    /\ IF ~LegacyDevice(db) THEN Goto("data") /\ UNCHANGED <<db, committed>>
       ELSE ~db.devNew /\ Goto("dev_drop") /\ ExecTx([db EXCEPT !.devNew = TRUE])
    /\ KeepRest
\* DROP TABLE devices deletes the thresholds of the devices.
DeviceDrop ==
    /\ Go("dev_drop", "dev_rename")
    /\ ExecTx([db EXCEPT !.tables = @ \ {"devices"}, !.rule = FALSE]) /\ KeepRest
DeviceCommit ==
    /\ Go("dev_rename", "data")
    /\ Exec([db EXCEPT !.tables = @ \cup {"devices"}, !.devNew = FALSE, !.devLegacy = FALSE]) /\ KeepRest

\* InitDataSchema: data.db is in memory and new; failing indexes only warn.
InitDataSchema == Go("data", "defaults") /\ UNCHANGED <<db, committed>> /\ KeepRest

Data(d) == <<d.res, d.bound, d.dev, d.rule, d.users, d.gateways>>

DefaultUser(n) == IF n = 0 THEN 1 ELSE n
InitDefaultData ==
    /\ Go("defaults", "running")
    /\ Exec([db EXCEPT !.users = DefaultUser(@)])
    /\ settled' = IF settled = <<>> THEN Data(db') ELSE settled
    /\ UNCHANGED <<ensured, origin, starts, crashes, unfilled>>

\* While it runs, the administrator binds the device and gives it a threshold.
Rebind ==
    /\ boot = "running" /\ db.dev /\ ~(db.bound /\ db.rule)
    /\ Exec([db EXCEPT !.bound = TRUE, !.rule = TRUE]) /\ settled' = Data(db')
    /\ UNCHANGED <<boot, ensured, origin, starts, crashes, unfilled>>

-----------------------------------------------------------------------------
(* Upgrades at the first use of a table, once per process.                  *)

EnsureNorthboundColumns ==
    /\ boot = "running" /\ "northbound" \notin ensured
    /\ Exec([db EXCEPT !.nbCols = TRUE]) /\ ensured' = ensured \cup {"northbound"}
    /\ UNCHANGED <<boot, origin, settled, starts, crashes, unfilled>>

EnsureThresholdColumns ==
    /\ boot = "running" /\ "thresholds" \notin ensured
    /\ IF ~db.shielded THEN Exec([db EXCEPT !.shielded = TRUE]) /\ UNCHANGED ensured
       ELSE Exec([db EXCEPT !.ruleEnabled = FALSE]) /\ ensured' = ensured \cup {"thresholds"}
    /\ UNCHANGED <<boot, origin, settled, starts, crashes, unfilled>>

-----------------------------------------------------------------------------
Proceed ==
    \/ OpenDatabases \/ CreateTable \/ DropUnused
    \/ EnsurePathColumn \/ Backfill \/ EnsureTypeConstraint
    \/ NarrowCopy \/ NarrowCopyFails \/ NarrowDrop \/ NarrowCommit
    \/ CleanupResource \/ ResourceCopy \/ ResourceDrop \/ ResourceCommit
    \/ InitGatewayConfigTable \/ InitRuntimeConfigAuditTable
    \/ InitDeviceTable \/ CleanupDevice \/ DeviceDrop \/ DeviceCommit
    \/ InitDataSchema \/ InitDefaultData
    \/ EnsureNorthboundColumns \/ EnsureThresholdColumns

StartupNext == Proceed \/ BackfillFails \/ Rebind \/ Crash

\* A started process runs on, and whoever operates the gateway starts it again
\* while it is down: StartupComesUp is about a gateway that is wanted up.
StartupFairness == WF_StartupVars(Proceed)

StartupSpec == StartupInit /\ [][StartupNext]_StartupVars /\ StartupFairness

-----------------------------------------------------------------------------
StartupTypeOK ==
    /\ db.tables \subseteq Table /\ committed.tables \subseteq Table
    /\ db.users \in 0 .. 1 /\ db.gateways \in 0 .. 1
    /\ starts \in 0 .. MaxStarts /\ crashes \in 0 .. MaxCrashes
    /\ (boot = "down" => db = committed)

\* Whatever release wrote the file and wherever earlier starts died, a start
\* that is complete has found or made every table and the current columns,
\* one configuration and a user, and no rebuild is left half done.
SchemaCurrent ==
    boot = "running" =>
        /\ db = committed /\ db.tables = Table /\ db.users = 1 /\ db.gateways = 1 /\ db.audit
        /\ db.hasPath /\ ~db.hasPort /\ db.allowsNet /\ ~db.resNew
        /\ db.devCols /\ ~db.devLegacy /\ ~db.devNew /\ ~db.unused

Legacy(o) == o[1] \in {"001", "005", "002"}

\* The address of a resource is carried from port to path, whatever dies on
\* the way and even if the backfill fails.  The oldest schema is the
\* exception: its table is rebuilt for the types before the address is safe.
AddressKept ==
    boot = "running" /\ Legacy(origin) /\ (origin[1] = "001" => ~unfilled) => db.res.path

\* No resource and no device is lost between DROP and RENAME: at every moment
\* a new process would find both tables with their rows.
RowsKept ==
    origin[1] # "fresh" =>
        committed.res.type # "none" /\ committed.dev /\ {"resources", "devices"} \subseteq committed.tables

\* Once a start has been complete, no later start changes the data, nor what
\* the administrator has made of it: the rebuilds, whose DROP TABLE undoes
\* references, do not run again.
LaterStartsHarmless == settled # <<>> => Data(committed) = settled

\* The process that keeps dying in the middle of an upgrade comes up in the
\* end: no start finds a state it cannot go on from.  A network resource of
\* the oldest schema, which the new CHECK refuses, is the exception.
ComesUp ==
    (origin[1] = "001" => origin[2].res.type # "network") => <>(boot = "running")

\* A start, however often earlier ones died, ends with the current schema and
\* all the data, and later ones leave both alone.
UpgradeSound == StartupTypeOK /\ SchemaCurrent /\ AddressKept /\ RowsKept /\ LaterStartsHarmless
=============================================================================

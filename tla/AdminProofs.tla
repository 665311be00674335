---------------------------- MODULE AdminProofs ----------------------------
(***************************************************************************)
(* Proofs about modules Startup, Drivers, ProductKeys and ConfigLoad,      *)
(* which share no state: a start over the file of any release, however     *)
(* often earlier ones have died; any drivers, files and requests at once;  *)
(* any devices, keys and collections; a configuration file of any lines.   *)
(***************************************************************************)
EXTENDS Startup, Drivers, ProductKeys, ConfigLoad, WellFoundedInduction, TLAPS

-----------------------------------------------------------------------------
(* The upgrade of param.db.                                                 *)

Field == {"tables", "users", "gateways", "audit", "unused", "res", "resNew", "hasPath", "hasPort", "allowsNet",
          "dev", "devNew", "bound", "devCols", "devLegacy", "rule", "shielded", "ruleEnabled", "nbCols"}
Database(d) ==
    /\ DOMAIN d = Field /\ DOMAIN d.res = {"type", "port", "path"}
    /\ d.tables \subseteq Table /\ d.users \in 0 .. 1 /\ d.gateways \in 0 .. 1

\* The places of a start: before the tables are there, while it rebuilds
\* resources for its types and for its columns, while it rebuilds devices.
Opening == {"down", "schema"}
Narrowing == {"narrow_copy", "narrow_drop", "narrow_rename"}
Rebuilding == {"res_copy", "res_drop", "res_rename"}
Moving == {"dev_drop", "dev_rename"}
AfterDevices == {"data", "defaults", "running"}
AfterColumns == {"legacy_dev"} \cup Moving \cup AfterDevices
AfterResources == {"gateway", "audit", "columns"} \cup AfterColumns
AfterTypes == {"legacy_res"} \cup Rebuilding \cup AfterResources
BootPlace == Opening \cup {"path", "backfill", "constraint"} \cup Narrowing \cup AfterTypes

Transaction == Narrowing \cup Rebuilding \cup Moving
Dropped(p) ==
    CASE p \in {"narrow_rename", "res_rename"} -> {"resources"} [] p = "dev_rename" -> {"devices"}
      [] OTHER -> {}

\* What a start that has come to p has made of the schema d.
Reached(d, p) ==
    /\ p \notin Opening => ~d.unused /\ d.tables = Table \ Dropped(p)
    /\ p \notin Opening \cup {"path"} => d.hasPath
    /\ p \in Narrowing => ~d.allowsNet
    /\ p \in Rebuilding => d.hasPort
    /\ p \in AfterTypes => d.allowsNet
    /\ p \in AfterResources => ~d.hasPort
    /\ p \in AfterResources \ {"gateway"} => d.gateways = 1
    /\ p \in AfterResources \ {"gateway", "audit"} => d.audit
    /\ p \in AfterColumns => d.devCols
    /\ p \in AfterDevices => ~d.devLegacy
    /\ p = "running" => d.users = 1
    /\ (d.resNew => p \in Narrowing \cup Rebuilding) /\ (d.devNew => p \in Moving)

\* Where the address is, in a database d of an old release o.
AddressSafe(d, o, unf, p) ==
    Legacy(o) =>
        /\ d.hasPort => d.res.port
        /\ ~d.hasPort /\ (o[1] = "001" => ~unf) => d.res.path
        /\ o[1] = "001" /\ ~unf /\ p # "backfill" /\ d.hasPath => d.res.path
        /\ o[1] # "001" => d.allowsNet
RowsThere(d, o) == o[1] # "fresh" => d.res.type # "none" /\ d.dev

BootTyped == Database(db) /\ Database(committed) /\ boot \in BootPlace
Committed ==
    /\ boot \notin Transaction => db = committed
    /\ ~committed.resNew /\ ~committed.devNew
    /\ origin[1] # "fresh" => {"resources", "devices"} \subseteq committed.tables
Carried ==
    /\ AddressSafe(db, origin, unfilled, boot) /\ AddressSafe(committed, origin, unfilled, boot)
    /\ Legacy(origin) /\ boot \in {"res_drop", "res_rename"} => db.res.path
    /\ RowsThere(db, origin) /\ RowsThere(committed, origin)
\* After a complete start nothing is left to rebuild.
UpToDate(d) ==
    d.tables = Table /\ d.users = 1 /\ d.gateways = 1 /\ d.hasPath /\ ~d.hasPort /\ d.allowsNet /\ ~d.devLegacy
Complete ==
    settled # <<>> => Data(committed) = settled /\ UpToDate(committed) /\ boot \notin Transaction \cup {"backfill"}
Counted == starts \in 0 .. MaxStarts /\ crashes \in 0 .. MaxCrashes

\* The inductive invariant.
BootInv == BootTyped /\ Reached(db, boot) /\ Committed /\ Carried /\ Complete /\ Counted

LEMMA BootSafe == BootInv => UpgradeSound
<1> SUFFICES ASSUME BootInv PROVE UpgradeSound
  OBVIOUS
<1>0. BootTyped /\ Reached(db, boot) /\ Committed /\ Carried /\ Complete /\ Counted
  BY DEF BootInv
<1>1. StartupTypeOK
  BY <1>0 DEF BootTyped, Database, Committed, Counted, StartupTypeOK, Transaction, Narrowing, Rebuilding, Moving
<1>2. SchemaCurrent
  <2> SUFFICES ASSUME boot = "running" PROVE SchemaCurrent
    BY DEF SchemaCurrent
  <2>1. db = committed /\ Dropped(boot) = {}
    BY <1>0 DEF Committed, Transaction, Narrowing, Rebuilding, Moving, Dropped
  <2> QED BY <1>0, <2>1 DEF SchemaCurrent, Reached, Opening, AfterDevices, AfterColumns, AfterResources,
                            AfterTypes, Narrowing, Rebuilding, Moving
<1>3. AddressKept
  BY <1>0 DEF AddressKept, Carried, AddressSafe, Reached, AfterResources, AfterColumns, AfterDevices
<1>4. RowsKept
  BY <1>0 DEF RowsKept, Carried, RowsThere, Committed
<1>5. LaterStartsHarmless
  BY <1>0 DEF LaterStartsHarmless, Complete
<1> QED BY <1>1, <1>2, <1>3, <1>4, <1>5 DEF UpgradeSound

LEMMA LeftIs ==
    ASSUME NEW rel \in {"001", "005", "002", "current"}, NEW t \in {"serial", "network"}
    PROVE  /\ Database(Left(rel, t)) /\ ~Left(rel, t).resNew /\ ~Left(rel, t).devNew
           /\ Left(rel, t).tables = Table /\ RowsThere(Left(rel, t), <<rel, Left(rel, t)>>)
           /\ AddressSafe(Left(rel, t), <<rel, Left(rel, t)>>, FALSE, "down")
<1> DEFINE d == Left(rel, t)
           o == <<rel, d>>
<1>1. DOMAIN d = Field
  <2>1. DOMAIN Blank = Field
    BY DEF Blank, Field
  <2> QED BY <2>1 DEF Left
<1>2. d.res = IF rel = "current" THEN [type |-> t, port |-> FALSE, path |-> TRUE] ELSE AResource(t)
  BY DEF Left, Blank
<1>3. d.tables = Table /\ d.users = 1 /\ d.gateways = (IF rel = "current" THEN 1 ELSE 0) /\ d.dev
  BY DEF Left, Blank
<1>4. ~d.resNew /\ ~d.devNew
  BY DEF Left, Blank
<1>5. (rel # "current" => d.hasPort /\ ~d.hasPath) /\ (rel # "001" => d.allowsNet)
  BY DEF Left, Blank
<1>6. d.res.type = t /\ (rel # "current" => d.res.port) /\ DOMAIN d.res = {"type", "port", "path"}
  BY <1>2 DEF AResource
<1>7. o[1] = rel
  OBVIOUS
<1> HIDE DEF d, o
<1>8. Database(d)
  BY <1>1, <1>3, <1>6 DEF Database
<1>9. RowsThere(d, o)
  BY <1>3, <1>6 DEF RowsThere
<1>10. AddressSafe(d, o, FALSE, "down")
  BY <1>5, <1>6, <1>7 DEF AddressSafe, Legacy
<1> QED BY <1>3, <1>4, <1>8, <1>9, <1>10 DEF d, o

LEMMA BootInit == StartupInit => BootInv
<1> SUFFICES ASSUME StartupInit PROVE BootInv
  OBVIOUS
<1>1. PICK o \in Origins : origin = o /\ db = o[2] /\ committed = o[2]
  BY DEF StartupInit
<1>2. boot = "down" /\ ~unfilled /\ settled = <<>> /\ starts = 0 /\ crashes = 0 /\ unfilled = FALSE
  BY DEF StartupInit
<1>3. /\ Database(db) /\ ~db.resNew /\ ~db.devNew /\ RowsThere(db, origin)
      /\ AddressSafe(db, origin, FALSE, "down") /\ (origin[1] # "fresh" => db.tables = Table)
  <2>1. CASE o = <<"fresh", Blank>>
    <3>1. Database(Blank) /\ ~Blank.resNew /\ ~Blank.devNew
      BY DEF Blank, Database, Field, NoRow
    <3>2. origin[1] = "fresh" /\ db = Blank
      BY <1>1, <2>1
    <3> QED BY <3>1, <3>2 DEF RowsThere, AddressSafe, Legacy
  <2>2. CASE o # <<"fresh", Blank>>
    <3>1. PICK rel \in {"001", "005", "002", "current"}, t \in {"serial", "network"} : o = <<rel, Left(rel, t)>>
      BY <2>2 DEF Origins
    <3>2. origin = <<rel, Left(rel, t)>> /\ db = Left(rel, t) /\ origin[1] = rel
      BY <1>1, <3>1
    <3> QED BY <3>2, LeftIs
  <2> QED BY <2>1, <2>2
<1>4. db = committed
  BY <1>1
<1>5. BootTyped
  BY <1>2, <1>3, <1>4 DEF BootTyped, BootPlace, Opening
<1>6. Reached(db, boot)
  BY <1>2, <1>3 DEF Reached, Opening, Narrowing, Rebuilding, Moving, AfterTypes, AfterResources, AfterColumns,
                    AfterDevices
<1>7. Committed
  BY <1>3, <1>4 DEF Committed, Table
<1>8. Carried
  BY <1>2, <1>3, <1>4 DEF Carried
<1>9. Complete /\ Counted
  BY <1>2, StartupAssumption DEF Complete, Counted
<1> QED BY <1>5, <1>6, <1>7, <1>8, <1>9 DEF BootInv

\* A statement, alone or in a transaction, that takes the start from boot to p.
LEMMA Written ==
    ASSUME BootInv, NEW n, Database(n), NEW p \in BootPlace, db' = n, boot' = p,
           \/ committed' = n /\ p \notin Transaction
           \/ committed' = committed /\ p \in Transaction /\ boot # "backfill",
           UNCHANGED <<origin, unfilled>>, Counted',
           Reached(n, p), AddressSafe(n, origin, unfilled, p), RowsThere(n, origin),
           Legacy(origin) /\ p \in {"res_drop", "res_rename"} => n.res.path,
           p \in Opening /\ origin[1] # "fresh" => {"resources", "devices"} \subseteq n.tables,
           settled' # <<>> => UpToDate(n) /\ settled' = Data(n) /\ p \notin Transaction \cup {"backfill"}
    PROVE  BootInv'
<1>0. BootTyped /\ Committed /\ Carried /\ Complete
  BY DEF BootInv
<1>1. BootTyped'
  BY <1>0 DEF BootTyped
<1>2. p \notin Transaction => Dropped(p) = {} /\ ~n.resNew /\ ~n.devNew
  BY DEF Transaction, Narrowing, Rebuilding, Moving, Dropped, Reached
<1>3. p \notin Transaction /\ p \notin Opening => n.tables = Table
  BY <1>2 DEF Reached
<1>4. Committed'
  BY <1>0, <1>2, <1>3 DEF Committed, Table
<1>5. AddressSafe(committed', origin, unfilled, p) /\ RowsThere(committed', origin)
  BY <1>0 DEF Carried, AddressSafe, Transaction, Narrowing, Rebuilding, Moving
<1>6. Carried'
  BY <1>5 DEF Carried
<1>7. Complete'
  BY <1>0 DEF Complete
<1>8. Reached(db', boot')
  OBVIOUS
<1> QED BY <1>1, <1>4, <1>6, <1>7, <1>8 DEF BootInv

\* Statements of the first half of a start, up to the rebuilds.
LEMMA EarlyStep ==
    ASSUME BootInv, CreateTable \/ DropUnused \/ EnsurePathColumn \/ Backfill
    PROVE  BootInv'
<1> USE DEF Opening, Narrowing, Rebuilding, Moving, AfterDevices, AfterColumns, AfterResources, AfterTypes,
            BootPlace, Transaction, Dropped
<1>0. /\ BootTyped /\ Reached(db, boot) /\ Committed /\ Carried /\ Complete /\ Counted
      /\ UNCHANGED <<origin, settled, unfilled, starts, crashes>>
  BY DEF BootInv, CreateTable, DropUnused, EnsurePathColumn, Backfill, KeepRest
<1>1. db = committed /\ Database(db) /\ Counted'
  BY <1>0 DEF CreateTable, DropUnused, EnsurePathColumn, Backfill, Go, Committed, BootTyped, Counted
<1>2. CASE CreateTable
  <2>1. PICK i \in DOMAIN Ordered : Ordered[i] \notin db.tables /\ Exec(Created(db, Ordered[i]))
    BY <1>2 DEF CreateTable
  <2> DEFINE t == Ordered[i]
             n == Created(db, t)
  <2>2. boot = "schema" /\ boot' = "schema" /\ db' = n /\ committed' = n
    BY <1>2, <2>1 DEF CreateTable, Exec
  <2>3. t \in Table /\ t \notin db.tables
    BY <2>1 DEF Ordered, Table
  <2> HIDE DEF t
  <2>4. /\ DOMAIN n = Field /\ n.tables = db.tables \cup {t} /\ n.users = db.users /\ n.gateways = db.gateways
        /\ n.res = (IF t = "resources" THEN NoRow ELSE db.res)
        /\ n.hasPath = db.hasPath /\ n.hasPort = db.hasPort /\ n.allowsNet = db.allowsNet
        /\ n.resNew = db.resNew /\ n.devNew = db.devNew
    BY <1>1 DEF Created, Database, Field
  <2>5. t # "devices" /\ db.dev => n.dev
    BY <1>1 DEF Created, Database, Field
  <2>6. DOMAIN NoRow = {"type", "port", "path"}
    BY DEF NoRow
  <2> HIDE DEF n
  <2>7. Database(n)
    BY <1>1, <2>3, <2>4, <2>6 DEF Database
  <2>8. Reached(n, "schema")
    BY <1>0, <2>2, <2>4 DEF Reached
  <2>9. origin[1] # "fresh" => n.res = db.res /\ t # "devices" /\ {"resources", "devices"} \subseteq n.tables
    BY <1>0, <1>1, <2>3, <2>4 DEF Committed
  <2>10. AddressSafe(n, origin, unfilled, "schema") /\ RowsThere(n, origin)
    BY <1>0, <2>2, <2>4, <2>5, <2>9 DEF Carried, AddressSafe, RowsThere, Legacy
  <2>11. settled = <<>>
    BY <1>0, <1>1, <2>3 DEF Complete, UpToDate
  <2> QED BY <1>0, <1>1, <2>2, <2>7, <2>8, <2>9, <2>10, <2>11, Written
<1>3. CASE DropUnused
  <2> DEFINE n == [db EXCEPT !.unused = FALSE]
  <2>1. boot = "schema" /\ boot' = "path" /\ db' = n /\ committed' = n /\ Table \subseteq db.tables
    BY <1>3 DEF DropUnused, Exec, Go, Goto
  <2>2. /\ Database(n) /\ ~n.unused /\ Data(n) = Data(db) /\ (UpToDate(db) => UpToDate(n))
        /\ n.tables = db.tables /\ n.resNew = db.resNew /\ n.devNew = db.devNew
        /\ n.res = db.res /\ n.dev = db.dev
        /\ n.hasPath = db.hasPath /\ n.hasPort = db.hasPort /\ n.allowsNet = db.allowsNet
    BY <1>1 DEF Database, Field, Data, UpToDate
  <2> HIDE DEF n
  <2>3. Reached(n, "path")
    BY <1>0, <1>1, <2>1, <2>2 DEF Reached, Database
  <2>4. AddressSafe(n, origin, unfilled, "path") /\ RowsThere(n, origin)
    BY <1>0, <2>1, <2>2 DEF Carried, AddressSafe, RowsThere
  <2> QED BY <1>0, <1>1, <2>1, <2>2, <2>3, <2>4, Written DEF Complete
<1>4. CASE EnsurePathColumn
  <2>1. CASE db.hasPath
    <3>1. boot = "path" /\ boot' = "constraint" /\ db' = db /\ committed' = db
      BY <1>1, <1>4, <2>1 DEF EnsurePathColumn, Goto
    <3>2. Reached(db, "constraint")
      BY <1>0, <2>1, <3>1 DEF Reached
    <3>3. AddressSafe(db, origin, unfilled, "constraint") /\ RowsThere(db, origin)
      BY <1>0, <3>1 DEF Carried, AddressSafe
    <3> QED BY <1>0, <1>1, <3>1, <3>2, <3>3, Written DEF Complete
  <2>2. CASE ~db.hasPath
    <3> DEFINE n == [db EXCEPT !.hasPath = TRUE]
    <3>1. boot = "path" /\ boot' = "backfill" /\ db' = n /\ committed' = n
      BY <1>4, <2>2 DEF EnsurePathColumn, Goto, Exec
    <3>2. /\ Database(n) /\ n.hasPath
          /\ n.tables = db.tables /\ n.resNew = db.resNew /\ n.devNew = db.devNew /\ n.unused = db.unused
          /\ n.res = db.res /\ n.dev = db.dev /\ n.hasPort = db.hasPort /\ n.allowsNet = db.allowsNet
      BY <1>1 DEF Database, Field
    <3> HIDE DEF n
    <3>3. Reached(n, "backfill")
      BY <1>0, <3>1, <3>2 DEF Reached
    <3>4. AddressSafe(n, origin, unfilled, "backfill") /\ RowsThere(n, origin)
      BY <1>0, <3>1, <3>2 DEF Carried, AddressSafe, RowsThere
    <3>5. settled = <<>>
      BY <1>0, <1>1, <2>2 DEF Complete, UpToDate
    <3> QED BY <1>0, <1>1, <3>1, <3>2, <3>3, <3>4, <3>5, Written
  <2> QED BY <2>1, <2>2
<1>5. CASE Backfill
  <2> DEFINE n == [db EXCEPT !.res.path = @ \/ (db.hasPort /\ db.res.port)]
  <2>1. boot = "backfill" /\ boot' = "constraint" /\ db' = n /\ committed' = n
    BY <1>5 DEF Backfill, Go, Goto, Exec
  <2>2. /\ DOMAIN n = Field /\ n.tables = db.tables /\ n.users = db.users /\ n.gateways = db.gateways
        /\ n.resNew = db.resNew /\ n.devNew = db.devNew /\ n.unused = db.unused /\ n.dev = db.dev
        /\ n.hasPath = db.hasPath /\ n.hasPort = db.hasPort /\ n.allowsNet = db.allowsNet
    BY <1>1 DEF Database, Field
  <2>3. /\ DOMAIN n.res = {"type", "port", "path"} /\ n.res.type = db.res.type /\ n.res.port = db.res.port
        /\ n.res.path = (db.res.path \/ (db.hasPort /\ db.res.port))
    BY <1>1 DEF Database, Field
  <2> HIDE DEF n
  <2>4. Database(n)
    BY <1>1, <2>2, <2>3 DEF Database
  <2>5. Reached(n, "constraint")
    BY <1>0, <2>1, <2>2 DEF Reached
  <2>6. AddressSafe(n, origin, unfilled, "constraint") /\ RowsThere(n, origin)
    BY <1>0, <2>1, <2>2, <2>3 DEF Carried, AddressSafe, RowsThere
  <2>7. settled = <<>>
    BY <1>0, <2>1 DEF Complete
  <2> QED BY <1>0, <1>1, <2>1, <2>4, <2>5, <2>6, <2>7, Written
<1> QED BY <1>2, <1>3, <1>4, <1>5

\* Rebuilding table resources, for its types and for its columns.
LEMMA ResourceStep ==
    ASSUME BootInv,
           \/ EnsureTypeConstraint \/ NarrowCopy \/ NarrowDrop \/ NarrowCommit
           \/ CleanupResource \/ ResourceCopy \/ ResourceDrop \/ ResourceCommit
    PROVE  BootInv'
<1> USE DEF Opening, Narrowing, Rebuilding, Moving, AfterDevices, AfterColumns, AfterResources, AfterTypes,
            BootPlace, Transaction, Dropped
<1>0. /\ BootTyped /\ Reached(db, boot) /\ Committed /\ Carried /\ Complete /\ Counted
      /\ UNCHANGED <<origin, settled, unfilled, starts, crashes>>
  BY DEF BootInv, EnsureTypeConstraint, NarrowCopy, NarrowDrop, NarrowCommit, CleanupResource, ResourceCopy,
         ResourceDrop, ResourceCommit, KeepRest
<1>1. Database(db) /\ Counted' /\ AddressSafe(db, origin, unfilled, boot) /\ RowsThere(db, origin)
  BY <1>0 DEF BootTyped, Counted, Carried
\* Nothing is rebuilt after a complete start.
<1>2. settled # <<>> => db = committed /\ UpToDate(db) /\ boot \notin Transaction
  BY <1>0 DEF Complete, Committed
\* A start goes on with the database as it is.
<1>3. ASSUME NEW p \in BootPlace, db' = db, boot' = p, boot # "backfill", p # "backfill",
             \/ committed' = db /\ p \notin Transaction
             \/ committed' = committed /\ p \in Transaction,
             settled # <<>> => p \notin Transaction, Reached(db, p), p \notin {"res_drop", "res_rename"},
             p \notin Opening
      PROVE  BootInv'
  <2>1. AddressSafe(db, origin, unfilled, p)
    BY <1>1, <1>3 DEF AddressSafe
  <2> QED BY <1>0, <1>1, <1>2, <1>3, <2>1, Written DEF Complete
\* A transaction begins with the new table.
<1>4. ASSUME NEW p \in {"narrow_copy", "res_copy"}, boot \in {"constraint", "legacy_res"},
             boot' = p, ExecTx([db EXCEPT !.resNew = TRUE]), settled = <<>>,
             p = "narrow_copy" => boot = "constraint" /\ ~db.allowsNet, p = "res_copy" => boot = "legacy_res" /\ db.hasPort
      PROVE  BootInv'
  <2> DEFINE n == [db EXCEPT !.resNew = TRUE]
  <2>1. db' = n /\ committed' = committed
    BY <1>4 DEF ExecTx
  <2>2. /\ Database(n) /\ n.tables = db.tables /\ n.devNew = db.devNew /\ n.unused = db.unused
        /\ n.res = db.res /\ n.dev = db.dev
        /\ n.hasPath = db.hasPath /\ n.hasPort = db.hasPort /\ n.allowsNet = db.allowsNet
    BY <1>1 DEF Database, Field
  <2> HIDE DEF n
  <2>3. Reached(n, p)
    BY <1>0, <1>4, <2>2 DEF Reached
  <2>4. AddressSafe(n, origin, unfilled, p) /\ RowsThere(n, origin)
    BY <1>1, <1>4, <2>2 DEF AddressSafe, RowsThere
  <2>5. p \in BootPlace /\ p \in Transaction /\ boot # "backfill"
    BY <1>4
  <2> QED BY <1>0, <1>1, <1>4, <2>1, <2>2, <2>3, <2>4, <2>5, Written
\* DROP TABLE resources.
<1>5. ASSUME NEW from \in {"narrow_drop", "res_drop"}, boot = from, ExecTx(Unbound(db)),
             boot' = IF from = "narrow_drop" THEN "narrow_rename" ELSE "res_rename"
      PROVE  BootInv'
  <2> DEFINE n == Unbound(db)
             p == IF from = "narrow_drop" THEN "narrow_rename" ELSE "res_rename"
  <2>1. db' = n /\ committed' = committed /\ boot' = p
    BY <1>5 DEF ExecTx
  <2>2. /\ DOMAIN n = Field /\ n.tables = db.tables \ {"resources"} /\ n.users = db.users
        /\ n.gateways = db.gateways /\ n.resNew = db.resNew /\ n.devNew = db.devNew /\ n.unused = db.unused
        /\ n.res = db.res /\ n.dev = db.dev
        /\ n.hasPath = db.hasPath /\ n.hasPort = db.hasPort /\ n.allowsNet = db.allowsNet
    BY <1>1 DEF Unbound, Database, Field
  <2> HIDE DEF n
  <2>3. Database(n)
    BY <1>1, <2>2 DEF Database
  <2>4. Reached(n, p)
    BY <1>0, <1>5, <2>2 DEF Reached
  <2>5. AddressSafe(n, origin, unfilled, p) /\ RowsThere(n, origin)
    BY <1>1, <1>5, <2>2 DEF AddressSafe, RowsThere
  <2>6. Legacy(origin) /\ p \in {"res_drop", "res_rename"} => n.res.path
    BY <1>0, <1>5, <2>2 DEF Carried
  <2>7. p \in BootPlace /\ p \in Transaction /\ boot # "backfill" /\ settled = <<>> /\ p \notin Opening
    BY <1>2, <1>5
  <2> QED BY <1>0, <1>1, <2>1, <2>3, <2>4, <2>5, <2>6, <2>7, Written
\* The new table takes the name, and all is committed.
<1>6. ASSUME NEW from \in {"narrow_rename", "res_rename"}, boot = from, Exec(Renamed(db)),
             boot' = IF from = "narrow_rename" THEN "legacy_res" ELSE "gateway"
      PROVE  BootInv'
  <2> DEFINE n == Renamed(db)
             p == IF from = "narrow_rename" THEN "legacy_res" ELSE "gateway"
  <2>1. db' = n /\ committed' = n /\ boot' = p
    BY <1>6 DEF Exec
  <2>2. /\ DOMAIN n = Field /\ n.tables = db.tables \cup {"resources"} /\ n.users = db.users
        /\ n.gateways = db.gateways /\ ~n.resNew /\ n.devNew = db.devNew /\ n.unused = db.unused
        /\ n.dev = db.dev /\ n.hasPath = db.hasPath /\ ~n.hasPort /\ n.allowsNet
    BY <1>1 DEF Renamed, Database, Field
  <2>3. DOMAIN n.res = {"type", "port", "path"} /\ n.res.type = db.res.type /\ n.res.path = db.res.path
    BY <1>1 DEF Renamed, Database, Field
  <2> HIDE DEF n
  <2>4. Database(n)
    BY <1>1, <2>2, <2>3 DEF Database, Table
  <2>5. n.tables = Table
    BY <1>0, <1>6, <2>2 DEF Reached, Table
  <2>6. Reached(n, p)
    BY <1>0, <1>6, <2>2, <2>5 DEF Reached
  <2>7. Legacy(origin) /\ (origin[1] = "001" => ~unfilled) => n.res.path
    BY <1>0, <1>1, <1>6, <2>3 DEF Carried, AddressSafe, Reached
  <2>8. AddressSafe(n, origin, unfilled, p) /\ RowsThere(n, origin)
    BY <1>1, <2>2, <2>3, <2>7 DEF AddressSafe, RowsThere
  <2>9. p \in BootPlace /\ p \notin Transaction /\ settled = <<>> /\ p \notin Opening
    BY <1>2, <1>6
  <2> QED BY <1>0, <1>1, <2>1, <2>4, <2>6, <2>8, <2>9, Written
<1>7. CASE EnsureTypeConstraint
  <2>1. boot = "constraint" /\ db = committed
    BY <1>0, <1>7 DEF EnsureTypeConstraint, Committed
  <2>2. CASE db.allowsNet
    <3>1. boot' = "legacy_res" /\ db' = db /\ committed' = db
      BY <1>7, <2>1, <2>2 DEF EnsureTypeConstraint, Goto
    <3>2. Reached(db, "legacy_res")
      BY <1>0, <2>1, <2>2 DEF Reached
    <3> QED BY <1>3, <2>1, <3>1, <3>2
  <2>3. CASE ~db.allowsNet
    <3>1. boot' = "narrow_copy" /\ ExecTx([db EXCEPT !.resNew = TRUE])
      BY <1>7, <2>1, <2>3 DEF EnsureTypeConstraint, Goto
    <3>2. settled = <<>>
      BY <1>2, <2>3 DEF UpToDate
    <3> QED BY <1>4, <2>1, <2>3, <3>1, <3>2
  <2> QED BY <2>2, <2>3
<1>8. CASE CleanupResource
  <2>1. boot = "legacy_res" /\ db = committed
    BY <1>0, <1>8 DEF CleanupResource, Committed
  <2>2. CASE ~db.hasPort
    <3>1. boot' = "gateway" /\ db' = db /\ committed' = db
      BY <1>8, <2>1, <2>2 DEF CleanupResource, LegacyResource, Goto
    <3>2. Reached(db, "gateway")
      BY <1>0, <2>1, <2>2 DEF Reached
    <3> QED BY <1>3, <2>1, <3>1, <3>2
  <2>3. CASE db.hasPort
    <3>1. boot' = "res_copy" /\ ExecTx([db EXCEPT !.resNew = TRUE])
      BY <1>8, <2>1, <2>3 DEF CleanupResource, LegacyResource, Goto
    <3>2. settled = <<>>
      BY <1>2, <2>3 DEF UpToDate
    <3> QED BY <1>4, <2>1, <2>3, <3>1, <3>2
  <2> QED BY <2>2, <2>3
<1>9. CASE NarrowCopy
  <2>1. boot = "narrow_copy" /\ boot' = "narrow_drop" /\ db' = db /\ committed' = committed
    BY <1>9 DEF NarrowCopy, Go, Goto, ExecTx
  <2>2. Reached(db, "narrow_drop")
    BY <1>0, <2>1 DEF Reached
  <2> QED BY <1>2, <1>3, <2>1, <2>2
<1>10. CASE NarrowDrop \/ ResourceDrop
  BY <1>5, <1>10 DEF NarrowDrop, ResourceDrop, Go, Goto
<1>11. CASE NarrowCommit \/ ResourceCommit
  BY <1>6, <1>11 DEF NarrowCommit, ResourceCommit, Go, Goto
<1>12. CASE ResourceCopy
  <2> DEFINE n == [db EXCEPT !.res = Copied(@)]
  <2>1. boot = "res_copy" /\ boot' = "res_drop" /\ db' = n /\ committed' = committed
    BY <1>12 DEF ResourceCopy, Go, Goto, ExecTx
  <2>2. /\ DOMAIN n = Field /\ n.tables = db.tables /\ n.users = db.users /\ n.gateways = db.gateways
        /\ n.resNew = db.resNew /\ n.devNew = db.devNew /\ n.unused = db.unused /\ n.dev = db.dev
        /\ n.hasPath = db.hasPath /\ n.hasPort = db.hasPort /\ n.allowsNet = db.allowsNet
        /\ n.res = Copied(db.res)
    BY <1>1 DEF Database, Field
  <2>3. /\ DOMAIN n.res = {"type", "port", "path"} /\ n.res.port = db.res.port
        /\ n.res.path = (db.res.path \/ db.res.port)
        /\ (db.res.type # "none" => n.res.type # "none")
    <3> DEFINE r == db.res
    <3>1. DOMAIN r = {"type", "port", "path"}
      BY <1>1 DEF Database
    <3> HIDE DEF r
    <3>2. DOMAIN Copied(r) = {"type", "port", "path"} /\ Copied(r).port = r.port
      BY <3>1 DEF Copied
    <3>3. Copied(r).path = (r.path \/ r.port)
      BY <3>1 DEF Copied
    <3>4. r.type # "none" => Copied(r).type # "none"
      BY <3>1 DEF Copied
    <3>5. n.res = Copied(r)
      BY <2>2 DEF r
    <3> QED BY <3>2, <3>3, <3>4, <3>5 DEF r
  <2> HIDE DEF n
  <2>4. Database(n)
    BY <1>1, <2>2, <2>3 DEF Database
  <2>5. Reached(n, "res_drop")
    BY <1>0, <2>1, <2>2 DEF Reached
  <2>6. AddressSafe(n, origin, unfilled, "res_drop") /\ RowsThere(n, origin)
    BY <1>1, <2>1, <2>2, <2>3 DEF AddressSafe, RowsThere
  <2>7. Legacy(origin) => n.res.path
    BY <1>0, <1>1, <2>1, <2>3 DEF AddressSafe, Reached
  <2>8. settled = <<>>
    BY <1>2, <2>1
  <2> QED BY <1>0, <1>1, <2>1, <2>4, <2>5, <2>6, <2>7, <2>8, Written
<1> QED BY <1>7, <1>8, <1>9, <1>10, <1>11, <1>12

\* The later statements, up to the running gateway, and those it makes.
LEMMA LateStep ==
    ASSUME BootInv,
           \/ InitGatewayConfigTable \/ InitRuntimeConfigAuditTable \/ InitDeviceTable
           \/ InitDataSchema \/ InitDefaultData \/ Rebind
           \/ EnsureNorthboundColumns \/ EnsureThresholdColumns
    PROVE  BootInv'
<1> USE DEF Opening, Narrowing, Rebuilding, Moving, AfterDevices, AfterColumns, AfterResources, AfterTypes,
            BootPlace, Transaction, Dropped
<1>0. /\ BootTyped /\ Reached(db, boot) /\ Committed /\ Carried /\ Complete /\ Counted
      /\ UNCHANGED <<origin, unfilled, starts, crashes>>
  BY DEF BootInv, InitGatewayConfigTable, InitRuntimeConfigAuditTable, InitDeviceTable, InitDataSchema,
         InitDefaultData, Rebind, EnsureNorthboundColumns, EnsureThresholdColumns, KeepRest
<1>1. Database(db) /\ Counted' /\ AddressSafe(db, origin, unfilled, boot) /\ RowsThere(db, origin)
  BY <1>0 DEF BootTyped, Counted, Carried
<1>2. boot \in {"gateway", "audit", "columns", "data", "defaults", "running"} /\ db = committed
  BY <1>0 DEF InitGatewayConfigTable, InitRuntimeConfigAuditTable, InitDeviceTable, InitDataSchema,
              InitDefaultData, Rebind, EnsureNorthboundColumns, EnsureThresholdColumns, Go, Committed
<1>3. settled # <<>> => settled = Data(db) /\ UpToDate(db)
  BY <1>0, <1>2 DEF Complete
\* What is written has nothing to do with the rows of resources and devices.
<1>4. ASSUME NEW n, NEW p \in {"audit", "columns", "legacy_dev", "defaults", "running"},
             db' = n, committed' = n, boot' = p, Database(n), Reached(n, p),
             n.res = db.res, n.dev = db.dev, n.hasPath = db.hasPath, n.hasPort = db.hasPort,
             n.allowsNet = db.allowsNet,
             settled' # <<>> => UpToDate(n) /\ settled' = Data(n)
      PROVE  BootInv'
  <2>1. AddressSafe(n, origin, unfilled, p) /\ RowsThere(n, origin)
    BY <1>1, <1>2, <1>4 DEF AddressSafe, RowsThere
  <2>2. p \in BootPlace /\ p \notin Transaction \cup {"backfill"} /\ p \notin Opening
    OBVIOUS
  <2>3. p \notin {"res_drop", "res_rename"}
    OBVIOUS
  <2> QED BY <1>0, <1>1, <1>4, <2>1, <2>2, <2>3, Written
<1>5. CASE InitGatewayConfigTable
  <2> DEFINE n == [db EXCEPT !.gateways = DefaultGateway(@)]
  <2>1. boot = "gateway" /\ boot' = "audit" /\ db' = n /\ committed' = n /\ settled' = settled
    BY <1>5 DEF InitGatewayConfigTable, Go, Goto, Exec, KeepRest
  <2>2. /\ DOMAIN n = Field /\ n.tables = db.tables /\ n.users = db.users
        /\ n.gateways = DefaultGateway(db.gateways)
        /\ n.resNew = db.resNew /\ n.devNew = db.devNew /\ n.unused = db.unused /\ n.dev = db.dev
        /\ n.hasPath = db.hasPath /\ n.hasPort = db.hasPort /\ n.allowsNet = db.allowsNet
        /\ n.res = db.res /\ n.bound = db.bound /\ n.rule = db.rule /\ n.devLegacy = db.devLegacy
    BY <1>1 DEF Database, Field
  <2> HIDE DEF n
  <2>3. n.gateways = 1
    BY <1>1, <2>2 DEF Database, DefaultGateway
  <2>4. Database(n)
    BY <1>1, <2>2, <2>3 DEF Database
  <2>5. Reached(n, "audit")
    BY <1>0, <2>1, <2>2, <2>3 DEF Reached
  <2>6. settled' # <<>> => UpToDate(n) /\ settled' = Data(n)
    BY <1>3, <2>1, <2>2, <2>3 DEF UpToDate, Data
  <2> QED BY <1>4, <2>1, <2>2, <2>4, <2>5, <2>6
<1>6. CASE InitRuntimeConfigAuditTable \/ InitDeviceTable
  <2> DEFINE p == IF boot = "audit" THEN "columns" ELSE "legacy_dev"
             n == IF boot = "audit" THEN [db EXCEPT !.audit = TRUE] ELSE [db EXCEPT !.devCols = TRUE]
  <2>1. boot \in {"audit", "columns"} /\ boot' = p /\ db' = n /\ committed' = n /\ settled' = settled
    BY <1>6 DEF InitRuntimeConfigAuditTable, InitDeviceTable, Go, Goto, Exec, KeepRest
  <2>2. /\ DOMAIN n = Field /\ n.tables = db.tables /\ n.users = db.users /\ n.gateways = db.gateways
        /\ n.resNew = db.resNew /\ n.devNew = db.devNew /\ n.unused = db.unused /\ n.dev = db.dev
        /\ n.hasPath = db.hasPath /\ n.hasPort = db.hasPort /\ n.allowsNet = db.allowsNet
        /\ n.res = db.res /\ n.bound = db.bound /\ n.rule = db.rule /\ n.devLegacy = db.devLegacy
    BY <1>1 DEF Database, Field
  <2>3. (boot = "audit" => n.audit) /\ (boot = "columns" => n.devCols /\ n.audit = db.audit)
    BY <1>1 DEF Database, Field
  <2> HIDE DEF n
  <2>4. Database(n)
    BY <1>1, <2>2 DEF Database
  <2>5. Reached(n, p)
    BY <1>0, <2>1, <2>2, <2>3 DEF Reached
  <2>6. settled' # <<>> => UpToDate(n) /\ settled' = Data(n)
    BY <1>3, <2>1, <2>2 DEF UpToDate, Data
  <2>7. p \in {"audit", "columns", "legacy_dev", "defaults", "running"}
    OBVIOUS
  <2> HIDE DEF p
  <2> QED BY <1>4, <2>1, <2>2, <2>4, <2>5, <2>6, <2>7
<1>7. CASE InitDataSchema
  <2>1. boot = "data" /\ boot' = "defaults" /\ db' = db /\ committed' = db /\ settled' = settled
    BY <1>2, <1>7 DEF InitDataSchema, Go, Goto, KeepRest
  <2>2. Reached(db, "defaults")
    BY <1>0, <2>1 DEF Reached
  <2>3. settled' # <<>> => UpToDate(db) /\ settled' = Data(db)
    BY <1>3, <2>1
  <2> QED BY <1>1, <1>4, <2>1, <2>2, <2>3
<1>8. CASE InitDefaultData
  <2> DEFINE n == [db EXCEPT !.users = DefaultUser(@)]
  <2>1. /\ boot = "defaults" /\ boot' = "running" /\ db' = n /\ committed' = n
        /\ settled' = IF settled = <<>> THEN Data(n) ELSE settled
    BY <1>8 DEF InitDefaultData, Go, Goto, Exec
  <2>2. /\ DOMAIN n = Field /\ n.tables = db.tables /\ n.users = DefaultUser(db.users) /\ n.gateways = db.gateways
        /\ n.resNew = db.resNew /\ n.devNew = db.devNew /\ n.unused = db.unused /\ n.dev = db.dev
        /\ n.hasPath = db.hasPath /\ n.hasPort = db.hasPort /\ n.allowsNet = db.allowsNet
        /\ n.res = db.res /\ n.bound = db.bound /\ n.rule = db.rule /\ n.devLegacy = db.devLegacy
        /\ n.audit = db.audit /\ n.devCols = db.devCols
    BY <1>1 DEF Database, Field
  <2> HIDE DEF n
  <2>3. n.users = 1
    BY <1>1, <2>2 DEF Database, DefaultUser
  <2>4. Database(n)
    BY <1>1, <2>2, <2>3 DEF Database
  <2>5. Reached(n, "running")
    BY <1>0, <2>1, <2>2, <2>3 DEF Reached
  <2>6. UpToDate(n)
    BY <2>2, <2>5 DEF Reached, UpToDate
  <2>7. settled # <<>> => settled = Data(n)
    BY <1>3, <2>2, <2>3 DEF UpToDate, Data
  <2> QED BY <1>4, <2>1, <2>2, <2>4, <2>5, <2>6, <2>7
<1>9. CASE Rebind
  <2> DEFINE n == [db EXCEPT !.bound = TRUE, !.rule = TRUE]
  <2>1. /\ boot = "running" /\ boot' = "running" /\ db' = n /\ committed' = n /\ settled' = Data(n)
    BY <1>9 DEF Rebind, Exec
  <2>2. /\ DOMAIN n = Field /\ n.tables = db.tables /\ n.users = db.users /\ n.gateways = db.gateways
        /\ n.resNew = db.resNew /\ n.devNew = db.devNew /\ n.unused = db.unused /\ n.dev = db.dev
        /\ n.hasPath = db.hasPath /\ n.hasPort = db.hasPort /\ n.allowsNet = db.allowsNet
        /\ n.res = db.res /\ n.devLegacy = db.devLegacy /\ n.audit = db.audit /\ n.devCols = db.devCols
    BY <1>1 DEF Database, Field
  <2> HIDE DEF n
  <2>3. Database(n)
    BY <1>1, <2>2 DEF Database
  <2>4. Reached(n, "running")
    BY <1>0, <2>1, <2>2 DEF Reached
  <2>5. UpToDate(n)
    BY <2>2, <2>4 DEF Reached, UpToDate
  <2> QED BY <1>4, <2>1, <2>2, <2>3, <2>4, <2>5
<1>10. CASE EnsureNorthboundColumns \/ EnsureThresholdColumns
  <2>1. PICK n \in {[db EXCEPT !.nbCols = TRUE], [db EXCEPT !.shielded = TRUE], [db EXCEPT !.ruleEnabled = FALSE]} :
          db' = n /\ committed' = n
    BY <1>10 DEF EnsureNorthboundColumns, EnsureThresholdColumns, Exec
  <2>2. boot = "running" /\ boot' = "running" /\ settled' = settled
    BY <1>10 DEF EnsureNorthboundColumns, EnsureThresholdColumns
  <2>3. /\ DOMAIN n = Field /\ n.tables = db.tables /\ n.users = db.users /\ n.gateways = db.gateways
        /\ n.resNew = db.resNew /\ n.devNew = db.devNew /\ n.unused = db.unused /\ n.dev = db.dev
        /\ n.hasPath = db.hasPath /\ n.hasPort = db.hasPort /\ n.allowsNet = db.allowsNet
        /\ n.res = db.res /\ n.bound = db.bound /\ n.rule = db.rule /\ n.devLegacy = db.devLegacy
        /\ n.audit = db.audit /\ n.devCols = db.devCols
    BY <1>1, <2>1 DEF Database, Field
  <2>4. Database(n)
    BY <1>1, <2>3 DEF Database
  <2>5. Reached(n, "running")
    BY <1>0, <2>2, <2>3 DEF Reached
  <2>6. settled' # <<>> => UpToDate(n) /\ settled' = Data(n)
    BY <1>3, <2>2, <2>3 DEF UpToDate, Data
  <2> QED BY <1>4, <2>1, <2>2, <2>3, <2>4, <2>5, <2>6
<1> QED BY <1>5, <1>6, <1>7, <1>8, <1>9, <1>10

\* Rebuilding table devices.
LEMMA DeviceStep == ASSUME BootInv, CleanupDevice \/ DeviceDrop \/ DeviceCommit PROVE BootInv'
<1> USE DEF Opening, Narrowing, Rebuilding, Moving, AfterDevices, AfterColumns, AfterResources, AfterTypes,
            BootPlace, Transaction, Dropped
<1>0. /\ BootTyped /\ Reached(db, boot) /\ Committed /\ Carried /\ Complete /\ Counted
      /\ UNCHANGED <<origin, settled, unfilled, starts, crashes>>
  BY DEF BootInv, CleanupDevice, DeviceDrop, DeviceCommit, KeepRest
<1>1. Database(db) /\ Counted' /\ AddressSafe(db, origin, unfilled, boot) /\ RowsThere(db, origin)
  BY <1>0 DEF BootTyped, Counted, Carried
<1>2. CASE CleanupDevice
  <2>1. boot = "legacy_dev" /\ db = committed
    BY <1>0, <1>2 DEF CleanupDevice, Committed
  <2>2. CASE ~db.devLegacy
    <3>1. boot' = "data" /\ db' = db /\ committed' = db
      BY <1>2, <2>1, <2>2 DEF CleanupDevice, LegacyDevice, Goto
    <3>2. Reached(db, "data")
      BY <1>0, <2>1, <2>2 DEF Reached
    <3>3. AddressSafe(db, origin, unfilled, "data")
      BY <1>1, <2>1 DEF AddressSafe
    <3>4. settled' # <<>> => UpToDate(db) /\ settled' = Data(db)
      BY <1>0, <2>1 DEF Complete
    <3> QED BY <1>0, <1>1, <3>1, <3>2, <3>3, <3>4, Written
  <2>3. CASE db.devLegacy
    <3> DEFINE n == [db EXCEPT !.devNew = TRUE]
    <3>1. boot' = "dev_drop" /\ db' = n /\ committed' = committed
      BY <1>2, <2>1, <2>3 DEF CleanupDevice, LegacyDevice, Goto, ExecTx
    <3>2. /\ DOMAIN n = Field /\ n.tables = db.tables /\ n.users = db.users /\ n.gateways = db.gateways
          /\ n.resNew = db.resNew /\ n.unused = db.unused /\ n.dev = db.dev /\ n.res = db.res
          /\ n.hasPath = db.hasPath /\ n.hasPort = db.hasPort /\ n.allowsNet = db.allowsNet
          /\ n.audit = db.audit /\ n.devCols = db.devCols
      BY <1>1 DEF Database, Field
    <3> HIDE DEF n
    <3>3. Database(n)
      BY <1>1, <3>2 DEF Database
    <3>4. Reached(n, "dev_drop")
      BY <1>0, <2>1, <3>2 DEF Reached
    <3>5. AddressSafe(n, origin, unfilled, "dev_drop") /\ RowsThere(n, origin)
      BY <1>1, <2>1, <3>2 DEF AddressSafe, RowsThere
    <3>6. settled = <<>>
      BY <1>0, <2>1, <2>3 DEF Complete, UpToDate
    <3> QED BY <1>0, <1>1, <2>1, <3>1, <3>3, <3>4, <3>5, <3>6, Written
  <2> QED BY <2>2, <2>3
<1>3. CASE DeviceDrop
  <2> DEFINE n == [db EXCEPT !.tables = @ \ {"devices"}, !.rule = FALSE]
  <2>1. boot = "dev_drop" /\ boot' = "dev_rename" /\ db' = n /\ committed' = committed
    BY <1>3 DEF DeviceDrop, Go, Goto, ExecTx
  <2>2. /\ DOMAIN n = Field /\ n.tables = db.tables \ {"devices"} /\ n.users = db.users
        /\ n.gateways = db.gateways /\ n.resNew = db.resNew /\ n.devNew = db.devNew
        /\ n.unused = db.unused /\ n.dev = db.dev /\ n.res = db.res
        /\ n.hasPath = db.hasPath /\ n.hasPort = db.hasPort /\ n.allowsNet = db.allowsNet
        /\ n.audit = db.audit /\ n.devCols = db.devCols
    BY <1>1 DEF Database, Field
  <2> HIDE DEF n
  <2>3. Database(n)
    BY <1>1, <2>2 DEF Database
  <2>4. Reached(n, "dev_rename")
    BY <1>0, <2>1, <2>2 DEF Reached
  <2>5. AddressSafe(n, origin, unfilled, "dev_rename") /\ RowsThere(n, origin)
    BY <1>1, <2>1, <2>2 DEF AddressSafe, RowsThere
  <2>6. settled = <<>>
    BY <1>0, <2>1 DEF Complete
  <2> QED BY <1>0, <1>1, <2>1, <2>3, <2>4, <2>5, <2>6, Written
<1>4. CASE DeviceCommit
  <2> DEFINE n == [db EXCEPT !.tables = @ \cup {"devices"}, !.devNew = FALSE, !.devLegacy = FALSE]
  <2>1. boot = "dev_rename" /\ boot' = "data" /\ db' = n /\ committed' = n
    BY <1>4 DEF DeviceCommit, Go, Goto, Exec
  <2>2. /\ DOMAIN n = Field /\ n.tables = db.tables \cup {"devices"} /\ n.users = db.users
        /\ n.gateways = db.gateways /\ n.resNew = db.resNew /\ ~n.devNew /\ ~n.devLegacy
        /\ n.unused = db.unused /\ n.dev = db.dev /\ n.res = db.res
        /\ n.hasPath = db.hasPath /\ n.hasPort = db.hasPort /\ n.allowsNet = db.allowsNet
        /\ n.audit = db.audit /\ n.devCols = db.devCols
    BY <1>1 DEF Database, Field
  <2> HIDE DEF n
  <2>3. Database(n) /\ n.tables = Table
    BY <1>0, <1>1, <2>1, <2>2 DEF Database, Reached, Table
  <2>4. Reached(n, "data")
    BY <1>0, <2>1, <2>2, <2>3 DEF Reached
  <2>5. AddressSafe(n, origin, unfilled, "data") /\ RowsThere(n, origin)
    BY <1>1, <2>1, <2>2 DEF AddressSafe, RowsThere
  <2>6. settled = <<>>
    BY <1>0, <2>1 DEF Complete
  <2> QED BY <1>0, <1>1, <2>1, <2>3, <2>4, <2>5, <2>6, Written
<1> QED BY <1>2, <1>3, <1>4

\* A process starts, dies, or has an error it ignores or ends by.
LEMMA ProcessStep ==
    ASSUME BootInv, OpenDatabases \/ NarrowCopyFails \/ BackfillFails \/ Crash PROVE BootInv'
<1> USE DEF Opening, Narrowing, Rebuilding, Moving, AfterDevices, AfterColumns, AfterResources, AfterTypes,
            BootPlace, Transaction, Dropped
<1>0. BootTyped /\ Reached(db, boot) /\ Committed /\ Carried /\ Complete /\ Counted /\ UNCHANGED <<origin, settled>>
  BY DEF BootInv, OpenDatabases, NarrowCopyFails, BackfillFails, Crash, KeepRest
<1>1. Counted'
  BY <1>0, StartupAssumption DEF Counted, OpenDatabases, NarrowCopyFails, BackfillFails, Crash, KeepRest
<1>2. CASE OpenDatabases \/ NarrowCopyFails \/ Crash
  <2>1. /\ db' = committed /\ committed' = committed /\ boot' \in {"down", "schema"}
    BY <1>0, <1>2 DEF OpenDatabases, NarrowCopyFails, Crash, Go, Goto, KeepRest, Committed
  <2>0. ~unfilled' => ~unfilled /\ boot # "backfill"
    BY <1>2 DEF OpenDatabases, NarrowCopyFails, Crash, Go, KeepRest
  <2>2. BootTyped' /\ Committed' /\ Reached(db', boot')
    BY <1>0, <2>1 DEF BootTyped, Committed, Reached
  <2>3. AddressSafe(committed, origin, unfilled', boot')
    BY <1>0, <2>0, <2>1 DEF Carried, AddressSafe
  <2>4. Carried'
    BY <1>0, <2>1, <2>3 DEF Carried
  <2>5. Complete'
    BY <1>0, <2>1 DEF Complete
  <2> QED BY <1>1, <2>2, <2>4, <2>5 DEF BootInv
<1>3. CASE BackfillFails
  <2>1. boot = "backfill" /\ boot' = "constraint" /\ UNCHANGED <<db, committed>> /\ unfilled'
    BY <1>3 DEF BackfillFails, Go, Goto
  <2>2. BootTyped' /\ Committed' /\ Reached(db', boot')
    BY <1>0, <2>1 DEF BootTyped, Committed, Reached
  <2>3. AddressSafe(db, origin, unfilled', boot') /\ AddressSafe(committed, origin, unfilled', boot')
    BY <1>0, <2>1 DEF Carried, AddressSafe
  <2>4. Carried'
    BY <1>0, <2>1, <2>3 DEF Carried
  <2>5. Complete'
    BY <1>0, <2>1 DEF Complete
  <2> QED BY <1>1, <2>2, <2>4, <2>5 DEF BootInv
<1> QED BY <1>2, <1>3

\* Whatever release left the file, and wherever earlier starts died, a start
\* that is complete has the current schema, every row and every address but
\* one of the oldest schema whose backfill failed; and later starts leave the
\* data alone.
THEOREM UpgradeKept == StartupSpec => []UpgradeSound
<1>1. StartupInit => BootInv
  BY BootInit
<1>2. BootInv /\ [StartupNext]_StartupVars => BootInv'
  <2> SUFFICES ASSUME BootInv, [StartupNext]_StartupVars PROVE BootInv'
    OBVIOUS
  <2>1. CASE UNCHANGED StartupVars
    BY <2>1 DEF StartupVars, BootInv, BootTyped, Committed, Carried, Complete, Counted
  <2>2. CASE Proceed
    BY <2>2, EarlyStep, ResourceStep, LateStep, DeviceStep, ProcessStep DEF Proceed
  <2> QED BY <2>1, <2>2, LateStep, ProcessStep DEF StartupNext
<1>3. BootInv => UpgradeSound
  BY BootSafe
<1> QED BY <1>1, <1>2, <1>3, PTL DEF StartupSpec

-----------------------------------------------------------------------------
(* Drivers: files, rows and plugins.                                        *)

Steps == {"stat", "insert", "read", "unload", "load", "find", "update", "drop", "delete", "remove",
          "truncate", "write", "upsert", "call", "recover"}
Work == [steps : Seq(Steps), id : 0 .. MaxDriverId, name : DriverName \cup {""}, file : DriverName \cup {""},
         data : -1 .. MaxUploads]

\* What a list of steps relies on: a deleted row's plugin is dropped next, a
\* step about a plugin knows its row unless one is inserted before, and a row
\* that is written has a name and a file, and a file that is read is that of a
\* row that was looked for, if the request did not name it.
DropsNext(s) == \A k \in 1 .. Len(s) : s[k] = "delete" => k < Len(s) /\ s[k + 1] = "drop"
HasId(s, id) ==
    \A k \in 1 .. Len(s) : s[k] \in {"read", "unload", "load", "drop", "delete"} =>
        id \in DriverId \/ \E j \in 1 .. k : s[j] = "insert"
HasName(s, name, wasmFile) ==
    \A k \in 1 .. Len(s) : s[k] \in {"insert", "update", "upsert"} => name \in DriverName /\ wasmFile \in DriverName
HasFile(s, wasmFile) ==
    \A k \in 1 .. Len(s) : s[k] = "read" => wasmFile \in DriverName \/ \E j \in 1 .. k : s[j] = "find"
Sane(w) ==
    /\ w \in Work /\ DropsNext(w.steps) /\ HasId(w.steps, w.id)
    /\ HasName(w.steps, w.name, w.file) /\ HasFile(w.steps, w.file)

WorkSane == work \in [Process -> Work] /\ \A p \in Process : Sane(work[p])
FilesTyped == wasm \in [DriverName -> -1 .. MaxUploads] /\ uploads \in 0 .. MaxUploads
RowsTyped ==
    /\ DOMAIN rows \subseteq DriverId
    /\ \A i \in DOMAIN rows : rows[i] \in [name : DriverName, file : DriverName]
    /\ \A i, j \in DOMAIN rows : rows[i].name = rows[j].name => i = j
BoundTyped == inserted \in 0 .. MaxDriverId /\ bound \in 0 .. MaxDriverId /\ held \in 0 .. MaxDriverId /\ ran \in BOOLEAN
PluginsTyped == plugins \in [DriverId -> 0 .. MaxUploads] /\ late \subseteq DriverId /\ onBus \subseteq DriverId

\* The inductive invariant.
PluginInv == WorkSane /\ FilesTyped /\ RowsTyped /\ BoundTyped /\ PluginsTyped /\ NoPluginWithoutRow

LEMMA PluginSafe == PluginInv => PluginsSound
<1> SUFFICES ASSUME PluginInv PROVE PluginsSound
  OBVIOUS
<1>1. \A p \in Process : work[p].id \in 0 .. MaxDriverId /\ work[p].data \in -1 .. MaxUploads
  BY DEF PluginInv, WorkSane, Work
<1> QED BY <1>1 DEF PluginInv, FilesTyped, RowsTyped, BoundTyped, PluginsTyped, PluginsSound, DriversTypeOK

LEMMA Idle == Sane(NoWork) /\ NoWork.steps = <<>>
<1>1. <<>> \in Seq(Steps) /\ 0 \in 0 .. MaxDriverId /\ Missing \in -1 .. MaxUploads
  BY DriversAssumption DEF Missing
<1>2. NoWork \in Work
  BY <1>1 DEF NoWork, Work
<1>3. NoWork.steps = <<>> /\ Len(<<>>) = 0
  BY DEF NoWork
<1>4. DropsNext(<<>>) /\ HasId(<<>>, NoWork.id) /\ HasName(<<>>, NoWork.name, NoWork.file)
      /\ HasFile(<<>>, NoWork.file)
  BY <1>3 DEF DropsNext, HasId, HasName, HasFile
<1> QED BY <1>2, <1>3, <1>4 DEF Sane

\* A process that has done its next step is as sane as before.
LEMMA NextSane ==
    ASSUME NEW w, Sane(w), w.steps # <<>>, NEW v \in Work, v.steps = Tail(w.steps),
           v.id \in DriverId \/ (v.id = w.id /\ Head(w.steps) # "insert"),
           v.file \in DriverName \/ (v.file = w.file /\ Head(w.steps) # "find"),
           w.name \in DriverName /\ w.file \in DriverName => v.name \in DriverName /\ v.file \in DriverName
    PROVE  Sane(v)
<1> DEFINE s == w.steps
<1>0. s \in Seq(Steps) /\ s # <<>>
  BY DEF Sane, Work
<1>1. s \in Seq(Steps) /\ Len(s) > 0 /\ Head(s) = s[1]
  BY <1>0
<1>2. Tail(s) \in Seq(Steps) /\ Len(Tail(s)) = Len(s) - 1 /\ \A k \in 1 .. Len(s) - 1 : Tail(s)[k] = s[k + 1]
  BY <1>1
<1>3. DropsNext(s) /\ HasId(s, w.id) /\ HasName(s, w.name, w.file) /\ HasFile(s, w.file)
  BY DEF Sane
<1>4. DropsNext(Tail(s))
  BY <1>1, <1>2, <1>3 DEF DropsNext
<1>5. HasId(Tail(s), v.id)
  <2> SUFFICES ASSUME NEW k \in 1 .. Len(s) - 1, s[k + 1] \in {"read", "unload", "load", "drop", "delete"},
                      v.id \notin DriverId
               PROVE  \E j \in 1 .. k : Tail(s)[j] = "insert"
    BY <1>1, <1>2 DEF HasId
  <2>0. v.id = w.id /\ s[1] # "insert"
    BY <1>1
  <2>1. PICK j \in 1 .. k + 1 : s[j] = "insert"
    BY <1>1, <1>3, <2>0 DEF HasId
  <2>2. j - 1 \in 1 .. k /\ Tail(s)[j - 1] = s[j]
    BY <1>1, <1>2, <2>0, <2>1
  <2> QED BY <2>1, <2>2
<1>6. HasName(Tail(s), v.name, v.file)
  BY <1>1, <1>2, <1>3 DEF HasName
<1>7. HasFile(Tail(s), v.file)
  <2> SUFFICES ASSUME NEW k \in 1 .. Len(s) - 1, s[k + 1] = "read", v.file \notin DriverName
               PROVE  \E j \in 1 .. k : Tail(s)[j] = "find"
    BY <1>1, <1>2 DEF HasFile
  <2>0. v.file = w.file /\ s[1] # "find"
    BY <1>1
  <2>1. PICK j \in 1 .. k + 1 : s[j] = "find"
    BY <1>1, <1>3, <2>0 DEF HasFile
  <2>2. j - 1 \in 1 .. k /\ Tail(s)[j - 1] = s[j]
    BY <1>1, <1>2, <2>0, <2>1
  <2> QED BY <2>1, <2>2
<1> QED BY <1>4, <1>5, <1>6, <1>7 DEF Sane

\* What a request has to do when it begins, of each kind.
ListFits(s, op) ==
    /\ s \in Seq(Steps) /\ DropsNext(s)
    /\ op \in {"delete", "reload"} => \A k \in 1 .. Len(s) :
        s[k] \notin {"insert", "update", "upsert"} /\ (s[k] = "read" => \E j \in 1 .. k : s[j] = "find")
    /\ op = "upload" => \A k \in 1 .. Len(s) : s[k] \notin {"read", "unload", "load", "drop", "delete"}
    /\ op = "create" => \A k \in 1 .. Len(s) :
        s[k] \in {"read", "unload", "load", "drop", "delete"} => \E j \in 1 .. k : s[j] = "insert"

LEMMA ListSane ==
    ASSUME NEW op \in {"create", "update", "delete", "reload", "upload"}, NEW on \in BOOLEAN,
           NEW s, s = StepsOf(op, on)
    PROVE  ListFits(s, op)
<1> USE DEF ListFits
<1>1. CASE op = "create" /\ on
  <2>1. s \in Seq(Steps) /\ Len(s) = 5
    BY <1>1 DEF Loading, StepsOf, Steps
  <2>2. s[1] = "stat" /\ s[2] = "insert" /\ s[3] = "read" /\ s[4] = "unload" /\ s[5] = "load"
    BY <1>1 DEF Loading, StepsOf
  <2>3. DropsNext(s)
    BY <2>1, <2>2 DEF DropsNext
  <2>4. \A k \in 1 .. Len(s) :
          s[k] \in {"read", "unload", "load", "drop", "delete"} => \E j \in 1 .. k : s[j] = "insert"
    BY <2>1, <2>2
  <2> QED BY <1>1, <2>1, <2>3, <2>4
<1>2. CASE op = "create" /\ ~on
  <2>1. s \in Seq(Steps) /\ Len(s) = 2
    BY <1>2 DEF StepsOf, Steps
  <2>2. s[1] = "stat" /\ s[2] = "insert"
    BY <1>2 DEF StepsOf
  <2>3. DropsNext(s)
    BY <2>1, <2>2 DEF DropsNext
  <2>4. \A k \in 1 .. Len(s) :
          s[k] \in {"read", "unload", "load", "drop", "delete"} => \E j \in 1 .. k : s[j] = "insert"
    BY <2>1, <2>2
  <2> QED BY <1>2, <2>1, <2>3, <2>4
<1>3. CASE op = "update" /\ on
  <2>1. s \in Seq(Steps) /\ Len(s) = 6
    BY <1>3 DEF Loading, StepsOf, Steps
  <2>2. s[1] = "find" /\ s[2] = "stat" /\ s[3] = "update" /\ s[4] = "read" /\ s[5] = "unload" /\ s[6] = "load"
    BY <1>3 DEF Loading, StepsOf
  <2>3. DropsNext(s)
    BY <2>1, <2>2 DEF DropsNext
  <2> QED BY <1>3, <2>1, <2>2, <2>3
<1>4. CASE op = "update" /\ ~on
  <2>1. s \in Seq(Steps) /\ Len(s) = 4
    BY <1>4 DEF StepsOf, Steps
  <2>2. s[1] = "find" /\ s[2] = "stat" /\ s[3] = "update" /\ s[4] = "drop"
    BY <1>4 DEF StepsOf
  <2>3. DropsNext(s)
    BY <2>1, <2>2 DEF DropsNext
  <2> QED BY <1>4, <2>1, <2>2, <2>3
<1>5. CASE op = "delete"
  <2>1. s \in Seq(Steps) /\ Len(s) = 4
    BY <1>5 DEF StepsOf, DeleteSteps, Steps
  <2>2. s[1] = "find" /\ s[2] = "delete" /\ s[3] = "drop" /\ s[4] = "remove"
    BY <1>5 DEF StepsOf, DeleteSteps
  <2>3. DropsNext(s)
    BY <2>1, <2>2 DEF DropsNext
  <2> QED BY <1>5, <2>1, <2>2, <2>3
<1>6. CASE op = "reload"
  <2>1. s \in Seq(Steps) /\ Len(s) = 5
    BY <1>6 DEF Loading, StepsOf, Steps
  <2>2. s[1] = "find" /\ s[2] = "stat" /\ s[3] = "read" /\ s[4] = "unload" /\ s[5] = "load"
    BY <1>6 DEF Loading, StepsOf
  <2>3. DropsNext(s)
    BY <2>1, <2>2 DEF DropsNext
  <2> QED BY <1>6, <2>1, <2>2, <2>3
<1>7. CASE op = "upload"
  <2>1. s \in Seq(Steps) /\ Len(s) = 3
    BY <1>7 DEF StepsOf, Steps
  <2>2. s[1] = "truncate" /\ s[2] = "write" /\ s[3] = "upsert"
    BY <1>7 DEF StepsOf
  <2>3. DropsNext(s)
    BY <2>1, <2>2 DEF DropsNext
  <2> QED BY <1>7, <2>1, <2>2, <2>3
<1> QED BY <1>1, <1>2, <1>3, <1>4, <1>5, <1>6, <1>7

\* What a collection has to do for a plugin that is not there.
LEMMA LoadRowSane ==
    ASSUME NEW s, s = Loading \o <<"call">>
    PROVE  /\ s \in Seq(Steps) /\ DropsNext(s) /\ s # <<>>
           /\ \A k \in 1 .. Len(s) : s[k] \notin {"insert", "update", "upsert"}
<1>1. s \in Seq(Steps) /\ Len(s) = 4
  BY DEF Loading, Steps
<1>2. s[1] = "read" /\ s[2] = "unload" /\ s[3] = "load" /\ s[4] = "call"
  BY DEF Loading
<1>3. DropsNext(s)
  BY <1>1, <1>2 DEF DropsNext
<1> QED BY <1>1, <1>2, <1>3

LEMMA DriversStart == DriversInit => PluginInv
<1> SUFFICES ASSUME DriversInit PROVE PluginInv
  OBVIOUS
<1>0. PICK n \in DriverName : \E R \in SUBSET {1} :
        /\ rows = [i \in R |-> [name |-> n, file |-> n]]
        /\ wasm = [m \in DriverName |-> IF m = n /\ R # {} THEN 1 ELSE Missing]
        /\ \E x \in {Missing, 1} : plugins = [i \in DriverId |-> IF i \in R THEN x ELSE Missing]
  BY Zenon DEF DriversInit
<1>0a. PICK R \in SUBSET {1} :
        /\ rows = [i \in R |-> [name |-> n, file |-> n]]
        /\ wasm = [m \in DriverName |-> IF m = n /\ R # {} THEN 1 ELSE Missing]
        /\ \E x \in {Missing, 1} : plugins = [i \in DriverId |-> IF i \in R THEN x ELSE Missing]
  BY <1>0, Zenon
<1>0b. PICK x \in {Missing, 1} : plugins = [i \in DriverId |-> IF i \in R THEN x ELSE Missing]
  BY <1>0a, Zenon
<1>1. /\ rows = [i \in R |-> [name |-> n, file |-> n]]
      /\ wasm = [m \in DriverName |-> IF m = n /\ R # {} THEN 1 ELSE Missing]
      /\ plugins = [i \in DriverId |-> IF i \in R THEN x ELSE Missing]
      /\ n \in DriverName /\ R \in SUBSET {1} /\ x \in {Missing, 1}
  BY <1>0, <1>0a, <1>0b, Zenon
<1>2. /\ inserted = 1 /\ bound = 1 /\ held = 1 /\ ran = FALSE /\ uploads = 1 /\ late = {}
      /\ work = [p \in Process |-> NoWork]
  BY DEF DriversInit
<1>3. MaxDriverId \in Nat /\ MaxDriverId > 0 /\ MaxUploads \in Nat /\ MaxUploads > 0
  BY DriversAssumption
<1>4. WorkSane
  BY <1>2, Idle DEF WorkSane, Sane
<1>5. FilesTyped
  BY <1>1, <1>2, <1>3 DEF FilesTyped, Missing
<1>6. RowsTyped
  BY <1>1, <1>3 DEF RowsTyped, DriverId
<1>7. BoundTyped
  <2>1. 1 \in 0 .. MaxDriverId
    BY <1>3
  <2>2. ran \in BOOLEAN
    BY <1>2
  <2> QED BY <1>2, <2>1, <2>2 DEF BoundTyped
<1>8. PluginsTyped
  <2>1. onBus \subseteq DriverId
    BY DEF DriversInit
  <2> QED BY <1>1, <1>2, <1>3, <2>1 DEF PluginsTyped, Missing
<1>9. NoPluginWithoutRow
  BY <1>1 DEF NoPluginWithoutRow
<1> QED BY <1>4, <1>5, <1>6, <1>7, <1>8, <1>9 DEF PluginInv

\* One process goes on to v, and nobody else; only one that is to drop a plugin
\* may be counted on to.
LEMMA GoesTo ==
    ASSUME WorkSane, NEW p \in Process, NEW v, Sane(v), work' = [work EXCEPT ![p] = v]
    PROVE  WorkSane' /\ work'[p] = v /\ \A q \in Process : q # p => work'[q] = work[q]
<1>1. v \in Work /\ work \in [Process -> Work]
  BY DEF Sane, WorkSane
<1>2. work' \in [Process -> Work] /\ work'[p] = v /\ \A q \in Process : q # p => work'[q] = work[q]
  BY <1>1
<1>3. \A q \in Process : Sane(work'[q])
  BY <1>2 DEF WorkSane
<1> QED BY <1>2, <1>3 DEF WorkSane

LEMMA StepOver ==
    ASSUME WorkSane, NEW p \in Process, NEW step, At(p, step), step \notin {"insert", "find"}, Goes(p) \/ Ends(p)
    PROVE  /\ WorkSane' /\ \A q \in Process : q # p => work'[q] = work[q]
           /\ Goes(p) => work'[p].steps = Rest(p) /\ work'[p].id = work[p].id
<1> DEFINE v == [work[p] EXCEPT !.steps = Rest(p)]
<1>1. Sane(work[p]) /\ work[p] \in Work /\ work[p].steps \in Seq(Steps) /\ work[p].steps # <<>>
  BY DEF WorkSane, Sane, Work, At
<1>2. CASE Goes(p)
  <2>1. Rest(p) \in Seq(Steps)
    BY <1>1 DEF Rest
  <2>2. /\ v \in Work /\ v.steps = Tail(work[p].steps) /\ v.id = work[p].id
        /\ v.name = work[p].name /\ v.file = work[p].file
    BY <1>1, <2>1 DEF Work, Rest
  <2>3. work' = [work EXCEPT ![p] = v]
    BY <1>2 DEF Goes
  <2> HIDE DEF v
  <2>4. Sane(v)
    BY <1>1, <2>2, NextSane DEF At
  <2> QED BY <2>2, <2>3, <2>4, GoesTo DEF Rest
<1>3. CASE Ends(p) /\ ~Goes(p)
  BY <1>3, Idle, GoesTo DEF Ends
<1> QED BY <1>2, <1>3

\* Plugins and rows that were there still are, and who was to drop one still is.
LEMMA PluginsKept ==
    ASSUME NoPluginWithoutRow, UNCHANGED <<plugins, late, onBus>>, DOMAIN rows \subseteq DOMAIN rows',
           \A q \in DriverRequest : At(q, "drop") => work'[q] = work[q]
    PROVE  NoPluginWithoutRow'
BY DEF NoPluginWithoutRow, At

\* Steps that leave the rows, and the plugins, alone.
LEMMA QuietStep ==
    ASSUME PluginInv, NEW p \in Process,
           Stat(p) \/ RemoveFile(p) \/ TruncateFile(p) \/ WriteFile(p) \/ UploadBreaks(p)
    PROVE  PluginInv'
<1>0. WorkSane /\ FilesTyped /\ RowsTyped /\ BoundTyped /\ PluginsTyped /\ NoPluginWithoutRow
  BY DEF PluginInv
<1>1. /\ UNCHANGED <<rows, inserted, plugins, bound, held, ran, uploads, late, onBus>>
      /\ Goes(p) \/ Ends(p)
  BY DEF Stat, RemoveFile, TruncateFile, WriteFile, UploadBreaks, GoesIf, collecting, counters
<1>2. PICK step \in {"stat", "remove", "truncate", "write"} : At(p, step)
  BY DEF Stat, RemoveFile, TruncateFile, WriteFile, UploadBreaks
<1>3. WorkSane' /\ \A q \in Process : q # p => work'[q] = work[q]
  BY <1>0, <1>1, <1>2, StepOver
<1>4. wasm' = wasm \/ \E x : wasm' = [wasm EXCEPT ![x] = Missing] \/ wasm' = [wasm EXCEPT ![x] = Torn]
                            \/ wasm' = [wasm EXCEPT ![x] = work[p].data]
  BY DEF Stat, RemoveFile, TruncateFile, WriteFile, UploadBreaks
<1>5. work[p].data \in -1 .. MaxUploads /\ Missing \in -1 .. MaxUploads /\ Torn \in -1 .. MaxUploads
  <2>1. work[p] \in Work
    BY <1>0 DEF WorkSane
  <2>2. work[p].data \in -1 .. MaxUploads
    BY <2>1 DEF Work
  <2> QED BY <2>2, DriversAssumption DEF Missing, Torn
<1>6. FilesTyped'
  BY <1>0, <1>1, <1>4, <1>5 DEF FilesTyped
<1>7. RowsTyped' /\ BoundTyped' /\ PluginsTyped'
  BY <1>0, <1>1 DEF RowsTyped, BoundTyped, PluginsTyped
<1>8. ~At(p, "drop")
  BY <1>2 DEF At
<1>9. NoPluginWithoutRow'
  BY <1>0, <1>1, <1>3, <1>8, PluginsKept DEF Process
<1> QED BY <1>3, <1>6, <1>7, <1>9 DEF PluginInv

\* A row is found, and the request knows it from here on.
LEMMA FindStep ==
    ASSUME PluginInv, NEW p \in DriverRequest, Find(p)
    PROVE  PluginInv'
<1>0. WorkSane /\ FilesTyped /\ RowsTyped /\ BoundTyped /\ PluginsTyped /\ NoPluginWithoutRow
  BY DEF PluginInv
<1>1. p \in Process /\ At(p, "find") /\ UNCHANGED <<wasm, rows, inserted, plugins, bound, held, ran, uploads, late, onBus>>
  BY DEF Find, Process, collecting, counters
<1>2. FilesTyped' /\ RowsTyped' /\ BoundTyped' /\ PluginsTyped'
  BY <1>0, <1>1 DEF FilesTyped, RowsTyped, BoundTyped, PluginsTyped
<1>3. WorkSane' /\ \A q \in Process : q # p => work'[q] = work[q]
  <2>1. CASE Ends(p)
    BY <1>0, <1>1, <2>1, Idle, GoesTo DEF Ends
  <2>2. CASE ~Ends(p)
    <3> DEFINE w == work[p]
               i == w.id
               n == IF w.name = "" THEN rows[i].name ELSE w.name
               f == IF w.file = "" THEN rows[i].file ELSE w.file
               v == [w EXCEPT !.steps = Rest(p), !.name = n, !.file = f]
    <3>1. Sane(w) /\ w \in Work /\ w.steps \in Seq(Steps) /\ w.steps # <<>> /\ Head(w.steps) = "find"
      BY <1>0, <1>1 DEF WorkSane, Sane, Work, At
    <3>2. i \in DOMAIN rows /\ work' = [work EXCEPT ![p] = v]
      BY <2>2 DEF Find
    <3>3. rows[i] \in [name : DriverName, file : DriverName]
      BY <1>0, <3>2 DEF RowsTyped
    <3>4. Rest(p) \in Seq(Steps) /\ Rest(p) = Tail(w.steps)
      BY <3>1 DEF Rest
    <3>5. w.name \in DriverName \cup {""} /\ w.file \in DriverName \cup {""}
      BY <3>1 DEF Work
    <3>6. /\ n \in DriverName \cup {""} /\ f \in DriverName
          /\ w.name \in DriverName /\ w.file \in DriverName => n \in DriverName /\ f \in DriverName
      BY <3>3, <3>5
    <3> HIDE DEF n, f
    <3>7. v \in Work /\ v.steps = Tail(w.steps) /\ v.id = w.id /\ v.name = n /\ v.file = f
      BY <3>1, <3>4, <3>6 DEF Work
    <3> HIDE DEF v
    <3>8. Sane(v)
      BY <3>1, <3>6, <3>7, NextSane
    <3> QED BY <1>0, <1>1, <3>2, <3>8, GoesTo
  <2> QED BY <2>1, <2>2
<1>4. ~At(p, "drop")
  BY <1>1 DEF At
<1>5. NoPluginWithoutRow'
  BY <1>0, <1>1, <1>3, <1>4, PluginsKept DEF Process
<1> QED BY <1>2, <1>3, <1>5 DEF PluginInv

\* A row that is inserted, or overwritten, under a name no other row has.
LEMMA RowsWritten ==
    ASSUME RowsTyped, NEW p \in DriverRequest, NEW i \in DriverId, NEW k, NameFree(work[p].name, k),
           k = i \/ k \notin DOMAIN rows,
           work[p].name \in DriverName, work[p].file \in DriverName, rows' = Insert(p, i)
    PROVE  RowsTyped' /\ DOMAIN rows \subseteq DOMAIN rows'
<1> DEFINE r == [name |-> work[p].name, file |-> work[p].file]
<1>1. DOMAIN rows' = DOMAIN rows \cup {i} /\ rows'[i] = r /\ \A j \in DOMAIN rows : j # i => rows'[j] = rows[j]
  BY DEF Insert
<1>2. r \in [name : DriverName, file : DriverName] /\ r.name = work[p].name
  OBVIOUS
<1>3. \A j \in DOMAIN rows : rows[j].name = work[p].name => j = i
  BY DEF NameFree
<1> HIDE DEF r
<1>4. \A j \in DOMAIN rows' : rows'[j] \in [name : DriverName, file : DriverName]
  BY <1>1, <1>2 DEF RowsTyped
<1>5. \A j, l \in DOMAIN rows' : rows'[j].name = rows'[l].name => j = l
  <2> SUFFICES ASSUME NEW j \in DOMAIN rows', NEW l \in DOMAIN rows', rows'[j].name = rows'[l].name PROVE j = l
    OBVIOUS
  <2>1. CASE j = i /\ l # i
    BY <1>1, <1>2, <1>3, <2>1
  <2>2. CASE j # i /\ l = i
    BY <1>1, <1>2, <1>3, <2>2
  <2>3. CASE j # i /\ l # i
    BY <1>1, <2>3 DEF RowsTyped
  <2> QED BY <2>1, <2>2, <2>3
<1>6. DOMAIN rows' \subseteq DriverId
  BY <1>1 DEF RowsTyped
<1> QED BY <1>1, <1>4, <1>5, <1>6 DEF RowsTyped

\* Who has a row to write next knows what to write.
LEMMA NameKnown ==
    ASSUME WorkSane, NEW p \in Process, NEW step \in {"insert", "update", "upsert"}, At(p, step)
    PROVE  work[p].name \in DriverName /\ work[p].file \in DriverName
<1> DEFINE s == work[p].steps
<1>1. s \in Seq(Steps) /\ s # <<>> /\ Head(s) = step /\ HasName(s, work[p].name, work[p].file)
  BY DEF WorkSane, Sane, Work, At
<1>2. Len(s) \in Nat /\ Len(s) > 0 /\ s[1] = step
  BY <1>1
<1> QED BY <1>1, <1>2 DEF HasName

\* Who has a plugin or a row to touch next knows which.
LEMMA IdKnown ==
    ASSUME WorkSane, NEW p \in Process, NEW step \in {"read", "unload", "load", "drop", "delete"}, At(p, step)
    PROVE  work[p].id \in DriverId
<1> DEFINE s == work[p].steps
<1>1. s \in Seq(Steps) /\ s # <<>> /\ Head(s) = step /\ HasId(s, work[p].id)
  BY DEF WorkSane, Sane, Work, At
<1>2. Len(s) \in Nat /\ Len(s) > 0 /\ s[1] = step
  BY <1>1
<1>3. work[p].id \in DriverId \/ \E j \in 1 .. 1 : s[j] = "insert"
  BY <1>1, <1>2 DEF HasId
<1> QED BY <1>2, <1>3

\* A row is inserted: the request, or the upload, of it goes on.
LEMMA InsertStep ==
    ASSUME PluginInv, NEW p \in DriverRequest, InsertRow(p) \/ UpsertRow(p)
    PROVE  PluginInv'
<1> DEFINE i == inserted + 1
<1>0. WorkSane /\ FilesTyped /\ RowsTyped /\ BoundTyped /\ PluginsTyped /\ NoPluginWithoutRow
  BY DEF PluginInv
<1>1. PICK step \in {"insert", "upsert"} : At(p, step)
  BY DEF InsertRow, UpsertRow
<1>2. p \in Process /\ ~At(p, "drop") /\ UNCHANGED <<wasm, plugins, bound, held, ran, uploads, late, onBus>>
  BY <1>1 DEF At, InsertRow, UpsertRow, Process, collecting, counters
<1>3. work[p].name \in DriverName /\ work[p].file \in DriverName
  BY <1>0, <1>1, <1>2, NameKnown
<1>4. \/ UNCHANGED <<rows, inserted>>
      \/ /\ inserted < MaxDriverId /\ rows' = Insert(p, i) /\ inserted' = i
         /\ \E k \in {0, i} : NameFree(work[p].name, k)
  BY DEF InsertRow, UpsertRow
<1>5. inserted < MaxDriverId => i \in DriverId
  BY <1>0, DriversAssumption DEF BoundTyped, DriverId
<1>6. RowsTyped' /\ DOMAIN rows \subseteq DOMAIN rows'
  <2>1. CASE UNCHANGED <<rows, inserted>>
    BY <1>0, <2>1 DEF RowsTyped
  <2>2. CASE ~UNCHANGED <<rows, inserted>>
    <3>1. PICK k \in {0, i} : NameFree(work[p].name, k)
      BY <1>4, <2>2
    <3>2. k = i \/ k \notin DOMAIN rows
      BY <1>0, <3>1 DEF RowsTyped, DriverId
    <3>3. i \in DriverId /\ rows' = Insert(p, i)
      BY <1>4, <1>5, <2>2
    <3> HIDE DEF i
    <3> QED BY <1>0, <1>3, <3>1, <3>2, <3>3, RowsWritten
  <2> QED BY <2>1, <2>2
<1>7. BoundTyped'
  <2>1. inserted' \in 0 .. MaxDriverId
    BY <1>0, <1>4, DriversAssumption DEF BoundTyped
  <2> QED BY <1>0, <1>2, <2>1 DEF BoundTyped
<1>8. FilesTyped' /\ PluginsTyped'
  BY <1>0, <1>2 DEF FilesTyped, PluginsTyped
<1>9. WorkSane' /\ \A q \in Process : q # p => work'[q] = work[q]
  <2>1. CASE UpsertRow(p)
    BY <1>0, <1>2, <2>1, StepOver DEF UpsertRow
  <2>2. CASE InsertRow(p)
    <3>1. At(p, "insert")
      BY <2>2 DEF InsertRow
    <3>2. CASE NameFree(work[p].name, i)
      <4> DEFINE w == work[p]
                 v == [w EXCEPT !.steps = Rest(p), !.id = i]
      <4>1. Sane(w) /\ w \in Work /\ w.steps \in Seq(Steps) /\ w.steps # <<>>
        BY <1>0, <1>2, <3>1 DEF WorkSane, Sane, Work, At
      <4>2. i \in DriverId /\ work' = [work EXCEPT ![p] = v]
        BY <1>5, <2>2, <3>2 DEF InsertRow
      <4>3. Rest(p) \in Seq(Steps) /\ Rest(p) = Tail(w.steps) /\ i \in 0 .. MaxDriverId
        BY <4>1, <4>2 DEF Rest, DriverId
      <4> HIDE DEF i
      <4>4. v \in Work /\ v.steps = Tail(w.steps) /\ v.id = i /\ v.name = w.name /\ v.file = w.file
        BY <4>1, <4>3 DEF Work
      <4> HIDE DEF v
      <4>5. Sane(v)
        BY <3>1, <4>1, <4>2, <4>4, NextSane DEF At
      <4> QED BY <1>0, <1>2, <4>2, <4>5, GoesTo
    <3>3. CASE ~NameFree(work[p].name, i)
      BY <1>0, <1>2, <2>2, <3>3, Idle, GoesTo DEF InsertRow, Ends
    <3> QED BY <3>2, <3>3
  <2> QED BY <2>1, <2>2
<1>10. NoPluginWithoutRow'
  BY <1>0, <1>2, <1>6, <1>9, PluginsKept DEF Process
<1> QED BY <1>6, <1>7, <1>8, <1>9, <1>10 DEF PluginInv

\* A row is overwritten, if it is still there.
LEMMA UpdateStep ==
    ASSUME PluginInv, NEW p \in DriverRequest, UpdateRow(p)
    PROVE  PluginInv'
<1> DEFINE i == work[p].id
<1>0. WorkSane /\ FilesTyped /\ RowsTyped /\ BoundTyped /\ PluginsTyped /\ NoPluginWithoutRow
  BY DEF PluginInv
<1>1. /\ p \in Process /\ At(p, "update") /\ ~At(p, "drop")
      /\ UNCHANGED <<wasm, inserted, plugins, bound, held, ran, uploads, late, onBus>>
      /\ Goes(p) \/ Ends(p)
  BY DEF At, UpdateRow, Process, collecting, counters, GoesIf
<1>2. work[p].name \in DriverName /\ work[p].file \in DriverName
  BY <1>0, <1>1, NameKnown
<1>3. RowsTyped' /\ DOMAIN rows \subseteq DOMAIN rows'
  <2>1. CASE NameFree(work[p].name, i) /\ i \in DOMAIN rows
    <3>1. rows' = Insert(p, i) /\ i \in DriverId
      BY <1>0, <2>1 DEF UpdateRow, RowsTyped
    <3> QED BY <1>0, <1>2, <2>1, <3>1, RowsWritten
  <2>2. CASE ~(NameFree(work[p].name, i) /\ i \in DOMAIN rows)
    BY <1>0, <2>2 DEF UpdateRow, RowsTyped
  <2> QED BY <2>1, <2>2
<1>4. FilesTyped' /\ BoundTyped' /\ PluginsTyped'
  BY <1>0, <1>1 DEF FilesTyped, BoundTyped, PluginsTyped
<1>5. WorkSane' /\ \A q \in Process : q # p => work'[q] = work[q]
  BY <1>0, <1>1, StepOver
<1>6. NoPluginWithoutRow'
  BY <1>0, <1>1, <1>3, <1>5, PluginsKept DEF Process
<1> QED BY <1>3, <1>4, <1>5, <1>6 DEF PluginInv

\* The row goes, and dropping its plugin is what the request does next.
LEMMA DeleteStep ==
    ASSUME PluginInv, NEW p \in DriverRequest, DeleteRow(p)
    PROVE  PluginInv'
<1> DEFINE i == work[p].id
           s == work[p].steps
<1>0. WorkSane /\ FilesTyped /\ RowsTyped /\ BoundTyped /\ PluginsTyped /\ NoPluginWithoutRow
  BY DEF PluginInv
<1>1. p \in Process /\ At(p, "delete") /\ ~At(p, "drop") /\ Goes(p)
      /\ UNCHANGED <<wasm, inserted, plugins, held, ran, uploads, late, onBus>>
  BY DEF At, DeleteRow, Process
<1>2. WorkSane' /\ work'[p].steps = Rest(p) /\ work'[p].id = i /\ \A q \in Process : q # p => work'[q] = work[q]
  BY <1>0, <1>1, StepOver
<1>3. At(p, "drop")'
  <2>1. s \in Seq(Steps) /\ s # <<>> /\ Head(s) = "delete" /\ DropsNext(s)
    BY <1>0, <1>1 DEF WorkSane, Sane, Work, At
  <2>2. s[1] = "delete" /\ Len(s) \in Nat /\ Len(s) > 0
    BY <2>1
  <2>3. 1 < Len(s) /\ s[2] = "drop"
    BY <2>1, <2>2 DEF DropsNext
  <2>4. Tail(s) \in Seq(Steps) /\ Len(Tail(s)) = Len(s) - 1 /\ Len(s) - 1 > 0 /\ Tail(s)[1] = s[2]
    BY <2>1, <2>2, <2>3
  <2>6. \A t \in Seq(Steps) : Len(t) > 0 => t # <<>> /\ Head(t) = t[1]
    OBVIOUS
  <2>5. Tail(s) # <<>> /\ Head(Tail(s)) = Tail(s)[1]
    BY <2>4, <2>6
  <2> QED BY <1>2, <2>3, <2>4, <2>5 DEF At, Rest
<1>4. \/ rows' = [j \in DOMAIN rows \ {i} |-> rows[j]] /\ bound' \in {bound, 0}
      \/ UNCHANGED <<rows, bound>>
  BY DEF DeleteRow
<1>5. FilesTyped' /\ PluginsTyped' /\ BoundTyped'
  BY <1>0, <1>1, <1>4, DriversAssumption DEF FilesTyped, PluginsTyped, BoundTyped
<1>6. RowsTyped'
  BY <1>0, <1>4 DEF RowsTyped
<1>7. NoPluginWithoutRow'
  <2> SUFFICES ASSUME NEW k \in DriverId, plugins'[k] # Missing, k \notin DOMAIN rows', k \notin late'
               PROVE  \E q \in DriverRequest : work'[q].id = k /\ At(q, "drop")'
    BY DEF NoPluginWithoutRow
  <2>1. CASE k = i
    BY <1>2, <1>3, <2>1
  <2>2. CASE k # i
    <3>1. k \notin DOMAIN rows /\ plugins[k] # Missing /\ k \notin late
      BY <1>1, <1>4, <2>2
    <3>2. PICK q \in DriverRequest : work[q].id = k /\ At(q, "drop")
      BY <1>0, <3>1 DEF NoPluginWithoutRow
    <3>3. q # p /\ q \in Process
      BY <1>1, <3>2 DEF Process
    <3>4. work'[q] = work[q]
      BY <1>2, <3>3
    <3> QED BY <3>2, <3>4 DEF At
  <2> QED BY <2>1, <2>2
<1> QED BY <1>2, <1>5, <1>6, <1>7 DEF PluginInv

\* A plugin is unloaded: whoever was to drop it has, or still will.
LEMMA UnloadStep ==
    ASSUME PluginInv, NEW p \in Process, Unload(p)
    PROVE  PluginInv'
<1> DEFINE i == work[p].id
<1>0. WorkSane /\ FilesTyped /\ RowsTyped /\ BoundTyped /\ PluginsTyped /\ NoPluginWithoutRow
  BY DEF PluginInv
<1>1. PICK step \in {"drop", "unload"} : At(p, step)
  BY DEF Unload
<1>2. /\ Goes(p) /\ UNCHANGED <<wasm, rows, inserted, bound, held, ran, uploads>>
      /\ plugins' = [plugins EXCEPT ![i] = Missing] /\ late' = late \ {i} /\ onBus' = onBus \ {i}
  BY DEF Unload, collecting, counters
<1>3. WorkSane' /\ \A q \in Process : q # p => work'[q] = work[q]
  BY <1>0, <1>1, <1>2, StepOver
<1>4. i \in DriverId
  BY <1>0, <1>1, IdKnown
<1>5. FilesTyped' /\ RowsTyped' /\ BoundTyped'
  BY <1>0, <1>2 DEF FilesTyped, RowsTyped, BoundTyped
<1>6. PluginsTyped'
  <2>1. Missing \in 0 .. MaxUploads
    BY DriversAssumption DEF Missing
  <2>2. plugins' \in [DriverId -> 0 .. MaxUploads]
    BY <1>0, <1>2, <2>1 DEF PluginsTyped
  <2> QED BY <1>0, <1>2, <2>2 DEF PluginsTyped
<1>7. plugins'[i] = Missing /\ \A k \in DriverId : k # i => plugins'[k] = plugins[k]
  BY <1>0, <1>2, <1>4 DEF PluginsTyped
<1>8. NoPluginWithoutRow'
  <2> SUFFICES ASSUME NEW k \in DriverId, plugins'[k] # Missing, k \notin DOMAIN rows', k \notin late'
               PROVE  \E q \in DriverRequest : work'[q].id = k /\ At(q, "drop")'
    BY DEF NoPluginWithoutRow
  <2>1. k # i
    BY <1>7
  <2>2. k \notin DOMAIN rows /\ plugins[k] # Missing /\ k \notin late
    BY <1>2, <1>7, <2>1
  <2>3. PICK q \in DriverRequest : work[q].id = k /\ At(q, "drop")
    BY <1>0, <2>2 DEF NoPluginWithoutRow
  <2>4. q # p /\ q \in Process
    BY <2>1, <2>3 DEF Process
  <2>5. work'[q] = work[q]
    BY <1>3, <2>4
  <2> QED BY <2>3, <2>5 DEF At
<1> QED BY <1>3, <1>5, <1>6, <1>8 DEF PluginInv

\* The bytes of a file, whole or torn, are read.
LEMMA ReadStep ==
    ASSUME PluginInv, NEW p \in Process, ReadFile(p)
    PROVE  PluginInv'
<1> DEFINE w == work[p]
           x == wasm[w.file]
<1>0. WorkSane /\ FilesTyped /\ RowsTyped /\ BoundTyped /\ PluginsTyped /\ NoPluginWithoutRow
  BY DEF PluginInv
<1>1. At(p, "read") /\ ~At(p, "drop") /\ UNCHANGED <<wasm, rows, inserted, plugins, bound, held, ran, uploads, late, onBus>>
  BY DEF At, ReadFile, collecting, counters
<1>2. FilesTyped' /\ RowsTyped' /\ BoundTyped' /\ PluginsTyped'
  BY <1>0, <1>1 DEF FilesTyped, RowsTyped, BoundTyped, PluginsTyped
<1>3. WorkSane' /\ \A q \in Process : q # p => work'[q] = work[q]
  <2>1. CASE x = Missing
    BY <1>0, <1>1, <2>1, Idle, GoesTo DEF ReadFile, Ends
  <2>2. CASE x # Missing
    <3> DEFINE v == [w EXCEPT !.steps = Rest(p), !.data = x]
    <3>1. /\ Sane(w) /\ w \in Work /\ w.steps \in Seq(Steps) /\ w.steps # <<>> /\ Head(w.steps) = "read"
          /\ HasFile(w.steps, w.file)
      BY <1>0, <1>1 DEF WorkSane, Sane, Work, At
    <3>2. work' = [work EXCEPT ![p] = v]
      BY <2>2 DEF ReadFile
    <3>3. Len(w.steps) \in Nat /\ Len(w.steps) > 0 /\ w.steps[1] = "read"
      BY <3>1
    <3>4. w.file \in DriverName \/ \E j \in 1 .. 1 : w.steps[j] = "find"
      BY <3>1, <3>3 DEF HasFile
    <3>5. x \in -1 .. MaxUploads
      BY <1>0, <3>3, <3>4 DEF FilesTyped
    <3>6. Rest(p) \in Seq(Steps) /\ Rest(p) = Tail(w.steps)
      BY <3>1 DEF Rest
    <3> HIDE DEF x
    <3>7. v \in Work /\ v.steps = Tail(w.steps) /\ v.id = w.id /\ v.name = w.name /\ v.file = w.file
      BY <3>1, <3>5, <3>6 DEF Work
    <3> HIDE DEF v
    <3>8. Sane(v)
      BY <3>1, <3>7, NextSane
    <3> QED BY <1>0, <1>1, <3>2, <3>8, GoesTo
  <2> QED BY <2>1, <2>2
<1>4. NoPluginWithoutRow'
  BY <1>0, <1>1, <1>3, PluginsKept DEF Process
<1> QED BY <1>2, <1>3, <1>4 DEF PluginInv

\* A plugin is loaded: late, if its row is gone.
LEMMA LoadStep ==
    ASSUME PluginInv, NEW p \in Process, Load(p)
    PROVE  PluginInv'
<1> DEFINE i == work[p].id
           x == work[p].data
<1>0. WorkSane /\ FilesTyped /\ RowsTyped /\ BoundTyped /\ PluginsTyped /\ NoPluginWithoutRow
  BY DEF PluginInv
<1>1. /\ At(p, "load") /\ ~At(p, "drop") /\ UNCHANGED <<wasm, rows, inserted, bound, held, ran, uploads>>
      /\ Goes(p) \/ Ends(p)
  BY DEF At, Load, GoesIf, collecting, counters
<1>2. FilesTyped' /\ RowsTyped' /\ BoundTyped'
  BY <1>0, <1>1 DEF FilesTyped, RowsTyped, BoundTyped
<1>3. WorkSane' /\ \A q \in Process : q # p => work'[q] = work[q]
  BY <1>0, <1>1, StepOver
<1>4. CASE CanLoad(p)
  <2>1. /\ plugins' = [plugins EXCEPT ![i] = x]
        /\ late' = (IF i \in DOMAIN rows THEN late ELSE late \cup {i})
    BY <1>4 DEF Load
  <2>9. onBus' = onBus \/ onBus' = onBus \cup {i}
    BY <1>4 DEF Load
  <2>2. i \in DriverId
    BY <1>0, <1>1, IdKnown
  <2>3. work[p] \in Work
    BY <1>0 DEF WorkSane
  <2>4. x \in -1 .. MaxUploads
    BY <2>3 DEF Work
  <2>5. x \in 0 .. MaxUploads
    BY <1>4, <2>4, DriversAssumption DEF CanLoad, Torn
  <2>6. plugins' \in [DriverId -> 0 .. MaxUploads] /\ \A k \in DriverId : k # i => plugins'[k] = plugins[k]
    BY <1>0, <2>1, <2>2, <2>5 DEF PluginsTyped
  <2>7. PluginsTyped'
    BY <1>0, <2>1, <2>2, <2>6, <2>9 DEF PluginsTyped
  <2>8. NoPluginWithoutRow'
    <3> SUFFICES ASSUME NEW k \in DriverId, plugins'[k] # Missing, k \notin DOMAIN rows', k \notin late'
                 PROVE  \E q \in DriverRequest : work'[q].id = k /\ At(q, "drop")'
      BY DEF NoPluginWithoutRow
    <3>1. k # i
      BY <1>1, <2>1
    <3>2. k \notin DOMAIN rows /\ plugins[k] # Missing /\ k \notin late
      BY <1>1, <2>1, <2>6, <3>1
    <3>3. PICK q \in DriverRequest : work[q].id = k /\ At(q, "drop")
      BY <1>0, <3>2 DEF NoPluginWithoutRow
    <3>4. work'[q] = work[q]
      BY <1>1, <1>3, <3>3 DEF Process
    <3> QED BY <3>3, <3>4 DEF At
  <2> QED BY <1>2, <1>3, <2>7, <2>8 DEF PluginInv
<1>5. CASE ~CanLoad(p)
  <2>1. UNCHANGED <<plugins, late, onBus>>
    BY <1>5 DEF Load
  <2>2. PluginsTyped'
    BY <1>0, <2>1 DEF PluginsTyped
  <2>3. NoPluginWithoutRow'
    BY <1>0, <1>1, <1>3, <2>1, PluginsKept DEF Process
  <2> QED BY <1>2, <1>3, <2>2, <2>3 DEF PluginInv
<1> QED BY <1>4, <1>5

\* A collection that is to load the plugin of a row.
LEMMA LoadRowIs ==
    ASSUME RowsTyped, NEW i \in DOMAIN rows
    PROVE  Sane(LoadRow(i))
<1> DEFINE s == Loading \o <<"call">>
           f == rows[i].file
           v == [NoWork EXCEPT !.steps = s, !.id = i, !.file = f]
<1>1. i \in DriverId /\ f \in DriverName
  BY DEF RowsTyped
<1>2. /\ s \in Seq(Steps) /\ DropsNext(s) /\ s # <<>>
      /\ \A k \in 1 .. Len(s) : s[k] \notin {"insert", "update", "upsert"}
  BY LoadRowSane
<1>3. i \in 0 .. MaxDriverId /\ Missing \in -1 .. MaxUploads
  BY <1>1, DriversAssumption DEF DriverId, Missing
<1> HIDE DEF s, f
<1>4. v \in Work /\ v.steps = s /\ v.id = i /\ v.file = f
  BY <1>1, <1>2, <1>3 DEF Work, NoWork
<1>5. HasId(s, i) /\ HasName(s, v.name, f) /\ HasFile(s, f)
  BY <1>1, <1>2 DEF HasId, HasName, HasFile
<1>6. v = LoadRow(i)
  BY DEF LoadRow, s, f
<1> HIDE DEF v
<1> QED BY <1>2, <1>4, <1>5, <1>6 DEF Sane

\* A collection with one thing to do that is not about a row.
LEMMA OneStep ==
    ASSUME NEW step \in {"call", "recover"}
    PROVE  Sane([NoWork EXCEPT !.steps = <<step>>])
<1> DEFINE s == <<step>>
           v == [NoWork EXCEPT !.steps = s]
<1>1. s \in Seq(Steps) /\ Len(s) = 1 /\ s[1] = step
  BY DEF Steps
<1>2. NoWork \in Work
  BY Idle DEF Sane
<1> HIDE DEF s
<1>3. v \in Work /\ v.steps = s
  BY <1>1, <1>2 DEF Work, NoWork
<1>4. DropsNext(s) /\ HasId(s, v.id) /\ HasName(s, v.name, v.file) /\ HasFile(s, v.file)
  BY <1>1 DEF DropsNext, HasId, HasName, HasFile
<1> HIDE DEF v
<1>5. Sane(v)
  BY <1>3, <1>4 DEF Sane
<1> QED BY <1>5 DEF v, s

\* The collection goes on, and the collector reads its devices again.
LEMMA CollectionStep ==
    ASSUME PluginInv, EnsureLoaded \/ Recover \/ CallPlugin \/ SyncDevice
    PROVE  PluginInv'
<1> DEFINE p == Collecting
<1>0. WorkSane /\ FilesTyped /\ RowsTyped /\ BoundTyped /\ PluginsTyped /\ NoPluginWithoutRow
  BY DEF PluginInv
<1>1. UNCHANGED <<wasm, rows, inserted, plugins, uploads, late, onBus>>
  BY DEF EnsureLoaded, Recover, CallPlugin, SyncDevice, counters
<1>3. FilesTyped' /\ RowsTyped' /\ PluginsTyped'
  BY <1>0, <1>1 DEF FilesTyped, RowsTyped, PluginsTyped
<1>4. Recoverable \subseteq DOMAIN rows
  BY DEF Recoverable, Named
<1>5. BoundTyped'
  <2>1. ran' \in BOOLEAN
    <3>1. CASE EnsureLoaded \/ SyncDevice
      BY <3>1 DEF EnsureLoaded, SyncDevice
    <3>2. CASE Recover
      BY <1>0, <3>2 DEF Recover, BoundTyped
    <3>3. CASE CallPlugin
      BY <3>3 DEF CallPlugin
    <3> QED BY <3>1, <3>2, <3>3
  <2>2. \A i \in DOMAIN rows : i \in 0 .. MaxDriverId
    BY <1>0, DriversAssumption DEF RowsTyped, DriverId
  <2>3. bound' \in 0 .. MaxDriverId /\ held' \in 0 .. MaxDriverId
    BY <1>0, <1>4, <2>2 DEF EnsureLoaded, Recover, CallPlugin, SyncDevice, BoundTyped
  <2> QED BY <1>0, <1>1, <2>1, <2>3 DEF BoundTyped
<1>6. CASE SyncDevice
  <2>1. work' = work
    BY <1>6 DEF SyncDevice
  <2>2. WorkSane'
    BY <1>0, <2>1 DEF WorkSane
  <2>3. NoPluginWithoutRow'
    BY <1>0, <1>1, <2>1, PluginsKept
  <2> QED BY <1>3, <1>5, <2>2, <2>3 DEF PluginInv
<1>7. CASE EnsureLoaded \/ Recover \/ CallPlugin
  <2>1. p \in Process /\ ~At(p, "drop")
    BY <1>7, Idle DEF At, EnsureLoaded, Recover, CallPlugin, Process
  <2>2. PICK v : Sane(v) /\ work' = [work EXCEPT ![p] = v]
    <3>1. CASE Ends(p)
      BY <3>1, Idle DEF Ends
    <3>2. CASE EnsureLoaded
      <4>1. CASE Ready(held)
        BY <3>2, <4>1, OneStep DEF EnsureLoaded
      <4>2. CASE ~Ready(held) /\ held \in DOMAIN rows
        BY <1>0, <3>2, <4>2, LoadRowIs DEF EnsureLoaded
      <4>3. CASE ~Ready(held) /\ held \notin DOMAIN rows
        BY <3>2, <4>3, OneStep DEF EnsureLoaded
      <4> QED BY <4>1, <4>2, <4>3
    <3>3. CASE Recover /\ ~Ends(p)
      <4>1. PICK i \in Recoverable : work' = [work EXCEPT ![p] = LoadRow(i)]
        BY <3>3 DEF Recover
      <4> QED BY <1>0, <1>4, <4>1, LoadRowIs
    <3> QED BY <1>7, <3>1, <3>2, <3>3 DEF CallPlugin
  <2>3. WorkSane' /\ \A q \in Process : q # p => work'[q] = work[q]
    BY <1>0, <2>1, <2>2, GoesTo
  <2>4. NoPluginWithoutRow'
    BY <1>0, <1>1, <2>1, <2>3, PluginsKept DEF Process
  <2> QED BY <1>3, <1>5, <2>3, <2>4 DEF PluginInv
<1> QED BY <1>6, <1>7

\* What a request begins with, of each kind, is sane.
LEMMA RequestSane ==
    ASSUME NEW op \in {"create", "update", "delete", "reload", "upload"}, NEW on \in BOOLEAN,
           NEW i \in 0 .. MaxDriverId, NEW n \in DriverName \cup {""}, NEW f \in DriverName \cup {""},
           NEW x \in -1 .. MaxUploads, NEW s, s = StepsOf(op, on),
           op \in {"update", "delete", "reload"} => i \in DriverId,
           op \in {"create", "update", "upload"} => n \in DriverName /\ f \in DriverName
    PROVE  Sane([steps |-> s, id |-> i, name |-> n, file |-> f, data |-> x])
<1> DEFINE v == [steps |-> s, id |-> i, name |-> n, file |-> f, data |-> x]
<1>0. ListFits(s, op)
  BY ListSane
<1>1. s \in Seq(Steps) /\ DropsNext(s)
  BY <1>0 DEF ListFits
<1>2. v \in Work /\ v.steps = s /\ v.id = i /\ v.name = n /\ v.file = f
  BY <1>1 DEF Work
<1>3. HasId(s, i)
  BY <1>0 DEF ListFits, HasId
<1>4. HasName(s, n, f) /\ HasFile(s, f)
  BY <1>0 DEF ListFits, HasName, HasFile
<1> HIDE DEF v
<1>5. Sane(v)
  BY <1>1, <1>2, <1>3, <1>4 DEF Sane
<1> QED BY <1>5 DEF v

\* A request begins.
LEMMA BeginStep ==
    ASSUME PluginInv, NEW p \in DriverRequest, NEW v, Sane(v), work[p].steps = <<>>, work' = [work EXCEPT ![p] = v],
           uploads' \in 0 .. MaxUploads, UNCHANGED <<wasm, rows, inserted, plugins, bound, held, ran, late, onBus>>
    PROVE  PluginInv'
<1>0. WorkSane /\ FilesTyped /\ RowsTyped /\ BoundTyped /\ PluginsTyped /\ NoPluginWithoutRow
  BY DEF PluginInv
<1>1. p \in Process /\ ~At(p, "drop")
  BY DEF At, Process
<1>2. FilesTyped' /\ RowsTyped' /\ BoundTyped' /\ PluginsTyped'
  BY <1>0 DEF FilesTyped, RowsTyped, BoundTyped, PluginsTyped
<1>3. WorkSane' /\ \A q \in Process : q # p => work'[q] = work[q]
  BY <1>0, <1>1, GoesTo
<1>4. NoPluginWithoutRow'
  BY <1>0, <1>1, <1>3, PluginsKept DEF Process
<1> QED BY <1>2, <1>3, <1>4 DEF PluginInv

\* However many requests create, update, delete, reload and upload drivers at
\* once, and whatever the collection loads meanwhile: a name has one row, and
\* the plugin of a row that is gone is about to be dropped by the request that
\* deleted it, or was loaded by one that had read the row before.
THEOREM PluginsFollowRows == DriversSpec => []PluginsSound
<1>1. DriversInit => PluginInv
  BY DriversStart
<1>2. PluginInv /\ [DriversNext]_DriversVars => PluginInv'
  <2> SUFFICES ASSUME PluginInv, [DriversNext]_DriversVars PROVE PluginInv'
    OBVIOUS
  <2>0. /\ DOMAIN rows \subseteq DriverId /\ DriverId \subseteq 0 .. MaxDriverId /\ 0 \in 0 .. MaxDriverId
        /\ uploads \in 0 .. MaxUploads /\ Missing \in -1 .. MaxUploads /\ MaxUploads \in Nat
    BY DriversAssumption DEF PluginInv, FilesTyped, RowsTyped, DriverId, Missing
  <2>1. CASE UNCHANGED DriversVars
    <3>1. UNCHANGED <<wasm, rows, inserted, plugins, bound, held, ran, work, uploads, late, onBus>>
      BY <2>1 DEF DriversVars, collecting, counters
    <3> QED BY <3>1 DEF PluginInv, WorkSane, FilesTyped, RowsTyped, BoundTyped, PluginsTyped,
                        NoPluginWithoutRow, At
  <2>2. CASE Collection \/ SyncDevice
    <3>1. Collecting \in Process
      BY DEF Process
    <3> QED BY <2>2, <3>1, CollectionStep, ReadStep, UnloadStep, LoadStep DEF Collection, PluginStep
  <2>3. ASSUME NEW p \in DriverRequest, RowStep(p) \/ FileStep(p) \/ PluginStep(p) \/ UploadBreaks(p)
        PROVE  PluginInv'
    <3>1. p \in Process
      BY DEF Process
    <3> QED BY <2>3, <3>1, QuietStep, FindStep, InsertStep, UpdateStep, DeleteStep, ReadStep, UnloadStep, LoadStep
            DEF RowStep, FileStep, PluginStep
  <2>4. ASSUME NEW p \in DriverRequest, NEW n \in DriverName, NEW f \in DriverName, NEW on \in BOOLEAN,
               Request(p, "create", 0, n, f, on) \/ \E i \in DOMAIN rows : Request(p, "update", i, n, f, on)
        PROVE  PluginInv'
    <3>1. PICK op \in {"create", "update"}, i \in 0 .. MaxDriverId :
            Request(p, op, i, n, f, on) /\ (op = "update" => i \in DriverId)
      BY <2>0, <2>4
    <3> DEFINE v == [steps |-> StepsOf(op, on), id |-> i, name |-> n, file |-> f, data |-> Missing]
    <3>2. /\ work[p].steps = <<>> /\ work' = [work EXCEPT ![p] = v] /\ uploads' = uploads
          /\ UNCHANGED <<wasm, rows, inserted, plugins, bound, held, ran, late, onBus>>
      BY <3>1 DEF Request, collecting
    <3>3. Sane(v)
      BY <2>0, <3>1, RequestSane
    <3> HIDE DEF v
    <3> QED BY <2>0, <3>2, <3>3, BeginStep
  <2>5. ASSUME NEW p \in DriverRequest, NEW i \in DOMAIN rows, NEW op \in {"delete", "reload"},
               Request(p, op, i, "", "", TRUE)
        PROVE  PluginInv'
    <3> DEFINE v == [steps |-> StepsOf(op, TRUE), id |-> i, name |-> "", file |-> "", data |-> Missing]
    <3>2. /\ work[p].steps = <<>> /\ work' = [work EXCEPT ![p] = v] /\ uploads' = uploads
          /\ UNCHANGED <<wasm, rows, inserted, plugins, bound, held, ran, late, onBus>>
      BY <2>5 DEF Request, collecting
    <3>3. Sane(v)
      BY <2>0, RequestSane
    <3> HIDE DEF v
    <3> QED BY <2>0, <3>2, <3>3, BeginStep
  <2>6. ASSUME NEW p \in DriverRequest, NEW n \in DriverName, Request(p, "upload", 0, n, n, TRUE)
        PROVE  PluginInv'
    <3> DEFINE v == [steps |-> StepsOf("upload", TRUE), id |-> 0, name |-> n, file |-> n, data |-> uploads + 1]
    <3>1. /\ work[p].steps = <<>> /\ work' = [work EXCEPT ![p] = v] /\ uploads' = uploads + 1 /\ uploads < MaxUploads
          /\ UNCHANGED <<wasm, rows, inserted, plugins, bound, held, ran, late, onBus>>
      BY <2>6 DEF Request, collecting
    <3>2. uploads + 1 \in -1 .. MaxUploads /\ uploads + 1 \in 0 .. MaxUploads
      BY <2>0, <3>1
    <3>3. Sane(v)
      BY <2>0, <3>2, RequestSane
    <3> HIDE DEF v
    <3> QED BY <3>1, <3>2, <3>3, BeginStep
  <2> QED BY <2>1, <2>2, <2>3, <2>4, <2>5, <2>6 DEF DriversNext
<1>3. PluginInv => PluginsSound
  BY PluginSafe
<1> QED BY <1>1, <1>2, <1>3, PTL DEF DriversSpec

-----------------------------------------------------------------------------
(* Product keys.                                                            *)

Reading == [pc : {"exec", "fix", "row", "mem", "task", "done"}, dev : KeyDevice, driver : KeyDriver,
            key : MaybeKey, own : BOOLEAN, same : BOOLEAN, pk : MaybeKey, next : MaybeKey]
TaskRow == [driver : KeyDriver, key : MaybeKey, pk : MaybeKey, busy : BOOLEAN]

TablesTyped ==
    /\ devRow \in SomeRows /\ DOMAIN given = KeyDriver
    /\ fileKey \in [KeyDriver -> MaybeKey] /\ plugKey \in [KeyDriver -> MaybeKey]
    /\ keyCache \in [KeyDriver -> MaybeKey]
TasksTyped == DOMAIN task \subseteq KeyDevice /\ \A d \in DOMAIN task : task[d] \in TaskRow
ReadingsTyped == reading \in [Reader -> Reading \cup {NoReading}]
SyncTyped ==
    keySync = NoSync \/ keySync \in [pc : {"listed", "apply"}, list : SomeRows, todo : SUBSET KeyDevice]
PandaTyped ==
    \/ pandaX = NoSync
    \/ pandaX.pc = "resolve" /\ pandaX.list \in SomeRows
    \/ /\ DOMAIN pandaX = {"pc", "list", "todo", "keys"}
       /\ pandaX.pc = "backfill" /\ pandaX.list \in SomeRows
       /\ pandaX.todo \subseteq DOMAIN pandaX.list /\ pandaX.todo # {}
       /\ \A d \in DOMAIN pandaX.list : pandaX.keys[d] \in MaybeKey

\* A task's collection: there is one while the task is busy, and no second, and
\* as long as the device object is the task's they agree on the driver.
Under(r) == reading[r].pc # "idle"
Owns(r, d) == Under(r) /\ reading[r].dev = d /\ reading[r].own
Owners ==
    /\ \A d \in DOMAIN task : task[d].busy <=> \E r \in Reader : Owns(r, d)
    /\ \A r, s \in Reader : \A d \in KeyDevice : Owns(r, d) /\ Owns(s, d) => r = s
    /\ \A r \in Reader : Under(r) /\ reading[r].own => reading[r].dev \in DOMAIN task
    /\ \A r \in Reader : Under(r) /\ reading[r].same =>
        reading[r].own /\ task[reading[r].dev].driver = reading[r].driver

\* Every key in a row, a file, a task, a list or a collection was declared by
\* the driver beside it, or given to one of its devices.
Declared(v, k) == k \in given[v] \cup {""}
AllDeclared(L) == \A d \in DOMAIN L : Declared(L[d].driver, L[d].key)
FilesOwn == \A v \in KeyDriver : Declared(v, fileKey[v]) /\ Declared(v, plugKey[v])
CacheOwn == \A v \in KeyDriver : Declared(v, keyCache[v])
TasksOwn ==
    \A d \in DOMAIN task : Declared(task[d].driver, task[d].key) /\ Declared(task[d].driver, task[d].pk)
ReadingsOwn ==
    \A r \in Reader : reading[r].pc \in {"fix", "row", "mem", "task"} => Declared(reading[r].driver, reading[r].next)
SyncOwn == keySync # NoSync => AllDeclared(keySync.list)
PandaOwn ==
    /\ pandaX # NoSync => AllDeclared(pandaX.list)
    /\ pandaX.pc = "backfill" =>
        \A d \in DOMAIN pandaX.list : Declared(pandaX.list[d].driver, pandaX.keys[d])
KeysOwn ==
    ~crossed => FilesOwn /\ CacheOwn /\ AllDeclared(devRow) /\ TasksOwn /\ ReadingsOwn /\ SyncOwn /\ PandaOwn

\* The inductive invariant.
KeyInv == TablesTyped /\ TasksTyped /\ ReadingsTyped /\ SyncTyped /\ PandaTyped /\ Owners /\ KeysOwn

LEMMA KeySafe == KeyInv => KeysSound
<1> SUFFICES ASSUME KeyInv PROVE KeysSound
  OBVIOUS
<1>0. TablesTyped /\ TasksTyped /\ ReadingsTyped /\ SyncTyped /\ PandaTyped /\ Owners /\ KeysOwn
  BY DEF KeyInv
<1>1. \A r \in Reader : reading[r].pc \in {"idle", "exec", "fix", "row", "mem", "task", "done"}
  <2>1. NoReading.pc = "idle"
    BY DEF NoReading
  <2>2. \A v \in Reading : v.pc \in {"exec", "fix", "row", "mem", "task", "done"}
    BY DEF Reading
  <2> QED BY <1>0, <2>1, <2>2 DEF ReadingsTyped
<1>2. keySync.pc \in {"idle", "listed", "apply"} /\ pandaX.pc \in {"idle", "resolve", "backfill"}
  BY <1>0 DEF SyncTyped, PandaTyped, NoSync
<1>3. \A d \in DOMAIN task : task[d].busy <=>
        \E r \in Reader : reading[r].pc # "idle" /\ reading[r].dev = d /\ reading[r].own
  BY <1>0 DEF Owners, Owns, Under
<1>4. \A d \in DOMAIN task : task[d] \in [driver : KeyDriver, key : MaybeKey, pk : MaybeKey, busy : BOOLEAN]
  BY <1>0 DEF TasksTyped, TaskRow
<1>5. devRow \in SomeRows /\ {fileKey, plugKey, keyCache} \subseteq [KeyDriver -> MaybeKey]
      /\ DOMAIN task \subseteq KeyDevice
  BY <1>0 DEF TablesTyped, TasksTyped
<1>6. ProductKeysTypeOK
  BY <1>1, <1>2, <1>3, <1>4, <1>5, Zenon DEF ProductKeysTypeOK
<1>7. KeysFromOwnDriver
  BY <1>0 DEF KeysFromOwnDriver, KeysOwn, CacheOwn, Declared
<1> QED BY <1>6, <1>7 DEF KeysSound

LEMMA RowsAre ==
    ASSUME NEW L
    PROVE  L \in SomeRows <=> \E D \in SUBSET KeyDevice : L \in [D -> KeyRow]
BY DEF SomeRows

LEMMA RowTask ==
    ASSUME NEW row \in KeyRow
    PROVE  /\ NewTask(row) \in TaskRow /\ NewTask(row).driver = row.driver /\ NewTask(row).key = row.key
           /\ NewTask(row).pk = row.key /\ NewTask(row).busy = FALSE
<1>1. row.driver \in KeyDriver /\ row.key \in MaybeKey
  BY DEF KeyRow
<1> QED BY <1>1 DEF NewTask, TaskRow

LEMMA KeyStart == ProductKeysInit => KeyInv
<1> SUFFICES ASSUME ProductKeysInit PROVE KeyInv
  OBVIOUS
<1>1. /\ devRow \in [KeyDevice -> [driver : KeyDriver, key : MaybeKey, enabled : {TRUE}]]
      /\ fileKey \in [KeyDriver -> MaybeKey] /\ plugKey = fileKey
      /\ keyCache = [v \in KeyDriver |-> ""] /\ task = [d \in KeyDevice |-> NewTask(devRow[d])]
      /\ reading = [r \in Reader |-> NoReading] /\ keySync = NoSync /\ pandaX = NoSync
      /\ given = [v \in KeyDriver |->
                    {fileKey[v]} \cup {devRow[d].key : d \in {e \in KeyDevice : devRow[e].driver = v}}]
  BY DEF ProductKeysInit
<1>2. devRow \in [KeyDevice -> KeyRow]
  <2>1. \A x \in [driver : KeyDriver, key : MaybeKey, enabled : {TRUE}] : x \in KeyRow
    BY DEF KeyRow
  <2> QED BY <1>1, <2>1
<1>3. devRow \in SomeRows
  BY <1>2, RowsAre
<1>4. TablesTyped
  BY <1>1, <1>3 DEF TablesTyped, MaybeKey
<1>5. \A d \in KeyDevice : /\ task[d] \in TaskRow /\ task[d].driver = devRow[d].driver /\ task[d].key = devRow[d].key
                           /\ task[d].pk = devRow[d].key /\ task[d].busy = FALSE
  BY <1>1, <1>2, RowTask
<1>6. TasksTyped /\ DOMAIN task = KeyDevice
  BY <1>1, <1>5 DEF TasksTyped
<1>7. ReadingsTyped
  BY <1>1 DEF ReadingsTyped
<1>8. \A r \in Reader : reading[r].pc = "idle"
  BY <1>1 DEF NoReading
<1>9. Owners
  BY <1>5, <1>6, <1>8 DEF Owners, Owns, Under
<1>10. \A d \in KeyDevice : devRow[d].driver \in KeyDriver /\ Declared(devRow[d].driver, devRow[d].key)
  BY <1>1, <1>2 DEF Declared, KeyRow
<1>11. FilesOwn /\ CacheOwn
  BY <1>1 DEF FilesOwn, CacheOwn, Declared
<1>12. AllDeclared(devRow) /\ TasksOwn /\ ReadingsOwn
  BY <1>2, <1>5, <1>6, <1>8, <1>10 DEF AllDeclared, TasksOwn, ReadingsOwn
<1>13. SyncOwn /\ PandaOwn
  BY <1>1 DEF SyncOwn, PandaOwn, NoSync
<1>14. KeysOwn
  BY <1>11, <1>12, <1>13 DEF KeysOwn
<1> QED BY <1>1, <1>4, <1>6, <1>7, <1>9, <1>14 DEF KeyInv, SyncTyped, PandaTyped

-----------------------------------------------------------------------------

LEMMA UnderIs ==
    ASSUME ReadingsTyped, NEW r \in Reader
    PROVE  /\ reading[r] \in Reading \cup {NoReading}
           /\ Under(r) <=> reading[r] \in Reading
<1>1. NoReading.pc = "idle"
  BY DEF NoReading
<1>2. \A v \in Reading : v.pc # "idle"
  BY DEF Reading
<1> QED BY <1>1, <1>2 DEF ReadingsTyped, Under

\* A collection goes on, and what it is the collection of stays.
LEMMA GoesOn ==
    ASSUME TasksTyped, ReadingsTyped, Owners, NEW r \in Reader, Under(r), NEW v \in Reading,
           v.dev = reading[r].dev, v.driver = reading[r].driver, v.own = reading[r].own, v.same = reading[r].same,
           reading' = [reading EXCEPT ![r] = v],
           DOMAIN task' = DOMAIN task,
           \A d \in DOMAIN task : task'[d].busy = task[d].busy /\ task'[d].driver = task[d].driver
    PROVE  ReadingsTyped' /\ Owners' /\ reading'[r] = v /\ \A s \in Reader : s # r => reading'[s] = reading[s]
<1>1. ReadingsTyped' /\ reading'[r] = v /\ \A s \in Reader : s # r => reading'[s] = reading[s]
  BY DEF ReadingsTyped
<1>2. v.pc # "idle"
  BY DEF Reading
<1>3. \A s \in Reader : /\ Under(s)' <=> Under(s)
                        /\ Under(s) => /\ reading'[s].dev = reading[s].dev /\ reading'[s].driver = reading[s].driver
                                       /\ reading'[s].own = reading[s].own /\ reading'[s].same = reading[s].same
  BY <1>1, <1>2 DEF Under
<1>4. \A s \in Reader, d \in KeyDevice : Owns(s, d)' <=> Owns(s, d)
  BY <1>3 DEF Owns
<1>5. \A d \in DOMAIN task' : task'[d].busy <=> \E s \in Reader : Owns(s, d)'
  <2> SUFFICES ASSUME NEW d \in DOMAIN task PROVE task'[d].busy <=> \E s \in Reader : Owns(s, d)'
    OBVIOUS
  <2>1. d \in KeyDevice /\ (task[d].busy <=> \E s \in Reader : Owns(s, d)) /\ task'[d].busy = task[d].busy
    BY DEF TasksTyped, Owners
  <2> QED BY <1>4, <2>1, Zenon
<1>6. \A s, t \in Reader : \A d \in KeyDevice : Owns(s, d)' /\ Owns(t, d)' => s = t
  BY <1>4 DEF Owners
<1>7. \A s \in Reader : Under(s)' /\ reading'[s].own => reading'[s].dev \in DOMAIN task'
  BY <1>3 DEF Owners
<1>8. \A s \in Reader : Under(s)' /\ reading'[s].same =>
        reading'[s].own /\ task'[reading'[s].dev].driver = reading'[s].driver
  <2> SUFFICES ASSUME NEW s \in Reader, Under(s)', reading'[s].same
               PROVE  reading'[s].own /\ task'[reading'[s].dev].driver = reading'[s].driver
    OBVIOUS
  <2>1. Under(s) /\ reading[s].same
    BY <1>3
  <2>2. reading[s].own /\ task[reading[s].dev].driver = reading[s].driver /\ reading[s].dev \in DOMAIN task
    BY <2>1 DEF Owners
  <2> QED BY <1>3, <2>1, <2>2
<1>9. Owners'
  BY <1>5, <1>6, <1>7, <1>8 DEF Owners
<1> QED BY <1>1, <1>9

\* What a collection in one of its later steps is about.
LEMMA ReadingIs ==
    ASSUME ReadingsTyped, TasksTyped, Owners, NEW r \in Reader, Under(r)
    PROVE  /\ reading[r] \in Reading /\ reading[r].dev \in KeyDevice /\ reading[r].driver \in KeyDriver
           /\ reading[r].next \in MaybeKey /\ TaskKey(r) \in MaybeKey
<1>1. reading[r] \in Reading
  BY UnderIs
<1>2. reading[r].dev \in KeyDevice /\ reading[r].driver \in KeyDriver /\ reading[r].next \in MaybeKey
      /\ reading[r].pk \in MaybeKey
  BY <1>1 DEF Reading
<1>3. CASE reading[r].own
  <2>1. reading[r].dev \in DOMAIN task
    BY <1>3 DEF Owners
  <2>2. task[reading[r].dev].pk \in MaybeKey
    BY <2>1 DEF TasksTyped, TaskRow
  <2> QED BY <1>1, <1>2, <1>3, <2>2 DEF TaskKey
<1>4. CASE ~reading[r].own
  BY <1>1, <1>2, <1>4 DEF TaskKey
<1> QED BY <1>3, <1>4

\* A collection's step, given what it makes of the tables, the tasks and the
\* fixed keys.
LEMMA KeepsKeys ==
    ASSUME KeyInv, NEW r \in Reader, Under(r), NEW v \in Reading,
           v.dev = reading[r].dev, v.driver = reading[r].driver, v.own = reading[r].own, v.same = reading[r].same,
           reading' = [reading EXCEPT ![r] = v],
           UNCHANGED <<fileKey, plugKey, keySync, pandaX, given>>, TablesTyped', TasksTyped',
           DOMAIN task' = DOMAIN task,
           \A d \in DOMAIN task : task'[d].busy = task[d].busy /\ task'[d].driver = task[d].driver,
           ~crossed' =>
               /\ ~crossed /\ CacheOwn' /\ AllDeclared(devRow)' /\ TasksOwn'
               /\ v.pc \in {"fix", "row", "mem", "task"} => Declared(v.driver, v.next)
    PROVE  KeyInv'
<1>0. TablesTyped /\ TasksTyped /\ ReadingsTyped /\ SyncTyped /\ PandaTyped /\ Owners /\ KeysOwn
  BY DEF KeyInv
<1>1. ReadingsTyped' /\ Owners' /\ reading'[r] = v /\ \A s \in Reader : s # r => reading'[s] = reading[s]
  BY <1>0, GoesOn
<1>2. SyncTyped' /\ PandaTyped'
  BY <1>0 DEF SyncTyped, PandaTyped
<1>3. KeysOwn'
  <2> SUFFICES ASSUME ~crossed' PROVE KeysOwn'
    BY DEF KeysOwn
  <2>1. FilesOwn /\ ReadingsOwn /\ SyncOwn /\ PandaOwn
    BY <1>0 DEF KeysOwn
  <2>2. FilesOwn' /\ SyncOwn' /\ PandaOwn'
    BY <2>1 DEF FilesOwn, SyncOwn, PandaOwn, AllDeclared, Declared
  <2>3. ReadingsOwn'
    BY <1>1, <2>1 DEF ReadingsOwn, Declared
  <2> QED BY <2>2, <2>3 DEF KeysOwn
<1> QED BY <1>1, <1>2, <1>3 DEF KeyInv

LEMMA ExecutedStep ==
    ASSUME KeyInv, NEW r \in Reader, Executed(r)
    PROVE  KeyInv'
<1>0. TablesTyped /\ TasksTyped /\ ReadingsTyped /\ SyncTyped /\ PandaTyped /\ Owners /\ KeysOwn
  BY DEF KeyInv
<1>1. Under(r) /\ UNCHANGED <<devRow, fileKey, plugKey, keyCache, task, keySync, pandaX, given>>
  BY DEF Executed, Under, KeyTables
<1>2. reading[r] \in Reading /\ reading[r].driver \in KeyDriver /\ TaskKey(r) \in MaybeKey
  BY <1>0, <1>1, ReadingIs
<1>3. PICK k \in ResultKeys(reading[r].driver) :
        /\ reading' = [reading EXCEPT ![r].pc = "fix", ![r].next = IF k # "" THEN k ELSE TaskKey(r)]
        /\ crossed' = (crossed \/ (k = "" /\ ~reading[r].same))
  BY DEF Executed
<1>4. k \in MaybeKey /\ (k # "" => k = plugKey[reading[r].driver])
  BY <1>0, <1>2 DEF ResultKeys, TablesTyped, MaybeKey
<1> DEFINE n == IF k # "" THEN k ELSE TaskKey(r)
           v == [reading[r] EXCEPT !.pc = "fix", !.next = n]
<1>5. n \in MaybeKey
  BY <1>2, <1>4
<1>6. ~crossed' => Declared(reading[r].driver, n)
  <2> SUFFICES ASSUME ~crossed' PROVE Declared(reading[r].driver, n)
    OBVIOUS
  <2>1. ~crossed /\ FilesOwn /\ TasksOwn
    BY <1>0, <1>3 DEF KeysOwn
  <2>2. CASE k # ""
    BY <1>2, <1>4, <2>1, <2>2 DEF FilesOwn
  <2>3. CASE k = ""
    <3>1. reading[r].same
      BY <1>3, <2>3
    <3>2. reading[r].own /\ task[reading[r].dev].driver = reading[r].driver /\ reading[r].dev \in DOMAIN task
      BY <1>0, <1>1, <3>1 DEF Owners
    <3>3. n = task[reading[r].dev].pk
      BY <2>3, <3>2 DEF TaskKey
    <3>4. Declared(task[reading[r].dev].driver, task[reading[r].dev].pk)
      BY <2>1, <3>2 DEF TasksOwn
    <3> QED BY <3>2, <3>3, <3>4
  <2> QED BY <2>2, <2>3
<1> HIDE DEF n
<1>7. reading' = [reading EXCEPT ![r] = v]
  BY <1>0, <1>3 DEF n, ReadingsTyped
<1>8. /\ v \in Reading /\ v.pc = "fix" /\ v.next = n /\ v.dev = reading[r].dev /\ v.driver = reading[r].driver
      /\ v.own = reading[r].own /\ v.same = reading[r].same
  BY <1>2, <1>5 DEF Reading
<1> HIDE DEF v
<1>9. TablesTyped' /\ TasksTyped'
  BY <1>0, <1>1 DEF TablesTyped, TasksTyped
<1>10. ~crossed' => ~crossed /\ CacheOwn' /\ AllDeclared(devRow)' /\ TasksOwn'
  BY <1>0, <1>1, <1>3 DEF KeysOwn, CacheOwn, AllDeclared, TasksOwn, Declared
<1> QED BY <1>1, <1>6, <1>7, <1>8, <1>9, <1>10, KeepsKeys

\* A fault, or a write that does not concern the tasks.
LEMMA FailStep ==
    ASSUME KeyInv, NEW r \in Reader, ExecuteFails(r) \/ WriteKeyFails(r)
    PROVE  KeyInv'
<1>0. TablesTyped /\ TasksTyped /\ ReadingsTyped /\ Owners /\ KeysOwn
  BY DEF KeyInv
<1> DEFINE v == [reading[r] EXCEPT !.pc = "done"]
<1>1. /\ Under(r) /\ UNCHANGED <<devRow, fileKey, plugKey, keyCache, task, keySync, pandaX, given, crossed>>
      /\ reading' = [reading EXCEPT ![r].pc = "done"]
  BY DEF ExecuteFails, WriteKeyFails, Under, KeyTables
<1>2. reading[r] \in Reading
  BY <1>0, <1>1, ReadingIs
<1>3. reading' = [reading EXCEPT ![r] = v]
  BY <1>1
<1>4. /\ v \in Reading /\ v.pc = "done" /\ v.dev = reading[r].dev /\ v.driver = reading[r].driver
      /\ v.own = reading[r].own /\ v.same = reading[r].same
  BY <1>2 DEF Reading
<1> HIDE DEF v
<1>5. TablesTyped' /\ TasksTyped'
  BY <1>0, <1>1 DEF TablesTyped, TasksTyped
<1>6. ~crossed' => ~crossed /\ CacheOwn' /\ AllDeclared(devRow)' /\ TasksOwn'
  BY <1>0, <1>1 DEF KeysOwn, CacheOwn, AllDeclared, TasksOwn, Declared
<1> QED BY <1>1, <1>3, <1>4, <1>5, <1>6, KeepsKeys

\* The driver's key is fixed, by this reading or an earlier one.
LEMMA FixStep ==
    ASSUME KeyInv, NEW r \in Reader, ResolveFixed(r)
    PROVE  KeyInv'
<1>0. TablesTyped /\ TasksTyped /\ ReadingsTyped /\ Owners /\ KeysOwn
  BY DEF KeyInv
<1> DEFINE w == reading[r]
           k == FixedKey(w.driver, w.next)
           p == IF k = "" \/ k = w.key THEN "done" ELSE "row"
           v == [w EXCEPT !.next = k, !.pc = p]
<1>1. /\ Under(r) /\ UNCHANGED <<devRow, fileKey, plugKey, task, keySync, pandaX, given, crossed>>
      /\ w.pc = "fix" /\ keyCache' = [keyCache EXCEPT ![w.driver] = k]
      /\ reading' = [reading EXCEPT ![r].next = k, ![r].pc = p]
  BY DEF ResolveFixed, Under, KeyTables
<1>2. w \in Reading /\ w.driver \in KeyDriver /\ w.next \in MaybeKey
  BY <1>0, <1>1, ReadingIs
<1>3. k \in MaybeKey /\ p \in {"done", "row"}
  BY <1>0, <1>2 DEF FixedKey, TablesTyped
<1>4. ~crossed => Declared(w.driver, k)
  BY <1>0, <1>1, <1>2 DEF KeysOwn, CacheOwn, ReadingsOwn, FixedKey
<1> HIDE DEF k, p
<1>5. reading' = [reading EXCEPT ![r] = v]
  BY <1>0, <1>1 DEF ReadingsTyped
<1>6. /\ v \in Reading /\ v.next = k /\ v.dev = w.dev /\ v.driver = w.driver
      /\ v.own = w.own /\ v.same = w.same
  BY <1>2, <1>3 DEF Reading
<1> HIDE DEF v
<1>7. TablesTyped' /\ TasksTyped'
  BY <1>0, <1>1, <1>2, <1>3 DEF TablesTyped, TasksTyped
<1>8. ~crossed' => CacheOwn'
  BY <1>0, <1>1, <1>2, <1>4 DEF KeysOwn, CacheOwn, TablesTyped, Declared
<1>9. ~crossed' => ~crossed /\ AllDeclared(devRow)' /\ TasksOwn'
  BY <1>0, <1>1 DEF KeysOwn, AllDeclared, TasksOwn, Declared
<1> QED BY <1>1, <1>4, <1>5, <1>6, <1>7, <1>8, <1>9, KeepsKeys

\* UPDATE devices, on behalf of a writer that means driver v.
LEMMA UpdateIs ==
    ASSUME devRow \in SomeRows, NEW d, NEW v, NEW k \in MaybeKey, UpdateDeviceProductKey(d, v, k), given' = given
    PROVE  /\ devRow' \in SomeRows
           /\ ~crossed' => ~crossed
           /\ ~crossed' /\ AllDeclared(devRow) /\ Declared(v, k) => AllDeclared(devRow)'
<1>1. PICK D \in SUBSET KeyDevice : devRow \in [D -> KeyRow]
  BY RowsAre
<1>2. CASE d \notin DOMAIN devRow
  <2>1. devRow' = devRow /\ (crossed' = (crossed \/ FALSE))
    BY <1>2 DEF UpdateDeviceProductKey
  <2> QED BY <2>1 DEF AllDeclared, Declared
<1>3. CASE d \in DOMAIN devRow
  <2>1. devRow' = [devRow EXCEPT ![d].key = k] /\ crossed' = (crossed \/ devRow[d].driver # v)
    BY <1>3 DEF UpdateDeviceProductKey
  <2>2. [devRow[d] EXCEPT !.key = k] \in KeyRow
    BY <1>1, <1>3 DEF KeyRow
  <2>3. devRow' \in [D -> KeyRow]
    BY <1>1, <1>3, <2>1, <2>2
  <2>4. devRow' \in SomeRows
    BY <2>3, RowsAre
  <2>5. /\ DOMAIN devRow' = DOMAIN devRow /\ devRow'[d].key = k /\ devRow'[d].driver = devRow[d].driver
        /\ \A e \in DOMAIN devRow : e # d => devRow'[e] = devRow[e]
    BY <1>1, <1>3, <2>1 DEF KeyRow
  <2>6. ~crossed' => ~crossed /\ devRow[d].driver = v
    BY <2>1
  <2>7. ASSUME ~crossed', AllDeclared(devRow), Declared(v, k) PROVE AllDeclared(devRow)'
    BY <2>5, <2>6, <2>7 DEF AllDeclared, Declared
  <2> QED BY <2>4, <2>6, <2>7
<1> QED BY <1>2, <1>3

\* The key goes to the row.
LEMMA WriteStep ==
    ASSUME KeyInv, NEW r \in Reader, WriteKey(r)
    PROVE  KeyInv'
<1>0. TablesTyped /\ TasksTyped /\ ReadingsTyped /\ Owners /\ KeysOwn
  BY DEF KeyInv
<1> DEFINE w == reading[r]
           v == [w EXCEPT !.pc = "mem"]
<1>1. /\ Under(r) /\ UNCHANGED <<fileKey, plugKey, keyCache, task, keySync, pandaX, given>>
      /\ w.pc = "row" /\ UpdateDeviceProductKey(w.dev, w.driver, w.next)
      /\ reading' = [reading EXCEPT ![r].pc = "mem"]
  BY DEF WriteKey, Under
<1>2. w \in Reading /\ w.driver \in KeyDriver /\ w.next \in MaybeKey
  BY <1>0, <1>1, ReadingIs
<1>3. /\ devRow' \in SomeRows /\ (~crossed' => ~crossed)
      /\ ~crossed' /\ AllDeclared(devRow) /\ Declared(w.driver, w.next) => AllDeclared(devRow)'
  BY <1>0, <1>1, <1>2, UpdateIs DEF TablesTyped
<1>4. ~crossed => Declared(w.driver, w.next) /\ AllDeclared(devRow) /\ CacheOwn /\ TasksOwn
  BY <1>0, <1>1 DEF KeysOwn, ReadingsOwn
<1>5. reading' = [reading EXCEPT ![r] = v]
  BY <1>1
<1>6. /\ v \in Reading /\ v.next = w.next /\ v.dev = w.dev /\ v.driver = w.driver
      /\ v.own = w.own /\ v.same = w.same
  BY <1>2 DEF Reading
<1> HIDE DEF v
<1>7. TablesTyped' /\ TasksTyped'
  BY <1>0, <1>1, <1>3 DEF TablesTyped, TasksTyped
<1>8. ~crossed' => ~crossed /\ AllDeclared(devRow)' /\ CacheOwn' /\ TasksOwn'
  BY <1>1, <1>3, <1>4 DEF CacheOwn, TasksOwn, Declared
<1> QED BY <1>1, <1>3, <1>4, <1>5, <1>6, <1>7, <1>8, KeepsKeys

\* A task of the same driver, as busy as before, gets other keys.
LEMMA TaskGets ==
    ASSUME TasksTyped, NEW d \in DOMAIN task, NEW t \in TaskRow, t.driver = task[d].driver, t.busy = task[d].busy,
           task' = [task EXCEPT ![d] = t], given' = given
    PROVE  /\ TasksTyped' /\ DOMAIN task' = DOMAIN task
           /\ \A e \in DOMAIN task : task'[e].busy = task[e].busy /\ task'[e].driver = task[e].driver
           /\ TasksOwn /\ Declared(t.driver, t.key) /\ Declared(t.driver, t.pk) => TasksOwn'
<1>1. DOMAIN task' = DOMAIN task /\ task'[d] = t /\ \A e \in DOMAIN task : e # d => task'[e] = task[e]
  OBVIOUS
<1>2. TasksTyped'
  BY <1>1 DEF TasksTyped
<1>3. \A e \in DOMAIN task : task'[e].busy = task[e].busy /\ task'[e].driver = task[e].driver
  BY <1>1
<1>4. TasksOwn /\ Declared(t.driver, t.key) /\ Declared(t.driver, t.pk) => TasksOwn'
  BY <1>1 DEF TasksOwn, Declared
<1> QED BY <1>1, <1>2, <1>3, <1>4

\* The key goes to the device object, which may no longer be the task's.
LEMMA ObjectStep ==
    ASSUME KeyInv, NEW r \in Reader, SetDeviceKey(r)
    PROVE  KeyInv'
<1>0. TablesTyped /\ TasksTyped /\ ReadingsTyped /\ Owners /\ KeysOwn
  BY DEF KeyInv
<1> DEFINE w == reading[r]
           v == [w EXCEPT !.pc = "task", !.key = w.next]
           t == [task[w.dev] EXCEPT !.key = w.next]
<1>1. /\ Under(r) /\ UNCHANGED <<devRow, fileKey, plugKey, keyCache, keySync, pandaX, given, crossed>>
      /\ w.pc = "mem" /\ reading' = [reading EXCEPT ![r].pc = "task", ![r].key = w.next]
      /\ w.same => task' = [task EXCEPT ![w.dev].key = w.next]
      /\ ~w.same => task' = task
  BY DEF SetDeviceKey, Under, KeyTables
<1>2. w \in Reading /\ w.driver \in KeyDriver /\ w.next \in MaybeKey
  BY <1>0, <1>1, ReadingIs
<1>3. reading' = [reading EXCEPT ![r] = v]
  BY <1>0, <1>1 DEF ReadingsTyped
<1>4. /\ v \in Reading /\ v.next = w.next /\ v.dev = w.dev /\ v.driver = w.driver
      /\ v.own = w.own /\ v.same = w.same
  BY <1>2 DEF Reading
<1> HIDE DEF v
<1>5. TablesTyped'
  BY <1>0, <1>1 DEF TablesTyped
<1>6. ~crossed' => ~crossed /\ AllDeclared(devRow)' /\ CacheOwn' /\ TasksOwn /\ Declared(w.driver, w.next)
  BY <1>0, <1>1 DEF KeysOwn, AllDeclared, CacheOwn, ReadingsOwn, Declared
<1>7. /\ TasksTyped' /\ DOMAIN task' = DOMAIN task
      /\ \A d \in DOMAIN task : task'[d].busy = task[d].busy /\ task'[d].driver = task[d].driver
      /\ ~crossed' => TasksOwn'
  <2>1. CASE w.same
    <3>1. w.own /\ task[w.dev].driver = w.driver /\ w.dev \in DOMAIN task
      BY <1>0, <1>1, <2>1 DEF Owners
    <3>2. task[w.dev] \in TaskRow
      BY <1>0, <3>1 DEF TasksTyped
    <3>3. /\ t \in TaskRow /\ t.driver = task[w.dev].driver /\ t.busy = task[w.dev].busy
          /\ t.key = w.next /\ t.pk = task[w.dev].pk
      BY <1>2, <3>2 DEF TaskRow
    <3>4. task' = [task EXCEPT ![w.dev] = t]
      BY <1>1, <2>1
    <3> HIDE DEF t
    <3>5. ~crossed' => Declared(t.driver, t.key) /\ Declared(t.driver, t.pk)
      BY <1>6, <3>1, <3>3 DEF TasksOwn
    <3> QED BY <1>0, <1>1, <1>6, <3>1, <3>3, <3>4, <3>5, TaskGets
  <2>2. CASE ~w.same
    BY <1>0, <1>1, <1>6, <2>2 DEF TasksTyped, TasksOwn, Declared
  <2> QED BY <2>1, <2>2
<1> QED BY <1>1, <1>3, <1>4, <1>5, <1>6, <1>7, KeepsKeys

\* The key goes to the task the device has now.
LEMMA TaskStep ==
    ASSUME KeyInv, NEW r \in Reader, SetTaskKey(r)
    PROVE  KeyInv'
<1>0. TablesTyped /\ TasksTyped /\ ReadingsTyped /\ Owners /\ KeysOwn
  BY DEF KeyInv
<1> DEFINE w == reading[r]
           d == w.dev
           v == [w EXCEPT !.pc = "done"]
           t == [task[d] EXCEPT !.pk = w.next]
<1>1. /\ Under(r) /\ UNCHANGED <<devRow, fileKey, plugKey, keyCache, keySync, pandaX, given>>
      /\ w.pc = "task" /\ reading' = [reading EXCEPT ![r].pc = "done"]
  BY DEF SetTaskKey, Under, KeyTables
<1>2. w \in Reading /\ w.driver \in KeyDriver /\ w.next \in MaybeKey
  BY <1>0, <1>1, ReadingIs
<1>3. reading' = [reading EXCEPT ![r] = v]
  BY <1>1
<1>4. /\ v \in Reading /\ v.pc = "done" /\ v.dev = w.dev /\ v.driver = w.driver
      /\ v.own = w.own /\ v.same = w.same
  BY <1>2 DEF Reading
<1> HIDE DEF v
<1>5. TablesTyped'
  BY <1>0, <1>1 DEF TablesTyped
<1>6. ~crossed => AllDeclared(devRow)' /\ CacheOwn' /\ TasksOwn /\ Declared(w.driver, w.next)
  BY <1>0, <1>1 DEF KeysOwn, AllDeclared, CacheOwn, ReadingsOwn, Declared
<1>7. /\ TasksTyped' /\ DOMAIN task' = DOMAIN task
      /\ \A e \in DOMAIN task : task'[e].busy = task[e].busy /\ task'[e].driver = task[e].driver
      /\ ~crossed' => ~crossed /\ TasksOwn'
  <2>1. CASE d \in DOMAIN task
    <3>1. task' = [task EXCEPT ![d].pk = w.next] /\ crossed' = (crossed \/ task[d].driver # w.driver)
      BY <2>1 DEF SetTaskKey
    <3>2. task[d] \in TaskRow
      BY <1>0, <2>1 DEF TasksTyped
    <3>3. /\ t \in TaskRow /\ t.driver = task[d].driver /\ t.busy = task[d].busy
          /\ t.key = task[d].key /\ t.pk = w.next
      BY <1>2, <3>2 DEF TaskRow
    <3>4. task' = [task EXCEPT ![d] = t]
      BY <3>1
    <3> HIDE DEF t
    <3>5. ~crossed' => ~crossed /\ Declared(t.driver, t.key) /\ Declared(t.driver, t.pk)
      BY <1>6, <2>1, <3>1, <3>3 DEF TasksOwn
    <3> QED BY <1>0, <1>1, <1>6, <2>1, <3>3, <3>4, <3>5, TaskGets
  <2>2. CASE d \notin DOMAIN task
    <3>1. UNCHANGED <<task, crossed>>
      BY <2>2 DEF SetTaskKey
    <3> QED BY <1>0, <1>1, <1>6, <3>1 DEF TasksTyped, TasksOwn, Declared
  <2> QED BY <2>1, <2>2
<1> QED BY <1>1, <1>3, <1>4, <1>5, <1>6, <1>7, KeepsKeys

\* What a step of the tasks and their collections alone leaves as it was.
LEMMA TasksOnly ==
    ASSUME KeyInv, UNCHANGED <<devRow, fileKey, plugKey, keyCache, keySync, pandaX, given, crossed>>,
           TasksTyped', ReadingsTyped', Owners', ~crossed => TasksOwn' /\ ReadingsOwn'
    PROVE  KeyInv'
<1>0. TablesTyped /\ SyncTyped /\ PandaTyped /\ KeysOwn
  BY DEF KeyInv
<1>1. TablesTyped' /\ SyncTyped' /\ PandaTyped'
  BY <1>0 DEF TablesTyped, SyncTyped, PandaTyped
<1>2. KeysOwn'
  BY <1>0 DEF KeysOwn, FilesOwn, CacheOwn, AllDeclared, SyncOwn, PandaOwn, Declared
<1> QED BY <1>1, <1>2 DEF KeyInv

\* A collection begins: the only one of a task that was at rest.
LEMMA ReadingBegins ==
    ASSUME KeyInv, NEW r \in Reader, NEW d \in KeyDevice, BeginReading(r, d)
    PROVE  KeyInv'
<1>0. TablesTyped /\ TasksTyped /\ ReadingsTyped /\ Owners /\ KeysOwn
  BY DEF KeyInv
<1> DEFINE p == IF \E s \in Reader : reading[s].pc = "exec" /\ reading[s].dev = d THEN "done" ELSE "exec"
           v == [pc |-> p, dev |-> d, driver |-> task[d].driver, key |-> task[d].key, own |-> TRUE, same |-> TRUE,
                 pk |-> "", next |-> ""]
           t == [task[d] EXCEPT !.busy = TRUE]
<1>1. /\ ~Under(r) /\ d \in DOMAIN task /\ ~task[d].busy
      /\ UNCHANGED <<devRow, fileKey, plugKey, keyCache, keySync, pandaX, given, crossed>>
      /\ task' = [task EXCEPT ![d].busy = TRUE] /\ reading' = [reading EXCEPT ![r] = v]
  BY DEF BeginReading, Under, KeyTables
<1>2. p \in {"exec", "done"}
  OBVIOUS
<1> HIDE DEF p
<1>3. task[d] \in TaskRow
  BY <1>0, <1>1 DEF TasksTyped
<1>4. v \in Reading /\ v.pc = p /\ v.dev = d /\ v.driver = task[d].driver /\ v.own /\ v.same
  BY <1>2, <1>3 DEF Reading, TaskRow, MaybeKey
<1>5. t \in TaskRow /\ t.driver = task[d].driver /\ t.key = task[d].key /\ t.pk = task[d].pk /\ t.busy
  BY <1>3 DEF TaskRow
<1>6. task' = [task EXCEPT ![d] = t]
  BY <1>1
<1> HIDE DEF v, t
<1>7. DOMAIN task' = DOMAIN task /\ task'[d] = t /\ \A e \in DOMAIN task : e # d => task'[e] = task[e]
  BY <1>1, <1>6
<1>8. ReadingsTyped' /\ reading'[r] = v /\ \A s \in Reader : s # r => reading'[s] = reading[s]
  BY <1>0, <1>1, <1>4 DEF ReadingsTyped
<1>9. TasksTyped'
  BY <1>0, <1>5, <1>7 DEF TasksTyped
<1>10. Under(r)' /\ \A s \in Reader : s # r => (Under(s)' <=> Under(s))
  BY <1>2, <1>4, <1>8 DEF Under
<1>11. Owns(r, d)' /\ \A e \in KeyDevice : Owns(r, e)' => e = d
  BY <1>4, <1>8, <1>10 DEF Owns
<1>12. \A s \in Reader : s # r => \A e \in KeyDevice : (Owns(s, e)' <=> Owns(s, e))
  BY <1>8, <1>10 DEF Owns
<1>13. \A s \in Reader : ~Owns(s, d)
  BY <1>0, <1>1 DEF Owners
<1>14. Owners'
  <2>1. \A e \in DOMAIN task' : task'[e].busy <=> \E s \in Reader : Owns(s, e)'
    <3> SUFFICES ASSUME NEW e \in DOMAIN task PROVE task'[e].busy <=> \E s \in Reader : Owns(s, e)'
      BY <1>7
    <3>1. e \in KeyDevice
      BY <1>0 DEF TasksTyped
    <3>2. CASE e = d
      BY <1>5, <1>7, <1>11, <3>2
    <3>3. CASE e # d
      <4>1. \A s \in Reader : Owns(s, e)' <=> Owns(s, e)
        BY <1>1, <1>11, <1>12, <3>1, <3>3 DEF Owns
      <4>2. task'[e] = task[e] /\ (task[e].busy <=> \E s \in Reader : Owns(s, e))
        BY <1>0, <1>7, <3>3 DEF Owners
      <4> QED BY <4>1, <4>2, Zenon
    <3> QED BY <3>2, <3>3
  <2>2. \A s, q \in Reader : \A e \in KeyDevice : Owns(s, e)' /\ Owns(q, e)' => s = q
    BY <1>0, <1>11, <1>12, <1>13 DEF Owners
  <2>3. \A s \in Reader : Under(s)' /\ reading'[s].own => reading'[s].dev \in DOMAIN task'
    BY <1>0, <1>1, <1>4, <1>7, <1>8, <1>10 DEF Owners
  <2>4. \A s \in Reader : Under(s)' /\ reading'[s].same =>
          reading'[s].own /\ task'[reading'[s].dev].driver = reading'[s].driver
    <3> SUFFICES ASSUME NEW s \in Reader, Under(s)', reading'[s].same
                 PROVE  reading'[s].own /\ task'[reading'[s].dev].driver = reading'[s].driver
      OBVIOUS
    <3>1. CASE s = r
      BY <1>4, <1>5, <1>7, <1>8, <3>1
    <3>2. CASE s # r
      <4>1. reading'[s] = reading[s] /\ Under(s)
        BY <1>8, <1>10, <3>2
      <4>2. /\ reading[s].own /\ task[reading[s].dev].driver = reading[s].driver
            /\ reading[s].dev \in DOMAIN task
        BY <1>0, <4>1 DEF Owners
      <4>3. task'[reading[s].dev].driver = task[reading[s].dev].driver
        BY <1>5, <1>7, <4>2
      <4> QED BY <4>1, <4>2, <4>3
    <3> QED BY <3>1, <3>2
  <2> QED BY <2>1, <2>2, <2>3, <2>4 DEF Owners
<1>15. ~crossed => TasksOwn' /\ ReadingsOwn'
  <2> SUFFICES ASSUME ~crossed PROVE TasksOwn' /\ ReadingsOwn'
    OBVIOUS
  <2>1. TasksOwn /\ ReadingsOwn
    BY <1>0 DEF KeysOwn
  <2>2. TasksOwn'
    BY <1>1, <1>5, <1>7, <2>1 DEF TasksOwn, Declared
  <2>3. ReadingsOwn'
    BY <1>1, <1>2, <1>4, <1>8, <2>1 DEF ReadingsOwn, Declared
  <2> QED BY <2>2, <2>3
<1> QED BY <1>1, <1>8, <1>9, <1>14, <1>15, TasksOnly

\* It ends, and its task, if it still has one, rests.
LEMMA ReadingEnds ==
    ASSUME KeyInv, NEW r \in Reader, EndReading(r)
    PROVE  KeyInv'
<1>0. TablesTyped /\ TasksTyped /\ ReadingsTyped /\ Owners /\ KeysOwn
  BY DEF KeyInv
<1> DEFINE d == reading[r].dev
           t == [task[d] EXCEPT !.busy = FALSE]
<1>1. /\ Under(r) /\ UNCHANGED <<devRow, fileKey, plugKey, keyCache, keySync, pandaX, given, crossed>>
      /\ reading' = [reading EXCEPT ![r] = NoReading]
      /\ reading[r].own => task' = [task EXCEPT ![d].busy = FALSE]
      /\ ~reading[r].own => task' = task
  BY DEF EndReading, Under, KeyTables
<1>2. ReadingsTyped' /\ reading'[r] = NoReading /\ \A s \in Reader : s # r => reading'[s] = reading[s]
  BY <1>0, <1>1 DEF ReadingsTyped
<1>3. /\ ~Under(r)' /\ \A s \in Reader : s # r => (Under(s)' <=> Under(s))
  BY <1>2 DEF Under, NoReading
<1>4. \A e \in KeyDevice : ~Owns(r, e)' /\ \A s \in Reader : s # r => (Owns(s, e)' <=> Owns(s, e))
  BY <1>2, <1>3 DEF Owns
<1>5. reading[r].own => d \in DOMAIN task /\ task[d] \in TaskRow
  BY <1>0, <1>1 DEF Owners, TasksTyped
<1>6. task[d] \in TaskRow =>
        t \in TaskRow /\ t.driver = task[d].driver /\ t.key = task[d].key /\ t.pk = task[d].pk /\ t.busy = FALSE
  BY DEF TaskRow
<1>7. reading[r].own => task' = [task EXCEPT ![d] = t]
  BY <1>1
<1> HIDE DEF t
<1>8. /\ DOMAIN task' = DOMAIN task /\ (reading[r].own => task'[d] = t)
      /\ \A e \in DOMAIN task : e # d \/ ~reading[r].own => task'[e] = task[e]
  BY <1>1, <1>5, <1>7
<1>9. \A e \in DOMAIN task : /\ task'[e] \in TaskRow /\ task'[e].driver = task[e].driver
                             /\ task'[e].key = task[e].key /\ task'[e].pk = task[e].pk
  BY <1>0, <1>5, <1>6, <1>8 DEF TasksTyped
<1>10. TasksTyped'
  BY <1>0, <1>8, <1>9 DEF TasksTyped
<1>11. Owners'
  <2>1. \A e \in DOMAIN task' : task'[e].busy <=> \E s \in Reader : Owns(s, e)'
    <3> SUFFICES ASSUME NEW e \in DOMAIN task PROVE task'[e].busy <=> \E s \in Reader : Owns(s, e)'
      BY <1>8
    <3>1. e \in KeyDevice
      BY <1>0 DEF TasksTyped
    <3>2. CASE e = d /\ reading[r].own
      <4>1. Owns(r, e)
        BY <1>1, <3>2 DEF Owns
      <4>2. \A s \in Reader : s # r => ~Owns(s, e)
        BY <1>0, <3>1, <4>1 DEF Owners
      <4>3. \A s \in Reader : ~Owns(s, e)'
        BY <1>4, <3>1, <4>2
      <4>4. task'[e].busy = FALSE
        BY <1>5, <1>6, <1>8, <3>2
      <4> QED BY <4>3, <4>4, Zenon
    <3>3. CASE ~(e = d /\ reading[r].own)
      <4>1. ~Owns(r, e)
        BY <3>3 DEF Owns
      <4>2. \A s \in Reader : Owns(s, e)' <=> Owns(s, e)
        BY <1>4, <3>1, <4>1
      <4>3. task'[e] = task[e] /\ (task[e].busy <=> \E s \in Reader : Owns(s, e))
        BY <1>0, <1>8, <3>3 DEF Owners
      <4> QED BY <4>2, <4>3, Zenon
    <3> QED BY <3>2, <3>3
  <2>2. \A s, q \in Reader : \A e \in KeyDevice : Owns(s, e)' /\ Owns(q, e)' => s = q
    BY <1>0, <1>4 DEF Owners
  <2>3. \A s \in Reader : Under(s)' /\ reading'[s].own => reading'[s].dev \in DOMAIN task'
    BY <1>0, <1>2, <1>3, <1>8 DEF Owners
  <2>4. \A s \in Reader : Under(s)' /\ reading'[s].same =>
          reading'[s].own /\ task'[reading'[s].dev].driver = reading'[s].driver
    <3> SUFFICES ASSUME NEW s \in Reader, Under(s)', reading'[s].same
                 PROVE  reading'[s].own /\ task'[reading'[s].dev].driver = reading'[s].driver
      OBVIOUS
    <3>1. s # r /\ reading'[s] = reading[s] /\ Under(s)
      BY <1>2, <1>3
    <3>2. /\ reading[s].own /\ task[reading[s].dev].driver = reading[s].driver
          /\ reading[s].dev \in DOMAIN task
      BY <1>0, <3>1 DEF Owners
    <3> QED BY <1>9, <3>1, <3>2
  <2> QED BY <2>1, <2>2, <2>3, <2>4 DEF Owners
<1>12. ~crossed => TasksOwn' /\ ReadingsOwn'
  <2> SUFFICES ASSUME ~crossed PROVE TasksOwn' /\ ReadingsOwn'
    OBVIOUS
  <2>1. TasksOwn /\ ReadingsOwn
    BY <1>0 DEF KeysOwn
  <2>2. TasksOwn'
    BY <1>1, <1>8, <1>9, <2>1 DEF TasksOwn, Declared
  <2>3. ReadingsOwn'
    BY <1>1, <1>2, <1>3, <2>1 DEF ReadingsOwn, Declared, Under
  <2> QED BY <2>2, <2>3
<1> QED BY <1>1, <1>2, <1>10, <1>11, <1>12, TasksOnly

\* What a collection holds once its task is changed or gone.
LEMMA DetachedIs ==
    ASSUME TasksTyped, ReadingsTyped, Owners, NEW d \in KeyDevice, NEW own, own = TRUE \/ own = FALSE,
           reading' = Detached(d, own)
    PROVE  /\ ReadingsTyped'
           /\ \A r \in Reader : /\ Under(r)' <=> Under(r)
                                /\ Under(r) => /\ reading'[r].dev = reading[r].dev /\ reading'[r].pc = reading[r].pc
                                               /\ reading'[r].driver = reading[r].driver
                                               /\ reading'[r].next = reading[r].next
                                /\ Owns(r, d) => reading'[r].own = own /\ ~reading'[r].same
                                /\ ~Owns(r, d) => reading'[r] = reading[r]
<1>1. ASSUME NEW r \in Reader, Owns(r, d)
      PROVE  /\ reading'[r] \in Reading /\ reading'[r].dev = reading[r].dev /\ reading'[r].pc = reading[r].pc
             /\ reading'[r].driver = reading[r].driver /\ reading'[r].next = reading[r].next
             /\ reading'[r].own = own /\ ~reading'[r].same
  <2>1. Under(r) /\ reading[r].dev = d /\ reading[r].own
    BY <1>1 DEF Owns
  <2>2. reading[r] \in Reading /\ TaskKey(r) \in MaybeKey
    BY <2>1, ReadingIs
  <2>3. reading'[r] = [reading[r] EXCEPT !.same = FALSE, !.own = own, !.pk = TaskKey(r)]
    BY <2>1 DEF Detached, Under
  <2> DEFINE k == TaskKey(r)
  <2> HIDE DEF k
  <2>4. reading'[r] = [reading[r] EXCEPT !.same = FALSE, !.own = own, !.pk = k] /\ k \in MaybeKey
    BY <2>2, <2>3 DEF k
  <2>5. CASE own = TRUE
    BY <2>2, <2>4, <2>5 DEF Reading
  <2>6. CASE own = FALSE
    BY <2>2, <2>4, <2>6 DEF Reading
  <2> QED BY <2>5, <2>6
<1>2. \A r \in Reader : ~Owns(r, d) => reading'[r] = reading[r]
  BY DEF Detached, Owns, Under
<1>3. reading' = [r \in Reader |-> reading'[r]]
  BY DEF Detached
<1>4. \A r \in Reader : reading'[r] \in Reading \cup {NoReading}
  BY <1>1, <1>2 DEF ReadingsTyped
<1>5. ReadingsTyped'
  BY <1>3, <1>4 DEF ReadingsTyped
<1>6. \A r \in Reader : Under(r)' <=> Under(r)
  BY <1>1, <1>2 DEF Under, Owns
<1> QED BY <1>1, <1>2, <1>5, <1>6

\* What a step of the synchronisation leaves as it was.
LEMMA SyncOnly ==
    ASSUME KeyInv, UNCHANGED <<devRow, fileKey, plugKey, pandaX, given, crossed>>,
           keySync.list \in SomeRows, keySync # NoSync,
           keySync' = NoSync \/ \E S \in SUBSET KeyDevice : keySync' = [keySync EXCEPT !.pc = "apply", !.todo = S],
           keyCache' \in [KeyDriver -> MaybeKey], \A v \in KeyDriver : keyCache'[v] \in {keyCache[v], ""},
           TasksTyped', ReadingsTyped', Owners', ~crossed => TasksOwn' /\ ReadingsOwn'
    PROVE  KeyInv'
<1>0. TablesTyped /\ SyncTyped /\ PandaTyped /\ KeysOwn
  BY DEF KeyInv
<1>1. TablesTyped' /\ PandaTyped'
  BY <1>0 DEF TablesTyped, PandaTyped
<1>2. SyncTyped' /\ (keySync' # NoSync => keySync'.list = keySync.list)
  <2>1. CASE keySync' = NoSync
    BY <2>1 DEF SyncTyped
  <2>2. CASE keySync' # NoSync
    <3>1. PICK S \in SUBSET KeyDevice : keySync' = [keySync EXCEPT !.pc = "apply", !.todo = S]
      BY <2>2
    <3>2. keySync \in [pc : {"listed", "apply"}, list : SomeRows, todo : SUBSET KeyDevice]
      BY <1>0 DEF SyncTyped
    <3> QED BY <3>1, <3>2 DEF SyncTyped
  <2> QED BY <2>1, <2>2
<1>3. KeysOwn'
  <2> SUFFICES ASSUME ~crossed PROVE KeysOwn'
    BY DEF KeysOwn
  <2>1. FilesOwn' /\ CacheOwn' /\ AllDeclared(devRow)' /\ PandaOwn'
    BY <1>0 DEF KeysOwn, FilesOwn, CacheOwn, AllDeclared, PandaOwn, Declared
  <2>2. SyncOwn'
    BY <1>0, <1>2 DEF KeysOwn, SyncOwn, AllDeclared, Declared
  <2> QED BY <2>1, <2>2 DEF KeysOwn
<1> QED BY <1>1, <1>2, <1>3 DEF KeyInv

\* Keys of drivers no task has are forgotten; the others stay.
LEMMA PrunedIs ==
    ASSUME TablesTyped, NEW T, NEW c, c = Pruned(T)
    PROVE  c \in [KeyDriver -> MaybeKey] /\ \A v \in KeyDriver : c[v] \in {keyCache[v], ""}
BY DEF Pruned, TablesTyped, MaybeKey

\* One device of the list is applied: its task is added, updated or removed.
LEMMA ApplyStep ==
    ASSUME KeyInv, NEW d \in KeyDevice, SyncKeyDevice(d)
    PROVE  KeyInv'
<1>0. TablesTyped /\ TasksTyped /\ ReadingsTyped /\ SyncTyped /\ Owners /\ KeysOwn
  BY DEF KeyInv
<1> DEFINE list == keySync.list
           row == list[d]
<1>1. keySync # NoSync /\ UNCHANGED <<devRow, fileKey, plugKey, pandaX, given, crossed>>
  BY DEF SyncKeyDevice, NoSync, KeyTables
<1>2. keySync \in [pc : {"listed", "apply"}, list : SomeRows, todo : SUBSET KeyDevice]
  BY <1>0, <1>1 DEF SyncTyped
<1>3. list \in SomeRows /\ keySync.todo \subseteq KeyDevice
  BY <1>2
<1>4. keySync' = NoSync \/ \E S \in SUBSET KeyDevice : keySync' = [keySync EXCEPT !.pc = "apply", !.todo = S]
  BY <1>3 DEF SyncKeyDevice
<1>5. d \in DOMAIN list => row \in KeyRow
  BY <1>3, RowsAre
<1>6. ~crossed => TasksOwn /\ ReadingsOwn /\ AllDeclared(list)
  BY <1>0, <1>1 DEF KeysOwn, SyncOwn
<1>7. CASE UNCHANGED <<keyCache, task, reading>>
  <2>1. TasksTyped' /\ ReadingsTyped' /\ Owners'
    BY <1>0, <1>7 DEF TasksTyped, ReadingsTyped, Owners, Owns, Under
  <2>2. ~crossed => TasksOwn' /\ ReadingsOwn'
    BY <1>1, <1>6, <1>7 DEF TasksOwn, ReadingsOwn, Declared
  <2>3. keyCache' \in [KeyDriver -> MaybeKey] /\ \A v \in KeyDriver : keyCache'[v] \in {keyCache[v], ""}
    BY <1>0, <1>7 DEF TablesTyped
  <2> QED BY <1>1, <1>3, <1>4, <2>1, <2>2, <2>3, SyncOnly
<1>8. CASE d \in DOMAIN list /\ d \notin DOMAIN task /\ AddTask(d, row)
  <2>1. /\ UNCHANGED <<keyCache, reading>> /\ DOMAIN task' = DOMAIN task \cup {d} /\ task'[d] = NewTask(row)
        /\ \A e \in DOMAIN task : task'[e] = task[e]
    BY <1>8 DEF AddTask
  <2>2. /\ task'[d] \in TaskRow /\ task'[d].driver = row.driver /\ task'[d].key = row.key
        /\ task'[d].pk = row.key /\ task'[d].busy = FALSE
    BY <1>5, <1>8, <2>1, RowTask
  <2>3. TasksTyped' /\ ReadingsTyped'
    BY <1>0, <2>1, <2>2 DEF TasksTyped, ReadingsTyped
  <2>4. \A r \in Reader : (Under(r)' <=> Under(r)) /\ reading'[r] = reading[r]
    BY <2>1 DEF Under
  <2>5. \A r \in Reader, e \in KeyDevice : Owns(r, e)' <=> Owns(r, e)
    BY <2>4 DEF Owns
  <2>6. \A r \in Reader : ~Owns(r, d)
    BY <1>0, <1>8 DEF Owners, Owns
  <2>7. \A e \in DOMAIN task' : task'[e].busy <=> \E s \in Reader : Owns(s, e)'
    <3> SUFFICES ASSUME NEW e \in DOMAIN task' PROVE task'[e].busy <=> \E s \in Reader : Owns(s, e)'
      OBVIOUS
    <3>1. CASE e = d
      BY <2>2, <2>5, <2>6, <3>1
    <3>2. CASE e # d
      <4>1. e \in DOMAIN task /\ e \in KeyDevice /\ task'[e] = task[e]
        BY <1>0, <2>1, <3>2 DEF TasksTyped
      <4>2. task[e].busy <=> \E s \in Reader : Owns(s, e)
        BY <1>0, <4>1 DEF Owners
      <4> QED BY <2>5, <4>1, <4>2, Zenon
    <3> QED BY <3>1, <3>2
  <2>8. Owners'
    BY <1>0, <2>1, <2>4, <2>5, <2>7 DEF Owners
  <2>9. ~crossed => TasksOwn' /\ ReadingsOwn'
    BY <1>1, <1>6, <1>8, <2>1, <2>2 DEF TasksOwn, ReadingsOwn, AllDeclared, Declared
  <2>10. keyCache' \in [KeyDriver -> MaybeKey] /\ \A v \in KeyDriver : keyCache'[v] \in {keyCache[v], ""}
    BY <1>0, <2>1 DEF TablesTyped
  <2> QED BY <1>1, <1>3, <1>4, <2>3, <2>8, <2>9, <2>10, SyncOnly
<1>9. CASE d \in DOMAIN task /\ RemoveTask(d)
  <2>1. /\ DOMAIN task' = DOMAIN task \ {d} /\ keyCache' = Pruned(task') /\ reading' = Detached(d, FALSE)
        /\ \A e \in DOMAIN task : e # d => task'[e] = task[e]
    BY <1>9 DEF RemoveTask
  <2>2. /\ ReadingsTyped'
        /\ \A r \in Reader : /\ Under(r)' <=> Under(r)
                             /\ Under(r) => /\ reading'[r].dev = reading[r].dev /\ reading'[r].pc = reading[r].pc
                                            /\ reading'[r].driver = reading[r].driver
                                            /\ reading'[r].next = reading[r].next
                             /\ Owns(r, d) => reading'[r].own = FALSE /\ ~reading'[r].same
                             /\ ~Owns(r, d) => reading'[r] = reading[r]
    BY <1>0, <2>1, DetachedIs
  <2>3. TasksTyped'
    BY <1>0, <2>1 DEF TasksTyped
  <2>4. /\ \A r \in Reader : ~Owns(r, d)'
        /\ \A r \in Reader, e \in KeyDevice : e # d => (Owns(r, e)' <=> Owns(r, e))
    BY <2>2 DEF Owns
  <2>5. \A e \in DOMAIN task' : task'[e].busy <=> \E s \in Reader : Owns(s, e)'
    <3> SUFFICES ASSUME NEW e \in DOMAIN task' PROVE task'[e].busy <=> \E s \in Reader : Owns(s, e)'
      OBVIOUS
    <3>1. e \in DOMAIN task /\ e \in KeyDevice /\ e # d /\ task'[e] = task[e]
      BY <1>0, <2>1 DEF TasksTyped
    <3>2. task[e].busy <=> \E s \in Reader : Owns(s, e)
      BY <1>0, <3>1 DEF Owners
    <3> QED BY <2>4, <3>1, <3>2, Zenon
  <2>6. \A s, q \in Reader : \A e \in KeyDevice : Owns(s, e)' /\ Owns(q, e)' => s = q
    BY <1>0, <2>4 DEF Owners
  <2>7. ASSUME NEW r \in Reader, Under(r)', reading'[r].own
        PROVE  reading'[r] = reading[r] /\ reading[r].dev \in DOMAIN task' /\ reading[r].dev # d
    <3>1. ~Owns(r, d) /\ Under(r)
      BY <2>2, <2>7
    <3>2. reading'[r] = reading[r]
      BY <2>2, <3>1
    <3>3. reading[r].dev \in DOMAIN task /\ reading[r].dev # d
      BY <1>0, <2>7, <3>1, <3>2 DEF Owners, Owns
    <3> QED BY <2>1, <3>2, <3>3
  <2>8. ASSUME NEW r \in Reader, Under(r)', reading'[r].same
        PROVE  reading'[r].own /\ task'[reading'[r].dev].driver = reading'[r].driver
    <3>1. ~Owns(r, d) /\ Under(r)
      BY <2>2, <2>8
    <3>2. reading'[r] = reading[r]
      BY <2>2, <3>1
    <3>3. reading[r].own /\ task[reading[r].dev].driver = reading[r].driver
      BY <1>0, <2>8, <3>1, <3>2 DEF Owners
    <3>4. reading[r].dev \in DOMAIN task' /\ reading[r].dev # d
      BY <2>7, <2>8, <3>2, <3>3
    <3> QED BY <2>1, <3>2, <3>3, <3>4
  <2>9. Owners'
    BY <2>5, <2>6, <2>7, <2>8 DEF Owners
  <2>10. ~crossed => TasksOwn' /\ ReadingsOwn'
    <3> SUFFICES ASSUME ~crossed PROVE TasksOwn' /\ ReadingsOwn'
      OBVIOUS
    <3>1. TasksOwn'
      BY <1>1, <1>6, <2>1 DEF TasksOwn, Declared
    <3>2. ReadingsOwn'
      BY <1>1, <1>6, <2>2 DEF ReadingsOwn, Declared, Under
    <3> QED BY <3>1, <3>2
  <2>11. keyCache' \in [KeyDriver -> MaybeKey] /\ \A v \in KeyDriver : keyCache'[v] \in {keyCache[v], ""}
    BY <1>0, <2>1, PrunedIs
  <2> QED BY <1>1, <1>3, <1>4, <2>2, <2>3, <2>9, <2>10, <2>11, SyncOnly
<1>10. CASE d \in DOMAIN list /\ d \in DOMAIN task /\ UpdateTask(d, row)
  <2> DEFINE t == Refreshed(task[d], row)
  <2>1. /\ task' = [task EXCEPT ![d] = t] /\ reading' = Detached(d, TRUE)
        /\ keyCache' = keyCache \/ keyCache' = Pruned(task')
    BY <1>10 DEF UpdateTask
  <2>2. task[d] \in TaskRow /\ row.driver \in KeyDriver /\ row.key \in MaybeKey
    BY <1>0, <1>5, <1>10 DEF TasksTyped, KeyRow
  <2>3. t \in TaskRow /\ t.driver = row.driver /\ t.key = row.key /\ t.pk = row.key /\ t.busy = task[d].busy
    BY <2>2 DEF Refreshed, TaskRow
  <2> HIDE DEF t
  <2>4. DOMAIN task' = DOMAIN task /\ task'[d] = t /\ \A e \in DOMAIN task : e # d => task'[e] = task[e]
    BY <1>10, <2>1
  <2>5. TasksTyped'
    BY <1>0, <2>3, <2>4 DEF TasksTyped
  <2>6. /\ ReadingsTyped'
        /\ \A r \in Reader : /\ Under(r)' <=> Under(r)
                             /\ Under(r) => /\ reading'[r].dev = reading[r].dev /\ reading'[r].pc = reading[r].pc
                                            /\ reading'[r].driver = reading[r].driver
                                            /\ reading'[r].next = reading[r].next
                             /\ Owns(r, d) => reading'[r].own = TRUE /\ ~reading'[r].same
                             /\ ~Owns(r, d) => reading'[r] = reading[r]
    BY <1>0, <2>1, DetachedIs
  <2>7. \A r \in Reader, e \in KeyDevice : Owns(r, e)' <=> Owns(r, e)
    BY <2>6 DEF Owns
  <2>8. \A e \in DOMAIN task' : task'[e].busy <=> \E s \in Reader : Owns(s, e)'
    <3> SUFFICES ASSUME NEW e \in DOMAIN task' PROVE task'[e].busy <=> \E s \in Reader : Owns(s, e)'
      OBVIOUS
    <3>1. e \in DOMAIN task /\ e \in KeyDevice /\ task'[e].busy = task[e].busy
      BY <1>0, <2>3, <2>4 DEF TasksTyped
    <3>2. task[e].busy <=> \E s \in Reader : Owns(s, e)
      BY <1>0, <3>1 DEF Owners
    <3> QED BY <2>7, <3>1, <3>2, Zenon
  <2>9. \A s, q \in Reader : \A e \in KeyDevice : Owns(s, e)' /\ Owns(q, e)' => s = q
    BY <1>0, <2>7 DEF Owners
  <2>10. \A r \in Reader : Under(r)' /\ reading'[r].own => reading'[r].dev \in DOMAIN task'
    BY <1>0, <2>4, <2>6 DEF Owners, Owns
  <2>11. ASSUME NEW r \in Reader, Under(r)', reading'[r].same
         PROVE  reading'[r].own /\ task'[reading'[r].dev].driver = reading'[r].driver
    <3>1. ~Owns(r, d) /\ Under(r)
      BY <2>6, <2>11
    <3>2. reading'[r] = reading[r]
      BY <2>6, <3>1
    <3>3. reading[r].own /\ task[reading[r].dev].driver = reading[r].driver /\ reading[r].dev \in DOMAIN task
      BY <1>0, <2>11, <3>1, <3>2 DEF Owners
    <3>4. reading[r].dev # d
      BY <3>1, <3>3 DEF Owns
    <3> QED BY <2>4, <3>2, <3>3, <3>4
  <2>12. Owners'
    BY <2>8, <2>9, <2>10, <2>11 DEF Owners
  <2>13. ~crossed => TasksOwn' /\ ReadingsOwn'
    <3> SUFFICES ASSUME ~crossed PROVE TasksOwn' /\ ReadingsOwn'
      OBVIOUS
    <3>1. TasksOwn'
      BY <1>1, <1>6, <1>10, <2>3, <2>4 DEF TasksOwn, AllDeclared, Declared
    <3>2. ReadingsOwn'
      BY <1>1, <1>6, <2>6 DEF ReadingsOwn, Declared, Under
    <3> QED BY <3>1, <3>2
  <2>14. keyCache' \in [KeyDriver -> MaybeKey] /\ \A v \in KeyDriver : keyCache'[v] \in {keyCache[v], ""}
    <3>1. CASE keyCache' = keyCache
      BY <1>0, <3>1 DEF TablesTyped
    <3>2. CASE keyCache' = Pruned(task')
      BY <1>0, <3>2, PrunedIs
    <3> QED BY <2>1, <3>1, <3>2
  <2> QED BY <1>1, <1>3, <1>4, <2>5, <2>6, <2>12, <2>13, <2>14, SyncOnly
<1> QED BY <1>7, <1>8, <1>9, <1>10 DEF SyncKeyDevice

-----------------------------------------------------------------------------
\* What drivers declare, and users give, only grows.
Grows == DOMAIN given' = KeyDriver /\ \A v \in KeyDriver : given[v] \subseteq given'[v]

\* A step of rows, files and lists that leaves the tasks and collections alone.
LEMMA TablesOnly ==
    ASSUME KeyInv, UNCHANGED <<keyCache, task, reading>>, Grows, TablesTyped', SyncTyped', PandaTyped',
           ~crossed' => ~crossed /\ FilesOwn' /\ AllDeclared(devRow)' /\ SyncOwn' /\ PandaOwn'
    PROVE  KeyInv'
<1>0. TablesTyped /\ TasksTyped /\ ReadingsTyped /\ Owners /\ KeysOwn
  BY DEF KeyInv
<1>1. TasksTyped' /\ ReadingsTyped' /\ Owners'
  BY <1>0 DEF TasksTyped, ReadingsTyped, Owners, Owns, Under
<1>2. KeysOwn'
  <2> SUFFICES ASSUME ~crossed' PROVE KeysOwn'
    BY DEF KeysOwn
  <2>0. CacheOwn /\ TasksOwn /\ ReadingsOwn
    BY <1>0 DEF KeysOwn
  <2>1. CacheOwn'
    BY <2>0 DEF CacheOwn, Declared, Grows
  <2>2. \A d \in DOMAIN task : task[d].driver \in KeyDriver
    BY <1>0 DEF TasksTyped, TaskRow
  <2>3. TasksOwn'
    BY <2>0, <2>2 DEF TasksOwn, Declared, Grows
  <2>4. \A r \in Reader : Under(r) => reading[r].driver \in KeyDriver
    BY <1>0, ReadingIs
  <2>5. ReadingsOwn'
    BY <2>0, <2>4 DEF ReadingsOwn, Declared, Grows, Under
  <2> QED BY <2>1, <2>3, <2>5 DEF KeysOwn
<1> QED BY <1>1, <1>2 DEF KeyInv

\* What is not touched stays declared.
LEMMA ListGrows ==
    ASSUME Grows, NEW L \in SomeRows, AllDeclared(L)
    PROVE  \A d \in DOMAIN L : L[d].key \in given'[L[d].driver] \cup {""}
<1>1. \A d \in DOMAIN L : L[d].driver \in KeyDriver
  BY RowsAre DEF KeyRow
<1> QED BY <1>1 DEF AllDeclared, Declared, Grows

LEMMA FilesStay ==
    ASSUME Grows, FilesOwn, UNCHANGED <<fileKey, plugKey>> PROVE FilesOwn'
BY DEF Grows, FilesOwn, Declared

LEMMA RowsStay ==
    ASSUME Grows, devRow \in SomeRows, AllDeclared(devRow), devRow' = devRow PROVE AllDeclared(devRow)'
BY ListGrows DEF AllDeclared, Declared

LEMMA SyncStays ==
    ASSUME Grows, SyncTyped, keySync' = keySync PROVE SyncTyped' /\ (SyncOwn => SyncOwn')
<1>1. SyncTyped'
  BY DEF SyncTyped
<1>2. ASSUME SyncOwn, keySync # NoSync PROVE AllDeclared(keySync.list)'
  <2>1. keySync.list \in SomeRows /\ AllDeclared(keySync.list)
    BY <1>2 DEF SyncTyped, SyncOwn
  <2> QED BY <2>1, ListGrows DEF AllDeclared, Declared
<1> QED BY <1>1, <1>2 DEF SyncOwn

LEMMA PandaStays ==
    ASSUME Grows, PandaTyped, pandaX' = pandaX PROVE PandaTyped' /\ (PandaOwn => PandaOwn')
<1>1. PandaTyped'
  BY DEF PandaTyped
<1>2. pandaX # NoSync => pandaX.list \in SomeRows
  BY DEF PandaTyped
<1>3. ASSUME PandaOwn, pandaX # NoSync PROVE AllDeclared(pandaX.list)'
  <2>1. AllDeclared(pandaX.list)
    BY <1>3 DEF PandaOwn
  <2> QED BY <1>2, <1>3, <2>1, ListGrows DEF AllDeclared, Declared
<1>4. ASSUME PandaOwn, pandaX.pc = "backfill"
      PROVE  \A d \in DOMAIN pandaX.list : Declared(pandaX.list[d].driver, pandaX.keys[d])'
  <2>1. pandaX # NoSync
    BY <1>4 DEF NoSync
  <2>2. \A d \in DOMAIN pandaX.list : pandaX.list[d].driver \in KeyDriver
    BY <1>2, <2>1, RowsAre DEF KeyRow
  <2> QED BY <1>4, <2>2 DEF PandaOwn, Declared, Grows
<1> QED BY <1>1, <1>3, <1>4 DEF PandaOwn

\* The user edits and deletes rows.
LEMMA UserStep ==
    ASSUME KeyInv, NEW d \in KeyDevice, EditDeviceRow(d) \/ DeleteDeviceRow(d)
    PROVE  KeyInv'
<1>0. TablesTyped /\ SyncTyped /\ PandaTyped /\ KeysOwn
  BY DEF KeyInv
<1>1. UNCHANGED <<keyCache, task, reading, keySync, pandaX, crossed>>
  BY DEF EditDeviceRow, DeleteDeviceRow
<1>2. PICK D \in SUBSET KeyDevice : devRow \in [D -> KeyRow]
  BY <1>0, RowsAre DEF TablesTyped
<1>3. ~crossed' => ~crossed /\ FilesOwn /\ AllDeclared(devRow) /\ SyncOwn /\ PandaOwn
  BY <1>0, <1>1 DEF KeysOwn
<1>4. CASE EditDeviceRow(d)
  <2>1. PICK row \in KeyRow \ {devRow[d]} :
          /\ devRow' = [devRow EXCEPT ![d] = row] /\ given' = [given EXCEPT ![row.driver] = @ \cup {row.key}]
    BY <1>4 DEF EditDeviceRow
  <2>2. d \in D /\ UNCHANGED <<fileKey, plugKey>> /\ row.driver \in KeyDriver
    BY <1>2, <1>4 DEF EditDeviceRow, KeyRow
  <2>3. Grows /\ row.key \in given'[row.driver]
    BY <1>0, <2>1, <2>2 DEF Grows, TablesTyped
  <2>4. devRow' \in [D -> KeyRow]
    BY <1>2, <2>1, <2>2
  <2>5. TablesTyped'
    BY <1>0, <1>1, <2>2, <2>3, <2>4, RowsAre DEF TablesTyped, Grows
  <2>6. ~crossed' => AllDeclared(devRow)'
    <3> SUFFICES ASSUME ~crossed', NEW e \in D PROVE Declared(devRow[e].driver, devRow[e].key)'
      BY <2>4 DEF AllDeclared
    <3>1. CASE e = d
      BY <1>2, <2>1, <2>2, <2>3, <3>1 DEF Declared
    <3>2. CASE e # d
      <4>1. devRow'[e] = devRow[e] /\ devRow[e].driver \in KeyDriver /\ Declared(devRow[e].driver, devRow[e].key)
        BY <1>2, <1>3, <2>1, <3>2 DEF AllDeclared, KeyRow
      <4> QED BY <2>3, <4>1 DEF Declared, Grows
    <3> QED BY <3>1, <3>2
  <2>7. ~crossed' => FilesOwn' /\ SyncOwn' /\ PandaOwn'
    BY <1>0, <1>1, <1>3, <2>2, <2>3, FilesStay, SyncStays, PandaStays
  <2>8. SyncTyped' /\ PandaTyped'
    BY <1>0, <1>1, <2>3, SyncStays, PandaStays
  <2> QED BY <1>1, <1>3, <2>3, <2>5, <2>6, <2>7, <2>8, TablesOnly
<1>5. CASE DeleteDeviceRow(d)
  <2>1. devRow' = [e \in DOMAIN devRow \ {d} |-> devRow[e]] /\ UNCHANGED <<fileKey, plugKey, given>>
    BY <1>5 DEF DeleteDeviceRow
  <2>2. Grows
    BY <1>0, <2>1 DEF Grows, TablesTyped
  <2>3. devRow' \in [D \ {d} -> KeyRow] /\ D \ {d} \in SUBSET KeyDevice
    BY <1>2, <2>1
  <2>4. TablesTyped'
    BY <1>0, <1>1, <2>1, <2>3, RowsAre DEF TablesTyped
  <2>5. ~crossed' => AllDeclared(devRow)'
    BY <1>2, <1>3, <2>1 DEF AllDeclared, Declared
  <2>6. ~crossed' => FilesOwn' /\ SyncOwn' /\ PandaOwn'
    BY <1>0, <1>1, <1>3, <2>1, <2>2, FilesStay, SyncStays, PandaStays
  <2>7. SyncTyped' /\ PandaTyped'
    BY <1>0, <1>1, <2>2, SyncStays, PandaStays
  <2> QED BY <1>1, <1>3, <2>2, <2>4, <2>5, <2>6, <2>7, TablesOnly
<1> QED BY <1>4, <1>5

\* Drivers' files are replaced, and their plugins loaded again.
LEMMA UploadStep ==
    ASSUME KeyInv, NEW v \in KeyDriver, UploadKey(v) \/ ReloadKey(v)
    PROVE  KeyInv'
<1>0. TablesTyped /\ SyncTyped /\ PandaTyped /\ KeysOwn
  BY DEF KeyInv
<1>1. UNCHANGED <<keyCache, task, reading, keySync, pandaX, crossed>>
  BY DEF UploadKey, ReloadKey
<1>2. ~crossed' => ~crossed /\ FilesOwn /\ AllDeclared(devRow) /\ SyncOwn /\ PandaOwn
  BY <1>0, <1>1 DEF KeysOwn
<1>3. CASE UploadKey(v)
  <2>1. PICK k \in MaybeKey \ {fileKey[v]} :
          fileKey' = [fileKey EXCEPT ![v] = k] /\ given' = [given EXCEPT ![v] = @ \cup {k}]
    BY <1>3 DEF UploadKey
  <2>2. UNCHANGED <<devRow, plugKey>>
    BY <1>3 DEF UploadKey
  <2>3. Grows /\ k \in given'[v]
    BY <1>0, <2>1 DEF Grows, TablesTyped
  <2>4. TablesTyped'
    BY <1>0, <1>1, <2>1, <2>2, <2>3 DEF TablesTyped, Grows
  <2>5. ~crossed' => FilesOwn'
    BY <1>0, <1>2, <2>1, <2>2, <2>3 DEF FilesOwn, Declared, Grows, TablesTyped
  <2>6. ~crossed' => AllDeclared(devRow)' /\ SyncOwn' /\ PandaOwn'
    BY <1>0, <1>1, <1>2, <2>2, <2>3, RowsStay, SyncStays, PandaStays DEF TablesTyped
  <2>7. SyncTyped' /\ PandaTyped'
    BY <1>0, <1>1, <2>3, SyncStays, PandaStays
  <2> QED BY <1>1, <1>2, <2>3, <2>4, <2>5, <2>6, <2>7, TablesOnly
<1>4. CASE ReloadKey(v)
  <2>1. plugKey' = [plugKey EXCEPT ![v] = fileKey[v]] /\ UNCHANGED <<devRow, fileKey, given>>
    BY <1>4 DEF ReloadKey
  <2>2. Grows
    BY <1>0, <2>1 DEF Grows, TablesTyped
  <2>3. TablesTyped'
    BY <1>0, <1>1, <2>1 DEF TablesTyped
  <2>4. ~crossed' => FilesOwn'
    BY <1>0, <1>2, <2>1 DEF FilesOwn, Declared, TablesTyped
  <2>5. ~crossed' => AllDeclared(devRow)' /\ SyncOwn' /\ PandaOwn'
    BY <1>0, <1>1, <1>2, <2>1, <2>2, RowsStay, SyncStays, PandaStays DEF TablesTyped
  <2>6. SyncTyped' /\ PandaTyped'
    BY <1>0, <1>1, <2>2, SyncStays, PandaStays
  <2> QED BY <1>1, <1>2, <2>2, <2>3, <2>4, <2>5, <2>6, TablesOnly
<1> QED BY <1>3, <1>4

\* A relation that WFMin can be applied to.
LEMMA LessIsWellFounded == \E R : IsWellFoundedOn(R, Nat) /\ \A x, y \in Nat : x < y => <<x, y>> \in R
<1>1. \A x, y \in Nat : x < y => <<x, y>> \in OpToRel(<, Nat)
  BY DEF OpToRel
<1> QED BY <1>1, NatLessThanWellFounded

LEMMA Minimal ==
    ASSUME NEW R, IsWellFoundedOn(R, Nat), NEW T, T \subseteq Nat, T # {}
    PROVE  \E x \in T : \A y \in T : ~ (<<y, x>> \in R)
BY WFMin, Zenon

LEMMA LeastIs ==
    ASSUME NEW T, T \subseteq Nat, T # {}
    PROVE  \E x \in T : \A y \in T : x <= y
<1>1. PICK R : IsWellFoundedOn(R, Nat) /\ \A x, y \in Nat : x < y => <<x, y>> \in R
  BY LessIsWellFounded
<1>2. PICK x \in T : \A y \in T : ~(<<y, x>> \in R)
  BY <1>1, Minimal
<1>3. \A y \in T : ~(y < x)
  BY <1>1, <1>2
<1>4. \A y \in T : y \in Nat /\ x \in Nat
  OBVIOUS
<1> QED BY <1>3, <1>4

\* A set of devices that is not empty has a first.
LEMMA FirstIs ==
    ASSUME NEW S \in SUBSET KeyDevice, S # {}
    PROVE  FirstOf(S) \in S
<1>1. LastDevice \in Nat
  BY ProductKeysAssumption
<1>2. \A x \in KeyDevice : x \in Nat
  BY <1>1 DEF KeyDevice
<1>3. S \subseteq Nat
  BY <1>2
<1>4. PICK x \in S : \A y \in S : x <= y
  BY <1>3, LeastIs
<1> QED BY <1>4 DEF FirstOf

\* A list of rows is taken, by the synchronisation or by PandaX.
LEMMA ListStep ==
    ASSUME KeyInv, SyncKeyList \/ ListSyncDevices
    PROVE  KeyInv'
<1>0. TablesTyped /\ SyncTyped /\ PandaTyped /\ KeysOwn
  BY DEF KeyInv
<1>1. UNCHANGED <<devRow, fileKey, plugKey, keyCache, task, reading, given, crossed>>
  BY DEF SyncKeyList, ListSyncDevices, KeyTables
<1>2. Grows /\ TablesTyped' /\ devRow \in SomeRows
  BY <1>0, <1>1 DEF Grows, TablesTyped
<1>3. ~crossed' => ~crossed /\ FilesOwn' /\ AllDeclared(devRow)' /\ AllDeclared(devRow) /\ SyncOwn /\ PandaOwn
  BY <1>0, <1>1, <1>2, FilesStay, RowsStay DEF KeysOwn
<1>4. CASE SyncKeyList
  <2>1. keySync' = [pc |-> "listed", list |-> devRow, todo |-> KeyDevice] /\ pandaX' = pandaX
    BY <1>4 DEF SyncKeyList
  <2>2. SyncTyped'
    BY <1>2, <2>1 DEF SyncTyped
  <2>3. AllDeclared(devRow) => SyncOwn'
    BY <1>1, <2>1 DEF SyncOwn, AllDeclared, Declared
  <2>4. PandaTyped' /\ (PandaOwn => PandaOwn')
    BY <1>0, <1>2, <2>1, PandaStays
  <2> QED BY <1>1, <1>2, <1>3, <2>2, <2>3, <2>4, TablesOnly
<1>5. CASE ListSyncDevices
  <2>1. pandaX' = [pc |-> "resolve", list |-> devRow] /\ keySync' = keySync
    BY <1>5 DEF ListSyncDevices
  <2>2. PandaTyped'
    BY <1>2, <2>1 DEF PandaTyped
  <2>3. AllDeclared(devRow) => PandaOwn'
    BY <1>1, <2>1 DEF PandaOwn, AllDeclared, Declared
  <2>4. SyncTyped' /\ (SyncOwn => SyncOwn')
    BY <1>0, <1>2, <2>1, SyncStays
  <2> QED BY <1>1, <1>2, <1>3, <2>2, <2>3, <2>4, TablesOnly
<1> QED BY <1>4, <1>5

\* PandaX takes the keys from the drivers' files.
LEMMA ResolveStep ==
    ASSUME KeyInv, ResolveSyncKeys
    PROVE  KeyInv'
<1>0. TablesTyped /\ SyncTyped /\ PandaTyped /\ KeysOwn
  BY DEF KeyInv
<1> DEFINE L == pandaX.list
<1>1. /\ UNCHANGED <<devRow, fileKey, plugKey, keyCache, task, reading, keySync, given, crossed>>
      /\ pandaX.pc = "resolve"
  BY DEF ResolveSyncKeys, KeyTables
<1>2. Grows /\ TablesTyped' /\ pandaX # NoSync /\ L \in SomeRows
  BY <1>0, <1>1 DEF Grows, TablesTyped, PandaTyped, NoSync
<1>3. ~crossed' => ~crossed /\ FilesOwn' /\ FilesOwn /\ AllDeclared(devRow)' /\ AllDeclared(L) /\ SyncOwn'
  BY <1>0, <1>1, <1>2, FilesStay, RowsStay, SyncStays DEF KeysOwn, PandaOwn, TablesTyped
<1>4. SyncTyped'
  BY <1>0, <1>1, <1>2, SyncStays
<1>5. PandaTyped' /\ (~crossed' => PandaOwn')
  <2>1. CASE DOMAIN L = {}
    BY <2>1 DEF ResolveSyncKeys, PandaTyped, PandaOwn, NoSync
  <2>2. CASE DOMAIN L # {}
    <3>1. pandaX' = [pc |-> "backfill", list |-> L, todo |-> DOMAIN L,
                     keys |-> [d \in DOMAIN L |-> fileKey[L[d].driver]]]
      BY <2>2 DEF ResolveSyncKeys
    <3>2. /\ DOMAIN pandaX' = {"pc", "list", "todo", "keys"}
          /\ pandaX'.pc = "backfill" /\ pandaX'.list = L /\ pandaX'.todo = DOMAIN L
          /\ \A d \in DOMAIN L : pandaX'.keys[d] = fileKey[L[d].driver]
      BY <3>1
    <3>3. \A d \in DOMAIN L : L[d].driver \in KeyDriver
      BY <1>2, RowsAre DEF KeyRow
    <3>4. \A d \in DOMAIN L : fileKey[L[d].driver] \in MaybeKey
      BY <1>0, <3>3 DEF TablesTyped
    <3>5. PandaTyped'
      BY <1>2, <2>2, <3>2, <3>4 DEF PandaTyped
    <3>6. ASSUME ~crossed' PROVE PandaOwn'
      <4>1. AllDeclared(L) /\ FilesOwn /\ given' = given
        BY <1>1, <1>3, <3>6
      <4>2. \A d \in DOMAIN L : Declared(L[d].driver, fileKey[L[d].driver])
        BY <3>3, <4>1 DEF FilesOwn
      <4>3. \A d \in DOMAIN L : /\ Declared(L[d].driver, L[d].key)'
                               /\ Declared(L[d].driver, pandaX.keys[d])'
        <5> SUFFICES ASSUME NEW d \in DOMAIN L
                     PROVE  /\ pandaX'.list[d].key \in given'[pandaX'.list[d].driver] \cup {""}
                            /\ pandaX'.keys[d] \in given'[pandaX'.list[d].driver] \cup {""}
          BY <3>2 DEF Declared
        <5>1. L[d].key \in given[L[d].driver] \cup {""} /\ fileKey[L[d].driver] \in given[L[d].driver] \cup {""}
          BY <4>1, <4>2 DEF AllDeclared, Declared
        <5>2. pandaX'.list = L /\ pandaX'.keys[d] = fileKey[L[d].driver]
          BY <3>2
        <5> QED BY <4>1, <5>1, <5>2
      <4> QED BY <3>2, <4>3 DEF PandaOwn, AllDeclared, Declared
    <3> QED BY <3>5, <3>6
  <2> QED BY <2>1, <2>2
<1> QED BY <1>1, <1>2, <1>3, <1>4, <1>5, TablesOnly

\* A key is written back to a row, or not.
LEMMA BackfillStep ==
    ASSUME KeyInv, NEW d \in KeyDevice, BackfillKey(d) \/ BackfillKeyFails(d)
    PROVE  KeyInv'
<1>0. TablesTyped /\ SyncTyped /\ PandaTyped /\ KeysOwn
  BY DEF KeyInv
<1> DEFINE L == pandaX.list
           k == pandaX.keys[d]
           left == pandaX.todo \ {d}
<1>1. /\ UNCHANGED <<fileKey, plugKey, keyCache, task, reading, keySync, given>>
      /\ pandaX.pc = "backfill" /\ d = FirstOf(pandaX.todo)
      /\ pandaX' = IF left = {} THEN NoSync ELSE [pandaX EXCEPT !.todo = left]
      /\ UNCHANGED <<devRow, crossed>> \/ UpdateDeviceProductKey(d, L[d].driver, k)
  BY DEF BackfillKey, BackfillKeyFails, BackfillGoesOn, KeyTables
<1>2. /\ Grows /\ pandaX # NoSync /\ L \in SomeRows /\ pandaX.todo \subseteq DOMAIN L /\ pandaX.todo # {}
      /\ \A e \in DOMAIN L : pandaX.keys[e] \in MaybeKey
  BY <1>0, <1>1 DEF Grows, TablesTyped, PandaTyped, NoSync
<1>3. d \in DOMAIN L /\ k \in MaybeKey
  <2>1. pandaX.todo \in SUBSET KeyDevice
    BY <1>2, RowsAre
  <2>2. d \in pandaX.todo
    BY <1>1, <1>2, <2>1, FirstIs
  <2> QED BY <1>2, <2>2
<1>4. ~crossed => FilesOwn /\ AllDeclared(devRow) /\ AllDeclared(L) /\ SyncOwn /\ Declared(L[d].driver, k) /\ PandaOwn
  BY <1>0, <1>1, <1>2, <1>3 DEF KeysOwn, PandaOwn
<1>5. devRow' \in SomeRows /\ (~crossed' => ~crossed /\ AllDeclared(devRow)')
  <2>1. CASE UNCHANGED <<devRow, crossed>>
    BY <1>0, <1>1, <1>4, <2>1 DEF TablesTyped, AllDeclared, Declared
  <2>2. CASE UpdateDeviceProductKey(d, L[d].driver, k)
    BY <1>0, <1>1, <1>3, <1>4, <2>2, UpdateIs DEF TablesTyped
  <2> QED BY <1>1, <2>1, <2>2
<1>6. TablesTyped'
  BY <1>0, <1>1, <1>5 DEF TablesTyped
<1>7. SyncTyped' /\ (~crossed' => FilesOwn' /\ SyncOwn')
  BY <1>0, <1>1, <1>2, <1>4, <1>5, FilesStay, SyncStays
<1>8. PandaTyped' /\ (~crossed' => PandaOwn')
  <2>1. CASE left = {}
    BY <1>1, <2>1 DEF PandaTyped, PandaOwn, NoSync
  <2>2. CASE left # {}
    <3>1. pandaX' = [pandaX EXCEPT !.todo = left]
      BY <1>1, <2>2
    <3>2. DOMAIN pandaX = {"pc", "list", "todo", "keys"}
      BY <1>0, <1>1, <1>2 DEF PandaTyped
    <3>3. /\ DOMAIN pandaX' = DOMAIN pandaX /\ pandaX'.pc = pandaX.pc /\ pandaX'.list = L
          /\ pandaX'.keys = pandaX.keys /\ pandaX'.todo = left
      BY <3>1, <3>2
    <3>4. PandaTyped'
      BY <1>1, <1>2, <2>2, <3>2, <3>3 DEF PandaTyped
    <3>5. ~crossed' => PandaOwn'
      BY <1>1, <1>2, <1>4, <1>5, <3>3 DEF PandaOwn, AllDeclared, Declared
    <3> QED BY <3>4, <3>5
  <2> QED BY <2>1, <2>2
<1> QED BY <1>1, <1>2, <1>5, <1>6, <1>7, <1>8, TablesOnly

\* Whoever writes product keys, and however the writes interleave with changes
\* of devices and drivers: a task's collection is the only one that counts as
\* the task's, and the key fixed for a driver is one of its own as long as
\* nobody wrote a key for a device that had changed driver meanwhile.
THEOREM KeysKept == ProductKeysSpec => []KeysSound
<1>1. ProductKeysInit => KeyInv
  BY KeyStart
<1>2. KeyInv /\ [ProductKeysNext]_ProductKeysVars => KeyInv'
  <2> SUFFICES ASSUME KeyInv, [ProductKeysNext]_ProductKeysVars PROVE KeyInv'
    OBVIOUS
  <2>1. CASE UNCHANGED ProductKeysVars
    <3>1. UNCHANGED <<devRow, fileKey, plugKey, keyCache, task, reading, keySync, pandaX, given, crossed>>
      BY <2>1 DEF ProductKeysVars, KeyTables
    <3>2. TablesTyped /\ TasksTyped /\ ReadingsTyped /\ SyncTyped /\ PandaTyped /\ Owners /\ KeysOwn
      BY DEF KeyInv
    <3>3. TablesTyped' /\ TasksTyped' /\ ReadingsTyped' /\ SyncTyped' /\ PandaTyped'
      BY <3>1, <3>2 DEF TablesTyped, TasksTyped, ReadingsTyped, SyncTyped, PandaTyped
    <3>4. Owners'
      BY <3>1, <3>2 DEF Owners, Owns, Under
    <3>5. KeysOwn'
      BY <3>1, <3>2 DEF KeysOwn, FilesOwn, CacheOwn, AllDeclared, TasksOwn, ReadingsOwn, SyncOwn, PandaOwn, Declared
    <3> QED BY <3>3, <3>4, <3>5 DEF KeyInv
  <2>2. ASSUME NEW r \in Reader, ExecuteFails(r) \/ WriteKeyFails(r) \/ ReadingStep(r) PROVE KeyInv'
    BY <2>2, FailStep, ExecutedStep, FixStep, WriteStep, ObjectStep, TaskStep, ReadingEnds DEF ReadingStep
  <2>3. ASSUME NEW r \in Reader, NEW d \in KeyDevice, BeginReading(r, d) PROVE KeyInv'
    BY <2>3, ReadingBegins
  <2>4. CASE SyncKeys
    BY <2>4, ListStep, ApplyStep DEF SyncKeys
  <2>5. ASSUME NEW d \in KeyDevice, EditDeviceRow(d) \/ DeleteDeviceRow(d) PROVE KeyInv'
    BY <2>5, UserStep
  <2>6. ASSUME NEW d \in KeyDevice, BackfillKey(d) \/ BackfillKeyFails(d) PROVE KeyInv'
    BY <2>6, BackfillStep
  <2>7. ASSUME NEW v \in KeyDriver, UploadKey(v) \/ ReloadKey(v) PROVE KeyInv'
    BY <2>7, UploadStep
  <2>8. CASE ListSyncDevices \/ ResolveSyncKeys
    BY <2>8, ListStep, ResolveStep
  <2> QED BY <2>1, <2>2, <2>3, <2>4, <2>5, <2>6, <2>7, <2>8 DEF ProductKeysNext
<1>3. KeyInv => KeysSound
  BY KeySafe
<1> QED BY <1>1, <1>2, <1>3, PTL DEF ProductKeysSpec

-----------------------------------------------------------------------------
(* ConfigLoad: the parser's stack, and the nesting of the lines.            *)

\* The same of a file f.
KeyLinesOf(f, n) == {i \in 1 .. n : f[i].kind = "key"}
Less(f, i, ind) == {j \in KeyLinesOf(f, i - 1) : f[j].indent < ind}
ParentOf(f, i) ==
    IF Less(f, i, f[i].indent) = {} THEN 0
    ELSE CHOOSE j \in Less(f, i, f[i].indent) : \A k \in Less(f, i, f[i].indent) : k <= j
NestedIn(f, i) ==
    /\ f[i].indent % 2 = 0 /\ f[i].kind # "junk"
    /\ f[i].kind = "key" /\ f[i].indent > 0 =>
         /\ ParentOf(f, i) # 0 /\ f[ParentOf(f, i)].value = NoValue
         /\ f[ParentOf(f, i)].indent = f[i].indent - 2
GivenIn(f) == {i \in KeyLinesOf(f, Len(f)) : f[i].value # NoValue /\ NestedIn(f, i)}

\* A path of file f for each of its lines, from the path of its section.
IsPaths(f, P, n) ==
    /\ P[0] = <<>>
    /\ \A i \in 1 .. n : P[i] = Append(P[ParentOf(f, i)], f[i].key)
LastIn(S, j) == j \in S /\ \A k \in S : k <= j
\* Line j is the section that a next line e levels down would be in.
SectionIs(f, e, j) ==
    /\ LastIn(Less(f, Len(f) + 1, 2 * e), j)
    /\ f[j].value = NoValue /\ f[j].indent = 2 * e - 2
StackOf(f, P, s) ==
    /\ \A e \in 1 .. Len(s) : \E j \in 1 .. Len(f) : SectionIs(f, e, j) /\ SubSeq(s, 1, e) = P[j]
    /\ \A e \in Nat : e > Len(s) => \A j : ~SectionIs(f, e, j)
FlatOf(f, P, t) ==
    /\ DOMAIN t = {P[i] : i \in GivenIn(f)}
    /\ \A i \in GivenIn(f) : (\A j \in GivenIn(f) : P[j] = P[i] => j <= i) => t[P[i]] = f[i].value

\* The inductive invariant.
ParseTypes ==
    /\ file \in Seq(ConfigLine) /\ Len(file) <= MaxConfigLines /\ pathStack \in Seq(STRING)
    /\ loading \in {"parse", "env", "loaded"} /\ (refused => loading # "parse") /\ refused \in BOOLEAN
ParseInv ==
    /\ ParseTypes /\ FileAllOrNothing
    /\ loading = "parse" \/ (loading = "env" /\ refused) => config = Default
    /\ refused <=> \E i \in 1 .. Len(file) : ~NestedIn(file, i)
    /\ loading = "parse" => StackOf(file, PathTo, pathStack)
    /\ FlatOf(file, PathTo, flat)

LEMMA GreatestIs ==
    ASSUME NEW b \in Nat, NEW S, S \subseteq 0 .. b, S # {}
    PROVE  \E j : LastIn(S, j)
<1> DEFINE T == {b - x : x \in S}
<1>1. T \subseteq Nat /\ T # {}
  <2>1. \A x \in S : b - x \in Nat
    OBVIOUS
  <2>2. PICK x \in S : TRUE
    OBVIOUS
  <2> QED BY <2>1, <2>2
<1>2. PICK y \in T : \A z \in T : y <= z
  BY <1>1, LeastIs
<1>3. PICK x \in S : y = b - x
  OBVIOUS
<1>4. ASSUME NEW k \in S PROVE k <= x
  <2>1. b - k \in T /\ k \in Nat /\ x \in Nat
    OBVIOUS
  <2>2. b - x <= b - k
    BY <1>2, <1>3, <2>1
  <2> QED BY <2>1, <2>2
<1> QED BY <1>4 DEF LastIn

LEMMA LastIsUnique ==
    ASSUME NEW S, S \subseteq Nat, NEW j, NEW k, LastIn(S, j), LastIn(S, k)
    PROVE  j = k
BY DEF LastIn

\* The section of a line comes before it.
LEMMA ParentIs ==
    ASSUME NEW f, NEW i \in Nat, i >= 1
    PROVE  /\ ParentOf(f, i) \in 0 .. i - 1
           /\ Less(f, i, f[i].indent) # {} => LastIn(Less(f, i, f[i].indent), ParentOf(f, i))
<1> DEFINE S == Less(f, i, f[i].indent)
<1>1. S \subseteq 1 .. i - 1 /\ S \subseteq Nat
  BY DEF Less, KeyLinesOf
<1>2. CASE S = {}
  BY <1>2 DEF ParentOf
<1>3. CASE S # {}
  <2> HIDE DEF S
  <2>0. i - 1 \in Nat /\ S \subseteq 0 .. i - 1
    BY <1>1
  <2>1. PICK j : LastIn(S, j)
    BY <1>3, <2>0, GreatestIs
  <2>2. ParentOf(f, i) = CHOOSE k \in S : \A m \in S : m <= k
    BY <1>3 DEF ParentOf, S
  <2>3. LastIn(S, ParentOf(f, i))
    BY <2>1, <2>2 DEF LastIn
  <2>4. ParentOf(f, i) \in 0 .. i - 1
    BY <2>0, <2>3 DEF LastIn
  <2> QED BY <2>3, <2>4 DEF S
<1> QED BY <1>2, <1>3

\* Definitions by recursion on the lines: there is a function, and one only.
PathsUp(g, n, p, key) == g = [i \in 0 .. n |-> IF i = 0 THEN <<>> ELSE Append(g[p[i]], key[i])]
LEMMA PathsExist ==
    ASSUME NEW N \in Nat, NEW p, NEW key, \A i \in 1 .. N : p[i] \in 0 .. i - 1
    PROVE  \E g : PathsUp(g, N, p, key)
<1> DEFINE Up(g, n) == PathsUp(g, n, p, key)
           T == {n \in 0 .. N : ~\E g : Up(g, n)}
<1>1. T = {}
  <2> SUFFICES ASSUME T # {} PROVE FALSE
    OBVIOUS
  <2>1. T \subseteq Nat
    OBVIOUS
  <2>2. PICK n \in T : \A m \in T : n <= m
    BY <2>1, LeastIs
  <2>3. n # 0
    <3> DEFINE g == [i \in 0 .. 0 |-> <<>>]
    <3>1. Up(g, 0)
      BY DEF PathsUp
    <3> QED BY <3>1
  <2>0. n \in 0 .. N /\ n \in Nat
    OBVIOUS
  <2>4. n - 1 \in 0 .. N /\ n - 1 \notin T
    <3>1. n - 1 \in 0 .. N /\ ~(n <= n - 1)
      BY <2>0, <2>3
    <3> HIDE DEF T
    <3> QED BY <2>2, <3>1
  <2>5. PICK g : PathsUp(g, n - 1, p, key)
    BY <2>4
  <2> DEFINE h == [i \in 0 .. n |-> IF i = n THEN Append(g[p[n]], key[n]) ELSE g[i]]
  <2>6. \A i \in 0 .. n - 1 : h[i] = g[i]
    BY <2>1, <2>3
  <2>7. \A i \in 1 .. n : p[i] \in 0 .. n - 1
    BY <2>1
  <2>8. \A i \in 0 .. n : h[i] = IF i = 0 THEN <<>> ELSE Append(h[p[i]], key[i])
    <3> SUFFICES ASSUME NEW i \in 0 .. n PROVE h[i] = IF i = 0 THEN <<>> ELSE Append(h[p[i]], key[i])
      OBVIOUS
    <3>1. CASE i = n
      BY <2>1, <2>3, <2>6, <2>7, <3>1
    <3>2. CASE i # n
      <4>1. i \in 0 .. n - 1
        BY <2>1, <3>2
      <4>2. g[i] = IF i = 0 THEN <<>> ELSE Append(g[p[i]], key[i])
        BY <2>5, <4>1 DEF PathsUp
      <4>3. h[i] = g[i]
        BY <2>6, <4>1
      <4>4. i # 0 => h[p[i]] = g[p[i]]
        BY <2>1, <2>6, <2>7, <4>1
      <4> QED BY <4>2, <4>3, <4>4
    <3> QED BY <3>1, <3>2
  <2>9. h = [i \in 0 .. n |-> h[i]]
    OBVIOUS
  <2> HIDE DEF h
  <2>10. Up(h, n)
    BY <2>8, <2>9 DEF PathsUp
  <2> QED BY <2>10
<1>2. N \notin T
  BY <1>1
<1> QED BY <1>2

SamePaths(P, Q, n) == \A i \in 0 .. n : P[i] = Q[i]
LEMMA PathsAgree ==
    ASSUME NEW f, NEW h, NEW n \in Nat, NEW P, NEW Q, IsPaths(f, P, n), IsPaths(h, Q, n),
           \A i \in 1 .. n : ParentOf(f, i) = ParentOf(h, i) /\ f[i].key = h[i].key
    PROVE  SamePaths(P, Q, n)
<1> DEFINE T == {i \in 0 .. n : P[i] # Q[i]}
<1> SUFFICES ASSUME T # {} PROVE FALSE
  BY DEF SamePaths
<1>1. T \subseteq Nat
  OBVIOUS
<1>2. PICK i \in T : \A m \in T : i <= m
  BY <1>1, LeastIs
<1>3. i # 0
  BY DEF IsPaths
<1>4. i \in 1 .. n /\ ParentOf(f, i) \in 0 .. i - 1 /\ i \in Nat
  BY <1>1, <1>3, ParentIs
<1>5. P[ParentOf(f, i)] = Q[ParentOf(f, i)]
  BY <1>2, <1>4
<1>6. P[i] = Q[i]
  BY <1>4, <1>5 DEF IsPaths
<1> QED BY <1>6

LEMMA PathToIs == IsPaths(file, PathTo, MaxConfigLines)
<1>1. MaxConfigLines \in Nat
  BY ConfigLoadAssumption
<1>2. \A i : Parent(i) = ParentOf(file, i)
  BY DEF Parent, ParentOf, KeyLines, KeyLinesOf, Less
<1> DEFINE N == MaxConfigLines
           p == [i \in 1 .. N |-> Parent(i)]
           key == [i \in 1 .. N |-> file[i].key]
<1>3. \A i \in 1 .. N : p[i] \in 0 .. i - 1
  BY <1>1, <1>2, ParentIs
<1> HIDE DEF p, key
<1>4. PICK g : PathsUp(g, N, p, key)
  BY <1>1, <1>3, PathsExist
<1>5. g = [i \in 0 .. MaxConfigLines |-> IF i = 0 THEN <<>> ELSE Append(g[Parent(i)], file[i].key)]
  <2>1. \A i \in 0 .. N : i # 0 => p[i] = Parent(i) /\ key[i] = file[i].key
    BY <1>1 DEF p, key
  <2> QED BY <1>4, <2>1 DEF PathsUp
<1>6. PathTo = [i \in 0 .. MaxConfigLines |-> IF i = 0 THEN <<>> ELSE Append(PathTo[Parent(i)], file[i].key)]
  BY <1>5 DEF PathTo
<1>7. PathTo[0] = <<>>
  BY <1>1, <1>6
<1>8. \A i \in 1 .. N : PathTo[i] = Append(PathTo[ParentOf(file, i)], file[i].key)
  <2> SUFFICES ASSUME NEW i \in 1 .. N PROVE PathTo[i] = Append(PathTo[ParentOf(file, i)], file[i].key)
    OBVIOUS
  <2>1. i \in 0 .. MaxConfigLines /\ i # 0
    BY <1>1
  <2>2. PathTo[i] = Append(PathTo[Parent(i)], file[i].key)
    BY <1>6, <2>1
  <2> QED BY <1>2, <2>2
<1> QED BY <1>7, <1>8 DEF IsPaths

\* A line more: what was said of the others stays.
Grown(f, l, g, n) ==
    /\ g \in Seq(ConfigLine) /\ Len(g) = n + 1 /\ n \in Nat /\ g[n + 1] = l
    /\ \A i \in 1 .. n : g[i] = f[i]
    /\ \A i \in 1 .. n + 1 : \A ind : Less(g, i, ind) = Less(f, i, ind)
    /\ \A ind : Less(g, n + 2, ind) = Less(f, n + 1, ind)
                  \cup IF l.kind = "key" /\ l.indent < ind THEN {n + 1} ELSE {}
    /\ \A i \in 1 .. n : ParentOf(g, i) = ParentOf(f, i) /\ (NestedIn(g, i) <=> NestedIn(f, i))
LEMMA LineAppended ==
    ASSUME NEW f \in Seq(ConfigLine), NEW l \in ConfigLine
    PROVE  Grown(f, l, Append(f, l), Len(f))
<1> SUFFICES ASSUME NEW g, g = Append(f, l), NEW n, n = Len(f) PROVE Grown(f, l, g, n)
  OBVIOUS
<1>1. g \in Seq(ConfigLine) /\ Len(g) = n + 1 /\ n \in Nat /\ g[n + 1] = l /\ \A i \in 1 .. n : g[i] = f[i]
  OBVIOUS
<1>2. \A i \in 1 .. n + 1 : KeyLinesOf(g, i - 1) = KeyLinesOf(f, i - 1)
  <2> SUFFICES ASSUME NEW i \in 1 .. n + 1 PROVE KeyLinesOf(g, i - 1) = KeyLinesOf(f, i - 1)
    OBVIOUS
  <2>1. \A j \in 1 .. i - 1 : j \in 1 .. n
    BY <1>1
  <2> QED BY <1>1, <2>1 DEF KeyLinesOf
<1>3. ASSUME NEW i \in 1 .. n + 1, NEW ind PROVE Less(g, i, ind) = Less(f, i, ind)
  <2>1. \A j \in KeyLinesOf(f, i - 1) : g[j] = f[j]
    <3>1. \A j \in 1 .. i - 1 : j \in 1 .. n
      BY <1>1
    <3> QED BY <1>1, <3>1 DEF KeyLinesOf
  <2> QED BY <1>2, <2>1 DEF Less
<1>4. ASSUME NEW ind
      PROVE  Less(g, n + 2, ind) = Less(f, n + 1, ind) \cup IF l.kind = "key" /\ l.indent < ind THEN {n + 1} ELSE {}
  <2>1. Less(g, n + 2, ind) = {j \in 1 .. n + 1 : g[j].kind = "key" /\ g[j].indent < ind}
    BY <1>1 DEF Less, KeyLinesOf
  <2>2. Less(f, n + 1, ind) = {j \in 1 .. n : f[j].kind = "key" /\ f[j].indent < ind}
    BY <1>1 DEF Less, KeyLinesOf
  <2>3. 1 .. n + 1 = (1 .. n) \cup {n + 1} /\ n + 1 \notin 1 .. n
    BY <1>1
  <2> HIDE <1>1
  <2> QED BY <1>1, <2>1, <2>2, <2>3
<1>5. ASSUME NEW i \in 1 .. n PROVE ParentOf(g, i) = ParentOf(f, i) /\ (NestedIn(g, i) <=> NestedIn(f, i))
  <2>1. g[i] = f[i] /\ i \in 1 .. n + 1 /\ i \in Nat /\ i >= 1
    BY <1>1
  <2>2. Less(g, i, g[i].indent) = Less(f, i, f[i].indent)
    BY <1>3, <2>1
  <2>3. ParentOf(g, i) = ParentOf(f, i)
    BY <2>2 DEF ParentOf
  <2>4. ParentOf(f, i) \in 0 .. i - 1
    BY <2>1, ParentIs
  <2>5. ParentOf(f, i) # 0 => g[ParentOf(f, i)] = f[ParentOf(f, i)]
    BY <1>1, <2>1, <2>4
  <2>6. NestedIn(g, i) <=> NestedIn(f, i)
    BY <2>1, <2>3, <2>5 DEF NestedIn
  <2> QED BY <2>3, <2>6
<1> QED BY <1>1, <1>3, <1>4, <1>5 DEF Grown

LineTyped(l) == l.indent \in Nat /\ l.kind \in {"key", "comment", "junk"} /\ l.key \in STRING /\ l.value \in Int
LEMMA LineTypes == ASSUME NEW l \in ConfigLine PROVE LineTyped(l)
BY ConfigLoadAssumption DEF LineTyped

\* The next line is accepted exactly if it is in a section one level above it.
NextNested(l, g, n, d, s, P) ==
    /\ d \in Nat /\ l.indent = 2 * d
    /\ NestedIn(g, n + 1) <=> d <= Len(s)
    /\ d <= Len(s) => /\ ParentOf(g, n + 1) \in 0 .. n
                      /\ d = 0 => ParentOf(g, n + 1) = 0
                      /\ d > 0 => ParentOf(g, n + 1) # 0 /\ SubSeq(s, 1, d) = P[ParentOf(g, n + 1)]
LEMMA NextIsNested ==
    ASSUME NEW f \in Seq(ConfigLine), NEW l \in ConfigLine, NEW g, g = Append(f, l), NEW n, n = Len(f),
           NEW P, NEW s, s \in Seq(STRING), StackOf(f, P, s), l.indent % 2 = 0, l.kind = "key", NEW d, d = Depth(l)
    PROVE  NextNested(l, g, n, d, s, P)
<1>1. LineTyped(l)
  BY LineTypes
<1>2. d \in Nat /\ l.indent = 2 * d /\ l.indent \in Nat
  <2> DEFINE x == l.indent
  <2>1. x \in Nat /\ x % 2 = 0 /\ d = x \div 2
    BY <1>1 DEF LineTyped, Depth
  <2> HIDE DEF x
  <2>2. x = 2 * d /\ d \in Nat
    BY <2>1
  <2> QED BY <2>1, <2>2 DEF x
<1>3. /\ n \in Nat /\ g[n + 1] = l /\ \A i \in 1 .. n : g[i] = f[i]
      /\ Less(g, n + 1, l.indent) = Less(f, n + 1, 2 * d)
  <2>1. n \in Nat /\ n + 1 \in 1 .. n + 1
    OBVIOUS
  <2>0. Grown(f, l, g, n)
    BY LineAppended
  <2>2. /\ n \in Nat /\ g[n + 1] = l /\ \A i \in 1 .. n : g[i] = f[i]
        /\ \A i \in 1 .. n + 1 : \A ind : Less(g, i, ind) = Less(f, i, ind)
    BY <2>0 DEF Grown
  <2> QED BY <1>2, <2>1, <2>2
<1> DEFINE q == ParentOf(g, n + 1)
           S == Less(f, n + 1, 2 * d)
<1>4. q \in 0 .. n /\ (S # {} => LastIn(S, q)) /\ (S = {} => q = 0)
  <2> DEFINE m == n + 1
  <2>1. m \in Nat /\ m >= 1 /\ m - 1 = n
    BY <1>3
  <2> HIDE DEF m
  <2>2. /\ ParentOf(g, m) \in 0 .. m - 1
        /\ Less(g, m, g[m].indent) # {} => LastIn(Less(g, m, g[m].indent), ParentOf(g, m))
    BY <2>1, ParentIs
  <2>3. Less(g, m, g[m].indent) = {} => ParentOf(g, m) = 0
    BY DEF ParentOf
  <2>4. Less(g, m, g[m].indent) = S
    BY <1>3 DEF m
  <2> HIDE DEF S
  <2> QED BY <2>1, <2>2, <2>3, <2>4 DEF m
<1>5. S \subseteq 1 .. n /\ S \subseteq Nat /\ (d = 0 => S = {})
  <2>1. S \subseteq 1 .. n
    BY <1>3 DEF Less, KeyLinesOf
  <2>2. \A j \in 1 .. n : f[j].indent \in Nat
    BY <1>3, LineTypes DEF LineTyped
  <2>3. d = 0 => S = {}
    BY <1>3, <2>2 DEF Less, KeyLinesOf
  <2> QED BY <2>1, <2>3
<1> HIDE DEF q, S
<1>6. NestedIn(g, n + 1) <=> (d > 0 => q # 0 /\ g[q].value = NoValue /\ g[q].indent = l.indent - 2)
  <2> DEFINE m == n + 1
  <2>1. g[m] = l /\ (l.indent > 0 <=> d > 0) /\ l.kind # "junk" /\ l.kind = "key" /\ l.indent % 2 = 0
    BY <1>2, <1>3
  <2>2. q = ParentOf(g, m)
    BY DEF q
  <2> HIDE DEF m
  <2>3. NestedIn(g, m) <=> (d > 0 => q # 0 /\ g[q].value = NoValue /\ g[q].indent = l.indent - 2)
    BY <2>1, <2>2 DEF NestedIn
  <2> QED BY <2>3 DEF m
<1>7. \A j : SectionIs(f, d, j) <=> LastIn(S, j) /\ f[j].value = NoValue /\ f[j].indent = 2 * d - 2
  BY DEF SectionIs, S
<1>8. ASSUME d > 0 PROVE NestedIn(g, n + 1) <=> SectionIs(f, d, q)
  <2>1. q # 0 => g[q] = f[q]
    BY <1>3, <1>4
  <2>2. q # 0 <=> LastIn(S, q)
    BY <1>4, <1>5 DEF LastIn
  <2> QED BY <1>2, <1>6, <1>7, <1>8, <2>1, <2>2
<1>9. Len(s) \in Nat
  OBVIOUS
<1>10. ASSUME d > Len(s) PROVE ~NestedIn(g, n + 1)
  <2>1. d > 0 /\ ~SectionIs(f, d, q)
    BY <1>2, <1>9, <1>10 DEF StackOf
  <2> QED BY <1>8, <2>1
<1>11. ASSUME d <= Len(s), d > 0 PROVE NestedIn(g, n + 1) /\ q # 0 /\ SubSeq(s, 1, d) = P[q]
  <2>1. d \in 1 .. Len(s)
    BY <1>2, <1>9, <1>11
  <2>2. PICK j \in 1 .. Len(f) : SectionIs(f, d, j) /\ SubSeq(s, 1, d) = P[j]
    BY <2>1 DEF StackOf
  <2>3. LastIn(S, j)
    BY <1>7, <2>2
  <2>4. S # {}
    BY <2>3 DEF LastIn
  <2>5. j = q
    BY <1>4, <1>5, <2>3, <2>4, LastIsUnique
  <2> QED BY <1>8, <1>11, <2>2, <2>5
<1>12. d = 0 => NestedIn(g, n + 1) /\ q = 0
  BY <1>4, <1>5, <1>6
<1>13. NestedIn(g, n + 1) <=> d <= Len(s)
  BY <1>2, <1>9, <1>10, <1>11, <1>12
<1> QED BY <1>2, <1>4, <1>11, <1>12, <1>13 DEF q, NextNested

LEMMA Prefixes ==
    ASSUME NEW X, NEW s \in Seq(X), NEW d \in 0 .. Len(s), NEW k \in X, NEW t, t = SubSeq(s, 1, d)
    PROVE  /\ t \in Seq(X) /\ Len(t) = d /\ Append(t, k) \in Seq(X) /\ Len(Append(t, k)) = d + 1
           /\ \A e \in 1 .. d : SubSeq(t, 1, e) = SubSeq(s, 1, e) /\ SubSeq(Append(t, k), 1, e) = SubSeq(s, 1, e)
           /\ SubSeq(Append(t, k), 1, d + 1) = Append(t, k)
<1>1. t \in Seq(X) /\ Len(t) = d /\ \A i \in 1 .. d : t[i] = s[i]
  OBVIOUS
<1> DEFINE u == Append(t, k)
<1>0. d \in Nat
  OBVIOUS
<1>2. u \in Seq(X) /\ Len(u) = d + 1 /\ \A i \in 1 .. d : u[i] = s[i]
  <2>1. u \in Seq(X) /\ Len(u) = d + 1
    BY <1>0, <1>1
  <2>2. \A i \in 1 .. d : u[i] = t[i]
    BY <1>0, <1>1
  <2> QED BY <1>1, <2>1, <2>2
<1> HIDE DEF u
<1>3. ASSUME NEW e \in 1 .. d PROVE SubSeq(t, 1, e) = SubSeq(s, 1, e) /\ SubSeq(u, 1, e) = SubSeq(s, 1, e)
  <2>1. /\ SubSeq(t, 1, e) = [i \in 1 .. e |-> t[i]]
        /\ SubSeq(s, 1, e) = [i \in 1 .. e |-> s[i]]
        /\ SubSeq(u, 1, e) = [i \in 1 .. e |-> u[i]]
    BY <1>1, <1>2
  <2>2. \A i \in 1 .. e : t[i] = s[i] /\ u[i] = s[i]
    BY <1>1, <1>2
  <2> QED BY <2>1, <2>2
<1>4. SubSeq(u, 1, d + 1) = u
  BY <1>2
<1> QED BY <1>1, <1>2, <1>3, <1>4 DEF u

\* The sections once a key line d levels down has been read.
SectionsMoved(f, l, g, n, d) ==
    /\ \A e \in Nat : \A j : e <= d => (SectionIs(g, e, j) <=> SectionIs(f, e, j))
    /\ \A e \in Nat : \A j : e > d => (SectionIs(g, e, j) <=> j = n + 1 /\ l.value = NoValue /\ e = d + 1)
LEMMA SectionsAfter ==
    ASSUME NEW f \in Seq(ConfigLine), NEW l \in ConfigLine, NEW g, NEW n, n = Len(f), Grown(f, l, g, n),
           NEW d \in Nat, l.indent = 2 * d, l.kind = "key"
    PROVE  SectionsMoved(f, l, g, n, d)
<1>1. /\ n \in Nat /\ Len(g) = n + 1 /\ g[n + 1] = l /\ \A i \in 1 .. n : g[i] = f[i]
      /\ \A ind : Less(g, n + 2, ind) = Less(f, n + 1, ind)
                    \cup IF l.kind = "key" /\ l.indent < ind THEN {n + 1} ELSE {}
  BY DEF Grown
<1>2. \A ind : Less(f, n + 1, ind) \subseteq 1 .. n
  BY <1>1 DEF Less, KeyLinesOf
<1>3. Len(g) + 1 = n + 2
  BY <1>1
<1>4. ASSUME NEW e \in Nat, NEW j, e <= d PROVE SectionIs(g, e, j) <=> SectionIs(f, e, j)
  <2>1. ~(l.indent < 2 * e)
    BY <1>4
  <2>2. Less(g, n + 2, 2 * e) = Less(f, n + 1, 2 * e)
    BY <1>1, <2>1
  <2>3. LastIn(Less(f, n + 1, 2 * e), j) => g[j] = f[j]
    BY <1>1, <1>2 DEF LastIn
  <2> QED BY <1>3, <2>2, <2>3 DEF SectionIs
<1>5. ASSUME NEW e \in Nat, NEW j, e > d PROVE SectionIs(g, e, j) <=> j = n + 1 /\ l.value = NoValue /\ e = d + 1
  <2>1. l.indent < 2 * e /\ (2 * d = 2 * e - 2 <=> e = d + 1)
    BY <1>5
  <2>2. Less(g, n + 2, 2 * e) = Less(f, n + 1, 2 * e) \cup {n + 1}
    BY <1>1, <2>1
  <2>3. LastIn(Less(g, n + 2, 2 * e), j) <=> j = n + 1
    <3> DEFINE S == Less(f, n + 1, 2 * e)
    <3>1. \A k \in S : k \in Nat /\ k <= n + 1 /\ ~(n + 1 <= k)
      BY <1>1, <1>2
    <3> HIDE DEF S
    <3>2. n + 1 <= n + 1
      BY <1>1
    <3> QED BY <2>2, <3>1, <3>2 DEF LastIn, S
  <2> QED BY <1>1, <1>3, <2>1, <2>3 DEF SectionIs
<1> QED BY <1>4, <1>5 DEF SectionsMoved

\* The stack after a section line, and after a value.
StackMoved(l, g, n, Q, t) ==
    /\ l.value # NoValue => StackOf(g, Q, t)
    /\ l.value = NoValue /\ Q[n + 1] = Append(t, l.key) => StackOf(g, Q, Append(t, l.key))
LEMMA StackAfter ==
    ASSUME NEW f \in Seq(ConfigLine), NEW l \in ConfigLine, NEW g, NEW n, n = Len(f), Grown(f, l, g, n),
           NEW P, NEW Q, \A i \in 0 .. n : Q[i] = P[i],
           NEW s \in Seq(STRING), StackOf(f, P, s), NEW d \in 0 .. Len(s), l.indent = 2 * d, l.kind = "key",
           NEW t, t = SubSeq(s, 1, d)
    PROVE  StackMoved(l, g, n, Q, t)
<1>1. l.key \in STRING
  BY LineTypes DEF LineTyped
<1>2. /\ t \in Seq(STRING) /\ Len(t) = d /\ Append(t, l.key) \in Seq(STRING) /\ Len(Append(t, l.key)) = d + 1
      /\ \A e \in 1 .. d : SubSeq(t, 1, e) = SubSeq(s, 1, e) /\ SubSeq(Append(t, l.key), 1, e) = SubSeq(s, 1, e)
      /\ SubSeq(Append(t, l.key), 1, d + 1) = Append(t, l.key)
  BY <1>1, Prefixes
<1> DEFINE u == Append(t, l.key)
<1> HIDE DEF u
<1>3. d \in Nat /\ n \in Nat /\ Len(g) = n + 1
  BY DEF Grown
<1>4. /\ \A e \in Nat : \A j : e <= d => (SectionIs(g, e, j) <=> SectionIs(f, e, j))
      /\ \A e \in Nat : \A j : e > d => (SectionIs(g, e, j) <=> j = n + 1 /\ l.value = NoValue /\ e = d + 1)
  <2>1. SectionsMoved(f, l, g, n, d)
    BY <1>3, SectionsAfter
  <2> QED BY <2>1 DEF SectionsMoved
<1>5. ASSUME NEW e \in 1 .. d PROVE \E j \in 1 .. Len(g) : SectionIs(g, e, j) /\ SubSeq(s, 1, e) = Q[j]
  <2>0. e \in 1 .. Len(s)
    BY <1>3
  <2>1. PICK j \in 1 .. Len(f) : SectionIs(f, e, j) /\ SubSeq(s, 1, e) = P[j]
    BY <2>0 DEF StackOf
  <2>2. j \in 0 .. n /\ j \in 1 .. Len(g) /\ e \in Nat /\ e <= d
    BY <1>3
  <2> QED BY <1>4, <2>1, <2>2
<1>6. ASSUME l.value # NoValue PROVE StackOf(g, Q, t)
  <2>1. \A e \in 1 .. Len(t) : \E j \in 1 .. Len(g) : SectionIs(g, e, j) /\ SubSeq(t, 1, e) = Q[j]
    BY <1>2, <1>5
  <2>2. \A e \in Nat : e > Len(t) => \A j : ~SectionIs(g, e, j)
    BY <1>2, <1>4, <1>6
  <2> QED BY <2>1, <2>2 DEF StackOf
<1>7. ASSUME l.value = NoValue, Q[n + 1] = u PROVE StackOf(g, Q, u)
  <2>1. ASSUME NEW e \in 1 .. Len(u) PROVE \E j \in 1 .. Len(g) : SectionIs(g, e, j) /\ SubSeq(u, 1, e) = Q[j]
    <3>1. CASE e \in 1 .. d
      BY <1>2, <1>5, <3>1 DEF u
    <3>2. CASE e = d + 1
      <4>1. SectionIs(g, e, n + 1) /\ n + 1 \in 1 .. Len(g)
        BY <1>3, <1>4, <1>7, <3>2
      <4>2. SubSeq(u, 1, e) = Q[n + 1]
        BY <1>2, <1>7, <3>2 DEF u
      <4> QED BY <4>1, <4>2
    <3>3. Len(u) = d + 1
      BY <1>2 DEF u
    <3>4. e \in 1 .. d \/ e = d + 1
      BY <1>3, <3>3
    <3> QED BY <3>1, <3>2, <3>4
  <2>2. \A e \in Nat : e > Len(u) => \A j : ~SectionIs(g, e, j)
    BY <1>2, <1>3, <1>4 DEF u
  <2> QED BY <2>1, <2>2 DEF StackOf
<1> QED BY <1>6, <1>7 DEF u, StackMoved

\* Which lines give a value, and which values a path has, after a line more.
FlatMoved(l, g, n, Q, t) ==
    /\ l.kind # "key" \/ l.value = NoValue \/ ~NestedIn(g, n + 1) => FlatOf(g, Q, t)
    /\ l.kind = "key" /\ l.value # NoValue /\ NestedIn(g, n + 1) =>
         FlatOf(g, Q, [q \in DOMAIN t \cup {Q[n + 1]} |-> IF q = Q[n + 1] THEN l.value ELSE t[q]])
LEMMA FlatAfter ==
    ASSUME NEW f \in Seq(ConfigLine), NEW l \in ConfigLine, NEW g, NEW n, n = Len(f), Grown(f, l, g, n),
           NEW P, NEW Q, \A i \in 0 .. n : Q[i] = P[i], NEW t, FlatOf(f, P, t)
    PROVE  FlatMoved(l, g, n, Q, t)
<1>1. /\ n \in Nat /\ Len(g) = n + 1 /\ g[n + 1] = l /\ \A i \in 1 .. n : g[i] = f[i]
      /\ \A i \in 1 .. n : NestedIn(g, i) <=> NestedIn(f, i)
  BY DEF Grown
<1>2. \A i : i \in GivenIn(g) <=> \/ i \in GivenIn(f)
                                  \/ i = n + 1 /\ l.kind = "key" /\ l.value # NoValue /\ NestedIn(g, n + 1)
  <2>1. \A i : i \in 1 .. n + 1 <=> i \in 1 .. n \/ i = n + 1
    BY <1>1
  <2> QED BY <1>1, <2>1 DEF GivenIn, KeyLinesOf
<1>3. GivenIn(f) \subseteq 1 .. n
  BY DEF GivenIn, KeyLinesOf
<1>4. \A i \in GivenIn(f) : Q[i] = P[i] /\ g[i] = f[i] /\ i \in Nat /\ i <= n + 1 /\ i # n + 1 /\ ~(n + 1 <= i)
  BY <1>1, <1>3
<1>5. CASE l.kind # "key" \/ l.value = NoValue \/ ~NestedIn(g, n + 1)
  <2>1. GivenIn(g) = GivenIn(f)
    BY <1>2, <1>5
  <2>2. FlatOf(g, Q, t)
    <3>1. /\ DOMAIN t = {P[i] : i \in GivenIn(f)}
          /\ \A i \in GivenIn(f) : (\A j \in GivenIn(f) : P[j] = P[i] => j <= i) => t[P[i]] = f[i].value
      BY DEF FlatOf
    <3>2. \A i \in GivenIn(f) : Q[i] = P[i] /\ g[i] = f[i]
      BY <1>4
    <3>3. DOMAIN t = {Q[i] : i \in GivenIn(g)}
      BY <2>1, <3>1, <3>2
    <3>4. ASSUME NEW i \in GivenIn(g), \A j \in GivenIn(g) : Q[j] = Q[i] => j <= i
          PROVE  t[Q[i]] = g[i].value
      <4>1. \A j \in GivenIn(f) : P[j] = P[i] => j <= i
        BY <2>1, <3>2, <3>4
      <4> QED BY <2>1, <3>1, <3>2, <4>1
    <3> QED BY <3>3, <3>4 DEF FlatOf
  <2> QED BY <1>5, <2>2 DEF FlatMoved
<1>6. CASE l.kind = "key" /\ l.value # NoValue /\ NestedIn(g, n + 1)
  <2> DEFINE p == Q[n + 1]
             u == [q \in DOMAIN t \cup {p} |-> IF q = p THEN l.value ELSE t[q]]
  <2> HIDE DEF p
  <2>1. GivenIn(g) = GivenIn(f) \cup {n + 1}
    BY <1>2, <1>6
  <2>2. DOMAIN u = DOMAIN t \cup {p} /\ u[p] = l.value /\ \A q \in DOMAIN t : q # p => u[q] = t[q]
    OBVIOUS
  <2> HIDE DEF u
  <2>3. DOMAIN u = {Q[i] : i \in GivenIn(g)}
    <3>1. DOMAIN t = {Q[i] : i \in GivenIn(f)}
      BY <1>4 DEF FlatOf
    <3> QED BY <2>1, <2>2, <3>1 DEF p
  <2>4. ASSUME NEW i \in GivenIn(g), \A j \in GivenIn(g) : Q[j] = Q[i] => j <= i PROVE u[Q[i]] = g[i].value
    <3>1. CASE i = n + 1
      BY <1>1, <2>2, <3>1 DEF p
    <3>2. CASE i # n + 1
      <4>1. i \in GivenIn(f)
        BY <2>1, <3>2
      <4>2. Q[i] # p
        BY <1>4, <2>1, <2>4, <4>1 DEF p
      <4>3. \A j \in GivenIn(f) : P[j] = P[i] => j <= i
        BY <1>4, <2>1, <2>4, <4>1
      <4>4. t[P[i]] = f[i].value /\ P[i] \in DOMAIN t
        BY <4>1, <4>3 DEF FlatOf
      <4> QED BY <1>4, <2>2, <4>1, <4>2, <4>4
    <3> QED BY <3>1, <3>2
  <2>5. FlatOf(g, Q, u)
    BY <2>3, <2>4 DEF FlatOf
  <2> QED BY <1>6, <2>5 DEF u, p, FlatMoved
<1> QED BY <1>5, <1>6

\* What a line more leaves of the paths, and the path it has itself.
LineRead(l, n) ==
    /\ n = Len(file) /\ n \in Nat /\ file' \in Seq(ConfigLine) /\ Len(file') = n + 1 /\ n + 1 <= MaxConfigLines
    /\ Grown(file, l, file', n)
    /\ \A i \in 0 .. n : PathTo'[i] = PathTo[i]
    /\ PathTo'[0] = <<>>
    /\ PathTo'[n + 1] = Append(PathTo'[ParentOf(file', n + 1)], l.key)
LEMMA LineIsRead ==
    ASSUME ParseTypes, NEW l \in ConfigLine, Parsing(l), NEW n, n = Len(file)
    PROVE  LineRead(l, n)
<1>1. /\ file \in Seq(ConfigLine) /\ file' = Append(file, l) /\ Len(file) < MaxConfigLines /\ MaxConfigLines \in Nat
  BY ConfigLoadAssumption DEF ParseTypes, Parsing
<1>2. Grown(file, l, file', n)
  BY <1>1, LineAppended
<1>3. n \in Nat /\ Len(file') = n + 1 /\ n + 1 <= MaxConfigLines /\ file' \in Seq(ConfigLine) /\ file'[n + 1] = l
  BY <1>1, <1>2 DEF Grown
<1>4. IsPaths(file, PathTo, MaxConfigLines)
  BY PathToIs
<1>5. IsPaths(file', PathTo', MaxConfigLines)
  <2>1. IsPaths(file, PathTo, MaxConfigLines)'
    BY PathToIs, PTL
  <2> QED BY <2>1
<1>6. IsPaths(file, PathTo, n) /\ IsPaths(file', PathTo', n)
  <2>1. \A i \in 1 .. n : i \in 1 .. MaxConfigLines
    BY <1>1, <1>3
  <2> QED BY <1>4, <1>5, <2>1 DEF IsPaths
<1>7. \A i \in 1 .. n : ParentOf(file, i) = ParentOf(file', i) /\ file[i].key = file'[i].key
  BY <1>2 DEF Grown
<1>8. \A i \in 0 .. n : PathTo[i] = PathTo'[i]
  <2> DEFINE P == PathTo
             Q == PathTo'
             f == file
             g == file'
  <2>1. IsPaths(f, P, n) /\ IsPaths(g, Q, n) /\ \A i \in 1 .. n : ParentOf(f, i) = ParentOf(g, i) /\ f[i].key = g[i].key
    BY <1>6, <1>7
  <2> HIDE DEF P, Q, f, g
  <2>2. SamePaths(P, Q, n)
    BY <1>3, <2>1, PathsAgree
  <2> QED BY <2>2 DEF P, Q, SamePaths
<1>9. PathTo'[0] = <<>> /\ PathTo'[n + 1] = Append(PathTo'[ParentOf(file', n + 1)], l.key)
  <2>1. n + 1 \in 1 .. MaxConfigLines
    BY <1>1, <1>3
  <2> QED BY <1>3, <1>5, <2>1 DEF IsPaths
<1> QED BY <1>2, <1>3, <1>8, <1>9 DEF LineRead

LEMMA ParseInitOk == ASSUME ConfigLoadInit PROVE ParseInv
<1>1. file = <<>> /\ pathStack = <<>> /\ flat = [p \in {} |-> NoValue] /\ config = Default /\ loading = "parse" /\ refused = FALSE
  BY DEF ConfigLoadInit
<1>2. Len(file) = 0 /\ Len(pathStack) = 0 /\ DOMAIN flat = {} /\ 1 .. Len(file) = {} /\ 1 .. Len(pathStack) = {}
  BY <1>1
<1>3. ParseTypes
  <2>1. file \in Seq(ConfigLine) /\ pathStack \in Seq(STRING)
    <3>1. \A S : <<>> \in Seq(S)
      OBVIOUS
    <3> QED BY <1>1, <3>1
  <2>2. MaxConfigLines \in Nat
    BY ConfigLoadAssumption
  <2>3. Len(file) <= MaxConfigLines
    BY <1>2, <2>2
  <2>4. loading \in {"parse", "env", "loaded"} /\ (refused => loading # "parse") /\ refused \in BOOLEAN
    BY <1>1
  <2> QED BY <2>1, <2>3, <2>4 DEF ParseTypes
<1>4. FileAllOrNothing
  BY <1>1 DEF FileAllOrNothing
<1>5. StackOf(file, PathTo, pathStack)
  <2>1. \A e : Less(file, Len(file) + 1, e) = {}
    BY <1>2 DEF Less, KeyLinesOf
  <2>2. \A e, j : ~SectionIs(file, e, j)
    BY <2>1 DEF SectionIs, LastIn
  <2> QED BY <1>2, <2>2 DEF StackOf
<1>6. FlatOf(file, PathTo, flat)
  <2>1. GivenIn(file) = {}
    BY <1>2 DEF GivenIn, KeyLinesOf
  <2> QED BY <1>2, <2>1 DEF FlatOf
<1> QED BY <1>1, <1>2, <1>3, <1>4, <1>5, <1>6 DEF ParseInv

\* A line that is read: which of the file are well nested, and what it gives.
LEMMA NestedAfter ==
    ASSUME NEW l, NEW n, LineRead(l, n), refused <=> \E i \in 1 .. Len(file) : ~NestedIn(file, i)
    PROVE  (\E i \in 1 .. Len(file') : ~NestedIn(file', i)) <=> refused \/ ~NestedIn(file', n + 1)
<1>1. n = Len(file) /\ n \in Nat /\ Len(file') = n + 1
  BY DEF LineRead
<1>2. \A i \in 1 .. n : NestedIn(file', i) <=> NestedIn(file, i)
  BY DEF LineRead, Grown
<1>3. \A i : i \in 1 .. n + 1 <=> i \in 1 .. n \/ i = n + 1
  BY <1>1
<1> HIDE DEF NestedIn
<1> QED BY <1>1, <1>2, <1>3

LEMMA FlatRead ==
    ASSUME ParseInv, NEW l \in ConfigLine, NEW n, LineRead(l, n)
    PROVE  FlatMoved(l, file', n, PathTo', flat)
<1> DEFINE P == PathTo
           Q == PathTo'
           f == file
           g == file'
           t == flat
<1>1. f \in Seq(ConfigLine) /\ n = Len(f) /\ Grown(f, l, g, n) /\ (\A i \in 0 .. n : Q[i] = P[i]) /\ FlatOf(f, P, t)
  BY DEF ParseInv, ParseTypes, LineRead
<1> HIDE DEF P, Q, f, g, t
<1>2. FlatMoved(l, g, n, Q, t)
  BY <1>1, FlatAfter
<1> QED BY <1>2 DEF Q, g, t

\* A key line at depth d: whether it is accepted, its path and the stack after it.
KeyRead(l, n) ==
    /\ NestedIn(file', n + 1) <=> Depth(l) <= Len(pathStack)
    /\ Depth(l) <= Len(pathStack) =>
         /\ PathTo'[n + 1] = Append(Enclosing(l), l.key)
         /\ l.value # NoValue => StackOf(file', PathTo', Enclosing(l))
         /\ l.value = NoValue => StackOf(file', PathTo', Append(Enclosing(l), l.key))
LEMMA KeyIsRead ==
    ASSUME ParseInv, NEW l \in ConfigLine, NEW n, LineRead(l, n), loading = "parse", file' = Append(file, l),
           l.indent % 2 = 0, l.kind = "key"
    PROVE  KeyRead(l, n)
<1> DEFINE P == PathTo
           Q == PathTo'
           f == file
           g == file'
           s == pathStack
           d == Depth(l)
           t == SubSeq(s, 1, d)
<1>1. /\ f \in Seq(ConfigLine) /\ n = Len(f) /\ n \in Nat /\ Grown(f, l, g, n) /\ (\A i \in 0 .. n : Q[i] = P[i])
      /\ StackOf(f, P, s) /\ s \in Seq(STRING) /\ g = Append(f, l)
      /\ Q[0] = <<>> /\ Q[n + 1] = Append(Q[ParentOf(g, n + 1)], l.key)
  BY DEF ParseInv, ParseTypes, LineRead
<1>2. Enclosing(l) = t
  BY DEF Enclosing
<1> HIDE DEF P, Q, f, g, s
<1>3. /\ d \in Nat /\ l.indent = 2 * d
      /\ NestedIn(g, n + 1) <=> d <= Len(s)
      /\ d <= Len(s) => /\ ParentOf(g, n + 1) \in 0 .. n
                        /\ d = 0 => ParentOf(g, n + 1) = 0
                        /\ d > 0 => ParentOf(g, n + 1) # 0 /\ SubSeq(s, 1, d) = P[ParentOf(g, n + 1)]
  <2> HIDE DEF d
  <2>1. d = Depth(l)
    BY DEF d
  <2>2. NextNested(l, g, n, d, s, P)
    BY <1>1, <2>1, NextIsNested
  <2> QED BY <2>2 DEF NextNested
<1> HIDE DEF d
<1>4. ASSUME d <= Len(s)
      PROVE  /\ Q[n + 1] = Append(t, l.key)
             /\ l.value # NoValue => StackOf(g, Q, t)
             /\ l.value = NoValue => StackOf(g, Q, Append(t, l.key))
  <2>1. d \in 0 .. Len(s)
    BY <1>1, <1>3, <1>4
  <2>2. Q[ParentOf(g, n + 1)] = t
    <3>1. CASE d = 0
      <4>1. t = <<>>
        BY <3>1
      <4> QED BY <1>1, <1>3, <1>4, <3>1, <4>1
    <3>2. CASE d > 0
      BY <1>1, <1>3, <1>4, <3>2
    <3> QED BY <1>3, <3>1, <3>2
  <2> HIDE DEF t
  <2>3. Q[n + 1] = Append(t, l.key)
    BY <1>1, <2>2
  <2>4. t = SubSeq(s, 1, d)
    BY DEF t
  <2>5. StackMoved(l, g, n, Q, t)
    BY <1>1, <1>3, <2>1, <2>4, StackAfter
  <2> QED BY <2>3, <2>5 DEF StackMoved
<1> HIDE DEF t
<1>5. /\ NestedIn(file', n + 1) <=> Depth(l) <= Len(pathStack)
      /\ Depth(l) <= Len(pathStack) =>
           /\ PathTo'[n + 1] = Append(t, l.key)
           /\ l.value # NoValue => StackOf(file', PathTo', t)
           /\ l.value = NoValue => StackOf(file', PathTo', Append(t, l.key))
  BY <1>3, <1>4 DEF P, Q, g, s, d
<1> QED BY <1>2, <1>5 DEF KeyRead

\* A comment leaves the sections as they are.
LEMMA StackKept ==
    ASSUME ParseInv, NEW l, NEW n, LineRead(l, n), loading = "parse", l.kind = "comment", pathStack' = pathStack
    PROVE  StackOf(file', PathTo', pathStack')
<1>1. /\ n = Len(file) /\ n \in Nat /\ Len(file') = n + 1 /\ (\A i \in 0 .. n : PathTo'[i] = PathTo[i])
      /\ (\A i \in 1 .. n : file'[i] = file[i]) /\ \A ind : Less(file', n + 2, ind) = Less(file, n + 1, ind)
  BY DEF LineRead, Grown
<1>2. \A e, j : SectionIs(file', e, j) <=> SectionIs(file, e, j)
  <2> SUFFICES ASSUME NEW e, NEW j PROVE SectionIs(file', e, j) <=> SectionIs(file, e, j)
    OBVIOUS
  <2>1. Len(file') + 1 = n + 2 /\ Less(file', n + 2, 2 * e) = Less(file, n + 1, 2 * e)
    BY <1>1
  <2>2. LastIn(Less(file, n + 1, 2 * e), j) => file'[j] = file[j]
    BY <1>1 DEF LastIn, Less, KeyLinesOf
  <2> QED BY <1>1, <2>1, <2>2 DEF SectionIs
<1>3. StackOf(file, PathTo, pathStack)
  BY DEF ParseInv
<1>4. ASSUME NEW e \in 1 .. Len(pathStack)
      PROVE  \E j \in 1 .. Len(file') : SectionIs(file', e, j) /\ SubSeq(pathStack, 1, e) = PathTo'[j]
  <2>1. PICK j \in 1 .. Len(file) : SectionIs(file, e, j) /\ SubSeq(pathStack, 1, e) = PathTo[j]
    BY <1>3 DEF StackOf
  <2>2. j \in 0 .. n /\ j \in 1 .. Len(file')
    BY <1>1
  <2> QED BY <1>1, <1>2, <2>1, <2>2
<1> QED BY <1>2, <1>3, <1>4 DEF StackOf

\* The steps.  What a line leaves alone of the settings.
LEMMA TypesAfter ==
    ASSUME ParseTypes, NEW l, NEW n, LineRead(l, n), pathStack' \in Seq(STRING),
           loading' \in {"parse", "env"}, refused' \in BOOLEAN, refused' => loading' # "parse"
    PROVE  ParseTypes'
<1>1. file' \in Seq(ConfigLine) /\ Len(file') <= MaxConfigLines
  BY DEF LineRead
<1> QED BY <1>1 DEF ParseTypes

LEMMA ReadLine ==
    ASSUME ParseInv, NEW l \in ConfigLine, RefuseFile(l) \/ SkipComment(l) \/ ParseSection(l) \/ ParseValue(l)
    PROVE  ParseInv'
<1> DEFINE n == Len(file)
<1>1. ParseTypes /\ Parsing(l) /\ loading = "parse" /\ file' = Append(file, l)
  BY DEF ParseInv, RefuseFile, SkipComment, ParseSection, ParseValue, Parsing
<1>2. LineRead(l, n)
  BY <1>1, LineIsRead
<1> HIDE DEF n
<1>3. ~refused /\ (refused <=> \E i \in 1 .. Len(file) : ~NestedIn(file, i))
  BY <1>1 DEF ParseInv, ParseTypes
<1>4. (\E i \in 1 .. Len(file') : ~NestedIn(file', i)) <=> refused \/ ~NestedIn(file', n + 1)
  BY <1>2, <1>3, NestedAfter
<1>5. FlatMoved(l, file', n, PathTo', flat)
  BY <1>2, FlatRead
<1>6. LineTyped(l) /\ file'[n + 1] = l
  BY <1>2, LineTypes DEF LineRead, Grown
<1>7. l.indent % 2 = 0 /\ l.kind = "key" => KeyRead(l, n)
  BY <1>1, <1>2, KeyIsRead
<1>8. ~BadLine(l) /\ l.kind # "key" => NestedIn(file', n + 1)
  BY <1>6 DEF NestedIn, BadLine
<1>9. l.indent % 2 # 0 \/ l.kind = "junk" => ~NestedIn(file', n + 1)
  BY <1>6 DEF NestedIn
<1>10. Depth(l) \in Nat /\ Len(pathStack) \in Nat /\ pathStack \in Seq(STRING)
  <2>1. Len(pathStack) \in Nat /\ pathStack \in Seq(STRING)
    BY <1>1 DEF ParseTypes
  <2> DEFINE x == l.indent
  <2>2. x \in Nat /\ Depth(l) = x \div 2
    BY <1>6 DEF LineTyped, Depth
  <2> HIDE DEF x
  <2>3. Depth(l) \in Nat
    BY <2>2
  <2> QED BY <2>1, <2>3
<1>11. NestedIn(file', n + 1) <=> ~BadLine(l)
  <2>1. CASE l.indent % 2 # 0 \/ l.kind = "junk"
    BY <1>9, <2>1 DEF BadLine
  <2>2. CASE l.indent % 2 = 0 /\ l.kind = "comment"
    BY <1>8, <2>2 DEF BadLine
  <2>3. CASE l.indent % 2 = 0 /\ l.kind = "key"
    BY <1>7, <1>10, <2>3 DEF BadLine, KeyRead
  <2> QED BY <1>6, <2>1, <2>2, <2>3 DEF LineTyped
<1>12. ~BadLine(l) /\ l.kind = "key" =>
         /\ PathTo'[n + 1] = Append(Enclosing(l), l.key)
         /\ l.value # NoValue => StackOf(file', PathTo', Enclosing(l))
         /\ l.value = NoValue => StackOf(file', PathTo', Append(Enclosing(l), l.key))
  BY <1>7, <1>10 DEF BadLine, KeyRead
<1>13. ~BadLine(l) /\ l.kind = "key" => Enclosing(l) \in Seq(STRING) /\ Append(Enclosing(l), l.key) \in Seq(STRING)
  <2> SUFFICES ASSUME ~BadLine(l), l.kind = "key"
               PROVE  Enclosing(l) \in Seq(STRING) /\ Append(Enclosing(l), l.key) \in Seq(STRING)
    OBVIOUS
  <2>1. Depth(l) \in 0 .. Len(pathStack)
    BY <1>10 DEF BadLine
  <2>2. l.key \in STRING
    BY <1>6 DEF LineTyped
  <2> DEFINE k == l.key
             d == Depth(l)
             t == SubSeq(pathStack, 1, d)
  <2> HIDE DEF k, d
  <2>3. t \in Seq(STRING) /\ Append(t, k) \in Seq(STRING)
    BY <1>10, <2>1, <2>2, Prefixes DEF k, d
  <2> QED BY <2>3 DEF Enclosing, k, d
<1>14. CASE RefuseFile(l)
  <2>1. BadLine(l) /\ refused' /\ refused' = TRUE /\ loading' = "env" /\ pathStack' = pathStack /\ flat' = flat /\ config' = config
    BY <1>14 DEF RefuseFile
  <2>2. ParseTypes'
    BY <1>1, <1>2, <1>10, <2>1, TypesAfter
  <2>3. FlatOf(file', PathTo', flat')
    BY <1>5, <1>11, <2>1 DEF FlatMoved
  <2>4. config' = Default
    BY <1>1, <2>1 DEF ParseInv
  <2>5. refused' <=> \E i \in 1 .. Len(file') : ~NestedIn(file', i)
    BY <1>4, <1>11, <2>1
  <2> QED BY <2>1, <2>2, <2>3, <2>4, <2>5 DEF ParseInv, FileAllOrNothing
<1>15. ASSUME ~BadLine(l), loading' = loading, refused' = refused, config' = config, pathStack' \in Seq(STRING),
              StackOf(file', PathTo', pathStack'), FlatOf(file', PathTo', flat')
       PROVE  ParseInv'
  <2>1. loading' = "parse" /\ ~refused' /\ refused' \in BOOLEAN
    BY <1>1, <1>3, <1>15 DEF ParseTypes
  <2>2. ParseTypes'
    BY <1>1, <1>2, <1>15, <2>1, TypesAfter
  <2>3. refused' <=> \E i \in 1 .. Len(file') : ~NestedIn(file', i)
    BY <1>3, <1>4, <1>11, <1>15
  <2>4. config' = Default
    BY <1>1, <1>15 DEF ParseInv
  <2> QED BY <1>15, <2>1, <2>2, <2>3, <2>4 DEF ParseInv, FileAllOrNothing
<1>16. CASE SkipComment(l)
  <2>1. ~BadLine(l) /\ l.kind = "comment" /\ UNCHANGED <<pathStack, flat, config, loading, refused>>
    BY <1>16 DEF SkipComment
  <2>2. FlatOf(file', PathTo', flat')
    BY <1>5, <2>1 DEF FlatMoved
  <2>3. StackOf(file', PathTo', pathStack')
    BY <1>1, <1>2, <2>1, StackKept
  <2> QED BY <1>10, <1>15, <2>1, <2>2, <2>3
<1>17. CASE ParseSection(l)
  <2>1. /\ ~BadLine(l) /\ l.kind = "key" /\ l.value = NoValue /\ UNCHANGED <<flat, config, loading, refused>>
        /\ pathStack' = Append(Enclosing(l), l.key)
    BY <1>17 DEF ParseSection
  <2>2. FlatOf(file', PathTo', flat')
    BY <1>5, <2>1 DEF FlatMoved
  <2> QED BY <1>12, <1>13, <1>15, <2>1, <2>2
<1>18. CASE ParseValue(l)
  <2> DEFINE p == PathTo'[n + 1]
  <2>1. /\ ~BadLine(l) /\ l.kind = "key" /\ l.value # NoValue /\ UNCHANGED <<config, loading, refused>>
        /\ pathStack' = Enclosing(l)
    BY <1>18 DEF ParseValue
  <2>2. p = Append(Enclosing(l), l.key)
    BY <1>12, <2>1
  <2>3. flat' = [q \in DOMAIN flat \cup {p} |-> IF q = p THEN l.value ELSE flat[q]]
    BY <1>18, <2>2 DEF ParseValue
  <2>4. FlatOf(file', PathTo', [q \in DOMAIN flat \cup {p} |-> IF q = p THEN l.value ELSE flat[q]])
    BY <1>5, <1>11, <2>1 DEF FlatMoved
  <2>5. FlatOf(file', PathTo', flat')
    BY <2>3, <2>4
  <2> QED BY <1>12, <1>13, <1>15, <2>1, <2>5
<1> QED BY <1>14, <1>16, <1>17, <1>18

\* A file of which no line is left to read.
LEMMA SameFile ==
    ASSUME ParseInv, UNCHANGED <<file, flat, refused>>, ParseTypes', FileAllOrNothing',
           loading' \in {"env", "loaded"}, loading' = "env" /\ refused' => config' = Default
    PROVE  ParseInv'
<1>1. PathTo' = PathTo
  BY DEF PathTo, Parent, KeyLines
<1> QED BY <1>1 DEF ParseInv, StackOf, FlatOf

LEMMA SettingsApplied == ASSUME ParseInv, ApplyFile \/ ApplyEnv PROVE ParseInv'
<1>1. CASE ApplyFile
  <2>1. loading = "parse" /\ loading' = "env" /\ UNCHANGED <<file, pathStack, flat, refused>>
    BY <1>1 DEF ApplyFile
  <2>2. ~refused /\ ParseTypes'
    BY <2>1 DEF ParseInv, ParseTypes
  <2> QED BY <2>1, <2>2, SameFile DEF FileAllOrNothing
<1>2. CASE ApplyEnv
  <2>1. /\ loading = "env" /\ loading' = "loaded" /\ UNCHANGED <<file, pathStack, flat, refused>>
        /\ config' = [s \in ConfigSetting |-> FromEnv(s.env, environ'[s], config[s], Default[s])]
    BY <1>2 DEF ApplyEnv
  <2>2. ParseTypes'
    BY <2>1 DEF ParseInv, ParseTypes
  <2>3. refused => config = Default
    BY <2>1 DEF ParseInv
  <2>4. FileAllOrNothing'
    <3> SUFFICES ASSUME refused', NEW s \in ConfigSetting
                 PROVE  config'[s] = FromEnv(s.env, environ'[s], Default[s], Default[s])
      BY DEF FileAllOrNothing
    <3>1. config = Default
      BY <2>1, <2>3
    <3>2. config'[s] = FromEnv(s.env, environ'[s], config[s], Default[s])
      BY <2>1
    <3> QED BY <3>1, <3>2
  <2> QED BY <2>1, <2>2, <2>4, SameFile
<1> QED BY <1>1, <1>2

LEMMA ParseGivesSound == ASSUME ParseInv PROVE FileSound
<1>1. \A i : Parent(i) = ParentOf(file, i)
  BY DEF Parent, ParentOf, KeyLines, KeyLinesOf, Less
<1>2. \A i : WellNested(i) <=> NestedIn(file, i)
  BY <1>1 DEF WellNested, NestedIn
<1>3. {i \in KeyLines(Len(file)) : file[i].value # NoValue /\ WellNested(i)} = GivenIn(file)
  BY <1>2 DEF GivenIn, KeyLines, KeyLinesOf
<1>4. DOMAIN file = 1 .. Len(file)
  BY DEF ParseInv, ParseTypes
<1>5. refused <=> \E i \in DOMAIN file : ~WellNested(i)
  BY <1>2, <1>4 DEF ParseInv
<1>6. FlatAsNested
  BY <1>3, <1>5 DEF FlatAsNested, ParseInv, FlatOf
<1> QED BY <1>6 DEF FileSound, ParseInv

\* What the parser makes of a file is what its nesting says: it refuses the file
\* exactly if a line is not one level below its section, gives each path the
\* value of its last line, and a file it refuses changes no setting.
THEOREM FileAsMeant == ConfigLoadSpec => []FileSound
<1>1. ConfigLoadInit => ParseInv
  BY ParseInitOk
<1>2. ParseInv /\ [ConfigLoadNext]_ConfigLoadVars => ParseInv'
  <2> SUFFICES ASSUME ParseInv, [ConfigLoadNext]_ConfigLoadVars PROVE ParseInv'
    OBVIOUS
  <2>1. CASE \E l \in ConfigLine : RefuseFile(l) \/ SkipComment(l) \/ ParseSection(l) \/ ParseValue(l)
    BY <2>1, ReadLine
  <2>2. CASE ApplyFile \/ ApplyEnv
    BY <2>2, SettingsApplied
  <2>3. CASE UNCHANGED ConfigLoadVars
    <3>1. UNCHANGED <<file, pathStack, flat, config, loading, refused, environ>>
      BY <2>3 DEF ConfigLoadVars
    <3>2. PathTo' = PathTo
      BY <3>1 DEF PathTo, Parent, KeyLines
    <3> QED BY <3>1, <3>2 DEF ParseInv, ParseTypes, FileAllOrNothing, StackOf, FlatOf
  <2> QED BY <2>1, <2>2, <2>3 DEF ConfigLoadNext
<1>3. ParseInv => FileSound
  BY ParseGivesSound
<1> QED BY <1>1, <1>2, <1>3, PTL DEF ConfigLoadSpec
=============================================================================

--------------------------- MODULE ThresholdCache ---------------------------
(***************************************************************************)
(* The cache of alarm rules: internal/collector/threshold_cache.go, filled *)
(* by a periodic refresh and by the checks that miss, and emptied device   *)
(* by device by the edits of service/threshold_config_service.go.          *)
(*                                                                         *)
(* Neither a refresh nor a check holds the cache's lock while it reads the *)
(* database, so an edit may fall between what is read and what is put in   *)
(* the cache.  SQLite is external: its statements are atomic, and foreign  *)
(* keys are on only for the connection of the pool that ran the schema.    *)
(***************************************************************************)
EXTENDS Integers, Sequences

CONSTANTS
    Device, Threshold,
    Level,           \* what an edit may change in a rule beside its device
    Check,           \* collections that check their thresholds
    Admin,           \* requests that edit thresholds
    MaxEdits,        \* bound: edits of the tables
    MaxCacheFaults   \* bound: database statements that fail

ASSUME ThresholdCacheAssumption ==
    /\ {MaxEdits, MaxCacheFaults} \subseteq Nat
    /\ {"loop", "none"} \cap (Check \cup Device) = {} /\ {"idle", "drop"} \cap Threshold = {}

VARIABLES
    devices,     \* table devices
    thresholds,  \* table thresholds: [threshold |-> [dev, level]], of the rows there
    cached,      \* cache.thresholds and cache.rules; {}: no entry
    aged,        \* the last refresh is more than two intervals ago
    running,     \* cache.running, and the stop channel is open
    refresh,     \* refresh[p]: how far p's Refresh is, and what it has read
    check,       \* the check each Check is at
    edit,        \* the edit each Admin is at
    edits, cacheFaults,
    raced        \* devices an edit overlapped a fill or another edit on

tables == <<devices, thresholds>>
ThresholdCacheVars ==
    <<tables, cached, aged, running, refresh, check, edit, edits, cacheFaults, raced>>

Refresher == Check \cup {"loop"}
NoRefresh == [pc |-> "idle", devs |-> {}, rows |-> {}]
NoCheck   == [pc |-> "idle", dev |-> "none", rows |-> {}]
NoEdit    == [pc |-> "idle", old |-> {}, drop |-> <<>>]

\* The rules of device d: ListThresholdsByDevice.
Rules(d) == {<<t, thresholds[t].level>> : t \in {u \in DOMAIN thresholds : thresholds[u].dev = d}}
Rows == {<<t, thresholds[t].dev, thresholds[t].level>> : t \in DOMAIN thresholds}

ThresholdCacheInit ==
    /\ devices = Device
    /\ \E D \in SUBSET Threshold : thresholds \in [D -> [dev : Device, level : Level]]
    /\ cached = [d \in Device |-> {}] /\ aged = TRUE /\ running = FALSE
    /\ refresh = [p \in Refresher |-> NoRefresh]
    /\ check = [c \in Check |-> NoCheck] /\ edit = [a \in Admin |-> NoEdit]
    /\ edits = 0 /\ cacheFaults = 0 /\ raced = {}

CacheFault == cacheFaults < MaxCacheFaults /\ cacheFaults' = cacheFaults + 1
\* A refresh is over: the check that asked for it looks again.
RefreshOver(p) ==
    /\ refresh' = [refresh EXCEPT ![p] = [NoRefresh EXCEPT !.pc = IF p = "loop" THEN "wait" ELSE "idle"]]
    /\ check' = IF p \in Check THEN [check EXCEPT ![p].pc = "again"] ELSE check

-----------------------------------------------------------------------------
(* Refresh, and the loop that calls it.                                     *)

StartThresholdCache ==
    /\ ~running /\ refresh["loop"].pc = "idle"
    /\ running' = TRUE
    /\ refresh' = [refresh EXCEPT !["loop"].pc = "devices"]
    /\ UNCHANGED <<tables, cached, aged, check, edit, edits, cacheFaults, raced>>

StopThresholdCache ==
    /\ running /\ running' = FALSE
    /\ UNCHANGED <<tables, cached, aged, refresh, check, edit, edits, cacheFaults, raced>>

\* The ticker fires; a loop that finds both ready may still refresh once more.
RefreshTick ==
    /\ refresh["loop"].pc = "wait"
    /\ refresh' = [refresh EXCEPT !["loop"].pc = "devices"]
    /\ UNCHANGED <<tables, cached, aged, running, check, edit, edits, cacheFaults, raced>>

RefreshLoopStops ==
    /\ refresh["loop"].pc = "wait" /\ ~running
    /\ refresh' = [refresh EXCEPT !["loop"].pc = "gone"]
    /\ UNCHANGED <<tables, cached, aged, running, check, edit, edits, cacheFaults, raced>>

ReadDevices(p) ==
    /\ refresh[p].pc = "devices"
    /\ refresh' = [refresh EXCEPT ![p] = [@ EXCEPT !.pc = "thresholds", !.devs = devices]]
    /\ UNCHANGED <<tables, cached, aged, running, check, edit, edits, cacheFaults, raced>>

ReadThresholds(p) ==
    /\ refresh[p].pc = "thresholds"
    /\ refresh' = [refresh EXCEPT ![p] = [@ EXCEPT !.pc = "install", !.rows = Rows]]
    /\ UNCHANGED <<tables, cached, aged, running, check, edit, edits, cacheFaults, raced>>

RefreshFails(p) ==
    /\ refresh[p].pc \in {"devices", "thresholds"} /\ CacheFault
    /\ RefreshOver(p)
    /\ UNCHANGED <<tables, cached, aged, running, edit, edits, raced>>

\* What a refresh puts in the cache for device d.
\* Wrong variant: it only adds the devices that have no entry.
FillsMissing(p, d) ==
    IF cached[d] # {} THEN cached[d]
    ELSE {<<r[1], r[3]>> : r \in {x \in refresh[p].rows : x[2] = d /\ d \in refresh[p].devs}}
Loaded(p, d) ==
    {<<r[1], r[3]>> : r \in {x \in refresh[p].rows : x[2] = d /\ d \in refresh[p].devs}}

Install(p) ==
    /\ refresh[p].pc = "install"
    /\ cached' = [d \in Device |-> Loaded(p, d)]
    /\ aged' = FALSE
    /\ raced' = {d \in Device : Loaded(p, d) \notin {{}, Rules(d)}}
    /\ RefreshOver(p)
    /\ UNCHANGED <<tables, running, edit, edits, cacheFaults>>

\* Two intervals pass without a refresh.
Age ==
    /\ ~aged /\ aged' = TRUE
    /\ UNCHANGED <<tables, cached, running, refresh, check, edit, edits, cacheFaults, raced>>

-----------------------------------------------------------------------------
(* getThresholdCacheEntry.                                                  *)

\* A check that finds an entry evaluates it (module AlarmState) and is over;
\* one that finds none loads it.
Found(c, d) ==
    check' = [check EXCEPT ![c] =
        IF cached[d] = {} THEN [pc |-> "load", dev |-> d, rows |-> {}] ELSE NoCheck]

BeginCheck(c, d) ==
    /\ check[c].pc = "idle"
    /\ IF aged
       THEN /\ check' = [check EXCEPT ![c] = [pc |-> "refresh", dev |-> d, rows |-> {}]]
            /\ refresh' = [refresh EXCEPT ![c].pc = "devices"]
       ELSE Found(c, d) /\ UNCHANGED refresh
    /\ UNCHANGED <<tables, cached, aged, running, edit, edits, cacheFaults, raced>>

LookAgain(c) ==
    /\ check[c].pc = "again" /\ Found(c, check[c].dev)
    /\ UNCHANGED <<tables, cached, aged, running, refresh, edit, edits, cacheFaults, raced>>

\* ListThresholdsByDevice; a device without rules gets no entry.
LoadDevice(c) ==
    /\ check[c].pc = "load"
    /\ LET R == Rules(check[c].dev)
       IN check' = [check EXCEPT ![c] = IF R = {} THEN NoCheck ELSE [@ EXCEPT !.pc = "put", !.rows = R]]
    /\ UNCHANGED <<tables, cached, aged, running, refresh, edit, edits, cacheFaults, raced>>

LoadDeviceFails(c) ==
    /\ check[c].pc = "load" /\ CacheFault
    /\ check' = [check EXCEPT ![c] = NoCheck]
    /\ UNCHANGED <<tables, cached, aged, running, refresh, edit, edits, raced>>

PutDevice(c) ==
    /\ check[c].pc = "put"
    /\ LET d == check[c].dev
       IN  /\ cached' = [cached EXCEPT ![d] = check[c].rows]
           /\ raced' = IF check[c].rows = Rules(d) THEN raced \ {d} ELSE raced \cup {d}
    /\ check' = [check EXCEPT ![c] = NoCheck]
    /\ UNCHANGED <<tables, aged, running, refresh, edit, edits, cacheFaults>>

-----------------------------------------------------------------------------
(* The edits: a row is written, then the entries of the row's device and of *)
(* the device it belonged to are dropped one after the other.               *)

DevOf(t) == IF t \in DOMAIN thresholds THEN {thresholds[t].dev} ELSE {}

\* A device or none, as a sequence.
Listed(D) == IF D = {} THEN <<>> ELSE <<CHOOSE d \in D : TRUE>>

\* BuildThresholdCacheDeviceIDs: the device of the row, and the one it was at.
\* Wrong variant: the device the rule has left keeps its entry.
DropsOnlyNew(new, old) == IF new = {} THEN Listed(old) ELSE Listed(new)
Drops(new, old) == Listed(new) \o Listed(old \ new)

RowAdded(t, d, l) ==
    [u \in DOMAIN thresholds \cup {t} |-> IF u = t THEN [dev |-> d, level |-> l] ELSE thresholds[u]]

CreateThreshold(a, t, d, l) ==
    /\ edit[a].pc = "idle" /\ edits < MaxEdits /\ edits' = edits + 1
    /\ t \notin DOMAIN thresholds
    /\ thresholds' = RowAdded(t, d, l)
    /\ edit' = [edit EXCEPT ![a] = [pc |-> "drop", old |-> {}, drop |-> Drops({d}, {})]]
    /\ UNCHANGED <<devices, cached, aged, running, refresh, check, cacheFaults, raced>>

\* LoadThreshold before an update or a delete: its error is ignored, and then
\* nothing is known of the old device.
LoadOld(a, t) ==
    /\ edit[a].pc = "idle" /\ t \in DOMAIN thresholds /\ edits < MaxEdits
    /\ \/ edit' = [edit EXCEPT ![a] = [pc |-> t, old |-> DevOf(t), drop |-> <<>>]] /\ UNCHANGED cacheFaults
       \/ edit' = [edit EXCEPT ![a] = [pc |-> t, old |-> {}, drop |-> <<>>]] /\ CacheFault
    /\ UNCHANGED <<tables, cached, aged, running, refresh, check, edits, raced>>

\* The device the row really was at is not the one loaded.
Overlap(a, t) == raced' = raced \cup (DevOf(t) \ edit[a].old)

\* UPDATE of a row that is gone changes nothing and is no error.
UpdateThreshold(a, t, d, l) ==
    /\ edit[a].pc = t /\ edits < MaxEdits /\ edits' = edits + 1
    /\ thresholds' = [u \in DOMAIN thresholds |->
                        IF u = t THEN [dev |-> d, level |-> l] ELSE thresholds[u]]
    /\ Overlap(a, t)
    /\ edit' = [edit EXCEPT ![a] = [pc |-> "drop", old |-> {}, drop |-> Drops({d}, edit[a].old)]]
    /\ UNCHANGED <<devices, cached, aged, running, refresh, check, cacheFaults>>

DeleteThreshold(a, t) ==
    /\ edit[a].pc = t /\ edits < MaxEdits /\ edits' = edits + 1
    /\ thresholds' = [u \in DOMAIN thresholds \ {t} |-> thresholds[u]]
    /\ Overlap(a, t)
    /\ edit' = [edit EXCEPT ![a] = [pc |-> "drop", old |-> {}, drop |-> Drops({}, edit[a].old)]]
    /\ UNCHANGED <<devices, cached, aged, running, refresh, check, cacheFaults>>

\* The statement fails (where foreign keys are on, a device that is gone is
\* refused too): no entry is dropped.
EditFails(a) ==
    /\ edit[a].pc \in Threshold
    /\ \/ CacheFault
       \/ devices # Device /\ UNCHANGED cacheFaults
       \/ edits = MaxEdits /\ UNCHANGED cacheFaults
    /\ edit' = [edit EXCEPT ![a] = NoEdit]
    /\ UNCHANGED <<tables, cached, aged, running, refresh, check, edits, raced>>

InvalidateDeviceCache(a) ==
    /\ edit[a].drop # <<>>
    /\ cached' = [cached EXCEPT ![Head(edit[a].drop)] = {}] /\ raced' = raced \ {Head(edit[a].drop)}
    /\ LET rest == Tail(edit[a].drop)
       IN edit' = [edit EXCEPT ![a] = IF rest = <<>> THEN NoEdit ELSE [edit[a] EXCEPT !.drop = rest]]
    /\ UNCHANGED <<tables, aged, running, refresh, check, edits, cacheFaults>>

\* Nothing is known of the old device of a deleted row.
EditEnds(a) ==
    /\ edit[a].pc = "drop" /\ edit[a].drop = <<>>
    /\ edit' = [edit EXCEPT ![a] = NoEdit]
    /\ UNCHANGED <<tables, cached, aged, running, refresh, check, edits, cacheFaults, raced>>

\* DeleteDevice drops no entry.  Its thresholds go with it if the statement
\* ran on the connection where the schema turned foreign keys on.
DeleteDevice(d) ==
    /\ d \in devices /\ edits < MaxEdits /\ edits' = edits + 1
    /\ devices' = devices \ {d}
    /\ \/ UNCHANGED thresholds
       \/ thresholds' = [t \in {u \in DOMAIN thresholds : thresholds[u].dev # d} |-> thresholds[t]]
    /\ raced' = raced \cup {d}
    /\ UNCHANGED <<cached, aged, running, refresh, check, edit, cacheFaults>>

RefreshStep(p) == ReadDevices(p) \/ ReadThresholds(p) \/ Install(p)
CheckStep(c) == LookAgain(c) \/ LoadDevice(c) \/ PutDevice(c)
Dropping(a) == EditEnds(a) \/ InvalidateDeviceCache(a)

ThresholdCacheNext ==
    \/ StartThresholdCache \/ StopThresholdCache \/ RefreshTick \/ RefreshLoopStops \/ Age
    \/ \E p \in Refresher : RefreshStep(p) \/ RefreshFails(p)
    \/ \E c \in Check : CheckStep(c) \/ LoadDeviceFails(c) \/ \E d \in devices : BeginCheck(c, d)
    \/ \E a \in Admin : Dropping(a) \/ EditFails(a)
    \/ \E a \in Admin, t \in Threshold : LoadOld(a, t) \/ DeleteThreshold(a, t)
    \/ \E a \in Admin, t \in Threshold, d \in Device, l \in Level :
            CreateThreshold(a, t, d, l) \/ UpdateThreshold(a, t, d, l)
    \/ \E d \in Device : DeleteDevice(d)

\* A goroutine that can go on goes on, and the ticker ticks.
ThresholdCacheFairness ==
    /\ WF_ThresholdCacheVars(RefreshTick)
    /\ \A p \in Refresher : WF_ThresholdCacheVars(RefreshStep(p))
    /\ \A c \in Check : WF_ThresholdCacheVars(CheckStep(c))
    /\ \A a \in Admin : WF_ThresholdCacheVars(Dropping(a))

ThresholdCacheSpec ==
    ThresholdCacheInit /\ [][ThresholdCacheNext]_ThresholdCacheVars /\ ThresholdCacheFairness

-----------------------------------------------------------------------------
ThresholdCacheTypeOK ==
    /\ devices \subseteq Device /\ raced \subseteq Device
    /\ DOMAIN thresholds \subseteq Threshold
    /\ \A t \in DOMAIN thresholds : thresholds[t] \in [dev : Device, level : Level]
    /\ cached \in [Device -> SUBSET (Threshold \X Level)]
    /\ aged \in BOOLEAN /\ running \in BOOLEAN
    /\ edits \in 0 .. MaxEdits /\ cacheFaults \in 0 .. MaxCacheFaults
    /\ \A p \in Refresher :
        /\ refresh[p].pc \in {"idle", "wait", "gone", "devices", "thresholds", "install"}
        /\ refresh[p].devs \subseteq Device
        /\ refresh[p].rows \subseteq Threshold \X Device \X Level
    /\ \A c \in Check :
        /\ check[c].pc \in {"idle", "refresh", "again", "load", "put"}
        /\ check[c].rows \subseteq Threshold \X Level
    /\ \A a \in Admin : /\ edit[a].pc \in Threshold \cup {"idle", "drop"}
                         /\ edit[a].old \subseteq Device /\ edit[a].drop \in Seq(Device)

\* Once an edit of the thresholds has answered, no device keeps rules that are
\* no longer in the database, a rule that moved to another device included,
\* unless a fill or another edit ran at the same time: what the edit's
\* InvalidateThresholdDeviceCaches drops is enough.
StaleOnlyByRace ==
    \A d \in Device : cached[d] \notin {{}, Rules(d)} =>
        d \in raced \/ \E a \in Admin : \E i \in DOMAIN edit[a].drop : edit[a].drop[i] = d

\* When the edits stop, every entry is at last what the database says, or
\* none: whatever was put in the cache by a fill that an edit overlapped, the
\* refresh loop replaces.
RulesConverge == <>[](running => \A d \in Device : cached[d] \in {{}, Rules(d)})

\* The entries of the cache are well formed, and stale only by a race.
RulesSound == ThresholdCacheTypeOK /\ StaleOnlyByRace
=============================================================================

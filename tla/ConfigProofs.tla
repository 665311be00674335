---------------------------- MODULE ConfigProofs ----------------------------
(***************************************************************************)
(* Proofs about modules Resources, RuntimeConfig and Northbound, which     *)
(* share no state: any paths, values, rows and names, and any number of    *)
(* requests at once.                                                       *)
(***************************************************************************)
EXTENDS Resources, RuntimeConfig, Northbound, SequenceTheorems,
        FiniteSetTheorems, TLAPS

-----------------------------------------------------------------------------
(* A resource, its path and its connection.                                 *)

\* A connection leads where the cached path does, and between the edits the
\* path is the row's or, if that has none, the device's.
Leads == ~raced => conn \in {"", path}
Cached == Refreshing = {} /\ ~raced => path \in {"", Address}
EditsTyped ==
    /\ edit \in [ResRequest -> [op : {"none", "update", "delete", "toggle"}, pc : {"idle", "write", "refresh"},
                                body : Rows \cup {Gone}]]
    /\ row \in Rows \cup {Gone}

\* The inductive invariant.
ResInv == EditsTyped /\ Leads /\ Cached

LEMMA ResInvSafe == ResInv => ConnectionFollowsRow
BY DEF ResInv, Leads, Cached, ConnectionFollowsRow

LEMMA ResInit == ResourcesInit => ResInv
<1> SUFFICES ASSUME ResourcesInit PROVE ResInv
  OBVIOUS
<1>1. EditsTyped
  BY DEF ResourcesInit, EditsTyped, NoEdit
<1>2. Leads /\ Cached
  BY DEF ResourcesInit, Leads, Cached
<1> QED BY <1>1, <1>2 DEF ResInv

\* Requests that arrive, are written or fail.
LEMMA RequestStep ==
    ASSUME ResInv, NEW q \in ResRequest,
           \/ UpdateResource(q) \/ DeleteResource(q) \/ ToggleResource(q)
           \/ ResourceStatement(q) \/ ResourceFails(q)
    PROVE  ResInv'
<1>0. EditsTyped /\ Leads /\ Cached
  BY DEF ResInv
<1>1. UNCHANGED <<path, conn, raced>>
  BY DEF UpdateResource, DeleteResource, ToggleResource, Begin, ResourceStatement, ResourceFails
<1>2. Leads'
  BY <1>0, <1>1 DEF Leads
<1>3. CASE ResourceStatement(q)
  <2>1. edit' = [edit EXCEPT ![q].pc = "refresh"] /\ row' = Stored(edit[q])
    BY <1>3 DEF ResourceStatement, EditGoes
  <2>2. q \in Refreshing'
    BY <1>0, <2>1 DEF EditsTyped, Refreshing
  <2>3. Stored(edit[q]) \in Rows \cup {Gone}
    <3>0. edit[q].body \in Rows \cup {Gone} /\ (row # Gone => row \in Rows)
      BY <1>0 DEF EditsTyped
    <3>1. edit[q].body.enabled \in BOOLEAN
      <4>1. CASE edit[q].body \in Rows
        BY <4>1 DEF Rows
      <4>2. CASE edit[q].body = Gone
        <5>1. Gone.enabled \in BOOLEAN
          BY Zenon DEF Gone
        <5> QED BY <4>2, <5>1
      <4> QED BY <3>0, <4>1, <4>2
    <3>2. row \in Rows => [row EXCEPT !.enabled = edit[q].body.enabled] \in Rows
      BY <3>0, <3>1 DEF Rows
    <3> QED BY <3>0, <3>2 DEF Stored
  <2>4. EditsTyped'
    BY <1>0, <2>1, <2>3 DEF EditsTyped
  <2> QED BY <1>2, <2>2, <2>4 DEF ResInv, Cached
<1>4. CASE ~ResourceStatement(q)
  <2>1. row' = row /\ Refreshing' = Refreshing
    <3>1. \A p \in ResRequest : edit'[p].pc = "refresh" <=> edit[p].pc = "refresh"
      BY <1>0, <1>4 DEF UpdateResource, DeleteResource, ToggleResource, Begin, ResourceFails, EditEnds,
                        NoEdit, EditsTyped
    <3> QED BY <1>4, <3>1 DEF UpdateResource, DeleteResource, ToggleResource, Begin, ResourceFails, Refreshing
  <2>2. EditsTyped'
    <3>1. row # Gone => [row EXCEPT !.enabled = ~@] \in Rows
      BY <1>0 DEF EditsTyped, Rows
    <3>2. CASE ResourceFails(q)
      BY <1>0, <3>2 DEF ResourceFails, EditEnds, NoEdit, EditsTyped
    <3>3. CASE ~ResourceFails(q)
      <4>1. PICK op \in {"update", "delete", "toggle"}, b \in Rows \cup {Gone} : Begin(q, op, b)
        BY <1>4, <3>1, <3>3 DEF UpdateResource, DeleteResource, ToggleResource, Begin
      <4> QED BY <1>0, <4>1 DEF Begin, EditsTyped
    <3> QED BY <3>2, <3>3
  <2>3. Cached'
    BY <1>0, <1>1, <2>1 DEF Cached, Address
  <2> QED BY <1>2, <2>2, <2>3 DEF ResInv
<1> QED BY <1>3, <1>4

LEMMA RefreshStep == ASSUME ResInv, NEW q \in ResRequest, Refresh(q) PROVE ResInv'
<1> DEFINE b == edit[q].body
<1>0. EditsTyped /\ Leads /\ Cached /\ row' = row /\ edit' = [edit EXCEPT ![q] = NoEdit]
  BY DEF ResInv, Refresh, EditEnds
<1>1. EditsTyped'
  BY <1>0 DEF EditsTyped, NoEdit
<1>2. CASE Closes(b)
  BY <1>1, <1>2 DEF Refresh, RefreshResource, CloseResource, ResInv, Leads, Cached
<1>3. CASE ~Closes(b)
  <2>1. /\ path' = b.path /\ conn' = (IF path # "" /\ path # b.path THEN "" ELSE conn)
        /\ raced' = (raced \/ b.path # row.path)
    BY <1>3 DEF Refresh, RefreshResource, SetResourcePath
  <2> QED BY <1>0, <1>1, <2>1 DEF ResInv, Leads, Cached, Address
<1> QED BY <1>2, <1>3

\* The collection.
LEMMA CollectionStep ==
    ASSUME ResInv,
           \/ EnsureResourcePath \/ LoadResource \/ SetLoaded \/ Fallback \/ LockResource
           \/ Transfer \/ TransferFails \/ DialLock \/ KeepConnection \/ CollectionEnds
    PROVE  ResInv'
<1>0. EditsTyped /\ Leads /\ Cached /\ row' = row /\ edit' = edit
  BY DEF ResInv, EnsureResourcePath, LoadResource, SetLoaded, Fallback, LockResource, Transfer, TransferFails,
         DialLock, KeepConnection, CollectionEnds, KeepEdits
<1>1. EditsTyped' /\ Refreshing' = Refreshing /\ Address' = Address
  BY <1>0 DEF EditsTyped, Refreshing, Address
<1>2. CASE SetLoaded
  BY <1>0, <1>1, <1>2 DEF SetLoaded, SetResourcePath, ResInv, Leads, Cached, Address
<1>3. CASE Fallback
  BY <1>0, <1>1, <1>3 DEF Fallback, SetResourcePath, ResInv, Leads, Cached, Address
<1>4. CASE TransferFails
  BY <1>0, <1>1, <1>4 DEF TransferFails, ResInv, Leads, Cached
<1>5. CASE KeepConnection
  <2>1. path' = path /\ (\/ conn' = fetch.seen /\ raced' = (raced \/ path # fetch.seen)
                         \/ conn' = conn /\ raced' = raced)
    BY <1>5 DEF KeepConnection
  <2>2. ~raced' => ~raced /\ (conn' = conn \/ conn' = path)
    BY <2>1
  <2> QED BY <1>0, <1>1, <2>1, <2>2 DEF ResInv, Leads, Cached
<1>6. CASE EnsureResourcePath \/ LoadResource \/ LockResource \/ Transfer \/ DialLock \/ CollectionEnds
  BY <1>0, <1>1, <1>6 DEF EnsureResourcePath, LoadResource, LockResource, Transfer, DialLock, CollectionEnds,
                          ResInv, Leads, Cached
<1> QED BY <1>2, <1>3, <1>4, <1>5, <1>6

\* Between the edits, unless a step used a path that had changed since it was
\* read, the executor's path and connection lead where the row says - however
\* many edits of the resource are under way, and whatever fails.
THEOREM ConnectionKept == ResourcesSpec => []ConnectionFollowsRow
<1>1. ResourcesInit => ResInv
  BY ResInit
<1>2. ResInv /\ [ResourcesNext]_ResourcesVars => ResInv'
  <2> SUFFICES ASSUME ResInv, [ResourcesNext]_ResourcesVars PROVE ResInv'
    OBVIOUS
  <2>1. CASE UNCHANGED ResourcesVars
    BY <2>1 DEF ResourcesVars, ResInv, EditsTyped, Leads, Cached, Refreshing, Address
  <2> QED BY <2>1, RequestStep, RefreshStep, CollectionStep DEF ResourcesNext
<1>3. ResInv => ConnectionFollowsRow
  BY ResInvSafe
<1> QED BY <1>1, <1>2, <1>3, PTL DEF ResourcesSpec

-----------------------------------------------------------------------------
(* The settings of the running gateway.                                     *)

RtPlace == {"idle", "assign", "read_interval", "set_interval", "notify", "drain", "again",
            "read_driver", "set_driver", "read_reconnect", "set_reconnect", "audit"}
RtRecord == [pc : RtPlace, n : 1 .. 4, want : Asks, read : RtValue, changed : BOOLEAN, alone : BOOLEAN]
Settings == [Setting -> RtValue]
Channel == {<<>>} \cup {<<v>> : v \in RtValue}

RecordTyped ==
    /\ rt \in [RtRequest -> RtRecord] /\ \A q \in RtRequest : rt[q].pc = "assign" => rt[q].n \in 1 .. 3
PartsTyped ==
    appConfig \in Settings /\ applied \in Settings /\ resetChan \in Channel /\ ticker \in RtValue
    /\ untidy \in BOOLEAN /\ anew \in BOOLEAN /\ (anew => applied["reconnect"] = BuiltIn)

\* The interval the ticker will run at, of a channel and a ticker.
To(ch, t) == IF ch = <<>> THEN t ELSE Head(ch)

\* What a request that runs alone has achieved where it is: the record c has
\* been handed over to the parts a as far as that; new: the adapter is anew.
Achieved(pc, read, c, a, ch, t, new) ==
    /\ pc \in {"set_interval", "notify", "drain", "again"} => read = c["interval"]
    /\ pc \notin {"assign", "read_interval", "set_interval"} => a["interval"] = c["interval"]
    /\ pc = "again" => ch = <<>>
    /\ pc \in {"read_driver", "set_driver", "read_reconnect", "set_reconnect", "audit"}
         => To(ch, t) = c["interval"]
    /\ pc = "set_driver" => read = c["driver"]
    /\ pc \in {"read_reconnect", "set_reconnect", "audit"} => a["driver"] = c["driver"]
    /\ pc = "set_reconnect" => read = c["reconnect"]
    /\ pc = "audit" /\ ~new => a["reconnect"] = c["reconnect"]

Solo ==
    \A q \in RtRequest : rt[q].pc # "idle" =>
        IF rt[q].alone THEN \A p \in RtRequest : rt[p].pc # "idle" => p = q ELSE untidy
RtProgress ==
    \A q \in RtRequest : rt[q].pc # "idle" /\ rt[q].alone =>
        Achieved(rt[q].pc, rt[q].read, appConfig, applied, resetChan, ticker, anew)
Agrees(c, a, new) ==
    /\ \A s \in Setting \ {"reconnect"} : a[s] = c[s]
    /\ a["reconnect"] = IF new THEN BuiltIn ELSE c["reconnect"]
\* A request about to hand an interval to a replaced adapter.
TooLate == \A q \in replaced : q \in RtRequest /\ rt[q].pc = "set_reconnect" /\ (rt[q].alone => anew)
Synced == Agrees(appConfig, applied, anew) /\ To(resetChan, ticker) = applied["interval"]
\* Nobody has changed the record since it was last handed over.
Unchanged == \A q \in RtRequest : rt[q].pc = "idle" \/ (rt[q].pc = "assign" /\ ~rt[q].changed)
Follows == ~untidy /\ Unchanged => Synced

\* The inductive invariant.
RtInv == RecordTyped /\ PartsTyped /\ Solo /\ RtProgress /\ TooLate /\ Follows

LEMMA SettingIs == Setting = {"interval", "reconnect", "driver"} /\ Len(Checked) = 3
                   /\ \A n \in 1 .. 3 : Checked[n] \in Setting
BY DEF Setting, Checked

LEMMA RtSafe == RtInv => SettingsFollow
BY DEF RtInv, Follows, Unchanged, Synced, Agrees, SettingsFollow, UnderWay, TickerTo, To

LEMMA IdleRecord == NoRequest \in RtRecord /\ NoRequest.pc = "idle" /\ NoRequest.alone
<1>1. [s \in Setting |-> "absent"] \in Asks
  BY DEF Asks
<1>2. Initially \in RtValue
  BY RuntimeConfigAssumption
<1> QED BY <1>1, <1>2 DEF NoRequest, RtRecord, RtPlace

LEMMA RtInit == RuntimeConfigInit => RtInv
<1> SUFFICES ASSUME RuntimeConfigInit PROVE RtInv
  OBVIOUS
<1>1. \A q \in RtRequest : rt[q] = NoRequest
  BY DEF RuntimeConfigInit
<1>2. RecordTyped
  BY <1>1, IdleRecord DEF RuntimeConfigInit, RecordTyped
<1>3. PartsTyped
  BY RuntimeConfigAssumption, SettingIs DEF RuntimeConfigInit, PartsTyped, Settings, Channel, Started
<1>4. Solo /\ RtProgress /\ TooLate
  BY <1>1, IdleRecord DEF Solo, RtProgress, TooLate, RuntimeConfigInit
<1>5. Follows
  BY SettingIs DEF RuntimeConfigInit, Follows, Synced, Agrees, To, Started
<1> QED BY <1>2, <1>3, <1>4, <1>5 DEF RtInv

\* A request at its next place.
RtAt(r, pc, read) == [pc |-> pc, n |-> r.n, want |-> r.want, read |-> read,
                    changed |-> r.changed, alone |-> r.alone]

\* Request q of f has moved on to e, and no other has.
Moved(f, g, q, e) ==
    g \in [RtRequest -> {g[p] : p \in RtRequest}] /\ g[q] = e /\ \A p \in RtRequest : p # q => g[p] = f[p]

LEMMA MovedIs ==
    ASSUME NEW f, f \in [RtRequest -> RtRecord], NEW g, NEW q \in RtRequest, NEW e, Moved(f, g, q, e)
    PROVE  g = [f EXCEPT ![q] = e]
BY DEF Moved

\* A request goes on: what it has achieved is enough to know.
LEMMA MoveStep ==
    ASSUME RtInv, NEW q \in RtRequest, rt[q].pc # "idle",
           NEW e \in RtRecord, rt' = [rt EXCEPT ![q] = e], e.pc # "idle", e.alone = rt[q].alone,
           e.pc = "assign" => e.n \in 1 .. 3,
           PartsTyped', untidy' = untidy, replaced' = replaced \ {q},
           rt[q].alone => Achieved(e.pc, e.read, appConfig', applied', resetChan', ticker', anew'),
           e.pc = "assign" /\ ~e.changed => rt[q].pc = "assign" /\ ~rt[q].changed /\ (Synced => Synced')
    PROVE  RtInv'
<1>0. RecordTyped /\ Solo /\ RtProgress /\ TooLate /\ Follows
  BY DEF RtInv
<1>1. rt'[q] = e /\ \A p \in RtRequest : p # q => rt'[p] = rt[p]
  BY <1>0 DEF RecordTyped
<1>2. RecordTyped'
  BY <1>0, <1>1 DEF RecordTyped
<1>3. Solo'
  <2> SUFFICES ASSUME NEW p \in RtRequest, rt'[p].pc # "idle"
               PROVE  IF rt'[p].alone THEN \A x \in RtRequest : rt'[x].pc # "idle" => x = p ELSE untidy'
    BY DEF Solo
  <2>1. /\ rt'[p].alone = rt[p].alone
        /\ \A x \in RtRequest : rt'[x].pc # "idle" <=> rt[x].pc # "idle"
    BY <1>1
  <2> QED BY <1>0, <2>1 DEF Solo
<1>4. RtProgress'
  <2> SUFFICES ASSUME NEW p \in RtRequest, rt'[p].pc # "idle", rt'[p].alone
               PROVE  Achieved(rt'[p].pc, rt'[p].read, appConfig', applied', resetChan', ticker', anew')
    BY DEF RtProgress
  <2>1. p = q
    BY <1>0, <1>1 DEF Solo
  <2> QED BY <1>1, <2>1
<1>5. Follows'
  <2> SUFFICES ASSUME ~untidy, Unchanged' PROVE Synced'
    BY DEF Follows
  <2>1. e.pc = "assign" /\ ~e.changed
    BY <1>1 DEF Unchanged
  <2>2. Unchanged
    BY <1>1, <2>1 DEF Unchanged
  <2> QED BY <1>0, <2>1, <2>2 DEF Follows
<1>6. TooLate'
  <2>1. \A p \in replaced' : p \in replaced /\ p # q /\ p \in RtRequest /\ rt'[p] = rt[p]
    BY <1>0, <1>1 DEF TooLate
  <2>2. \A p \in replaced' : rt[p].pc = "set_reconnect" /\ ~rt[p].alone
    BY <1>0, <2>1 DEF TooLate, Solo
  <2> QED BY <2>1, <2>2 DEF TooLate
<1> QED BY <1>2, <1>3, <1>4, <1>5, <1>6 DEF RtInv

\* A request is over.
LEMMA OverStep ==
    ASSUME RtInv, NEW q \in RtRequest, rt[q].pc \in {"assign", "audit"}, rt' = [rt EXCEPT ![q] = NoRequest],
           UNCHANGED <<appConfig, applied, resetChan, ticker, anew, replaced>>, untidy' \in BOOLEAN,
           untidy /\ ~rt[q].alone => untidy',
           ~untidy' => Synced
    PROVE  RtInv'
<1>0. RecordTyped /\ PartsTyped /\ Solo /\ RtProgress /\ TooLate
  BY DEF RtInv
<1>1. rt'[q] = NoRequest /\ \A p \in RtRequest : p # q => rt'[p] = rt[p]
  BY <1>0 DEF RecordTyped
<1>2. RecordTyped'
  BY <1>0, <1>1, IdleRecord DEF RecordTyped
<1>3. ASSUME NEW p \in RtRequest, rt'[p].pc # "idle"
      PROVE  p # q /\ rt'[p] = rt[p] /\ ~rt[p].alone /\ untidy /\ ~rt[q].alone
  BY <1>0, <1>1, <1>3, IdleRecord DEF Solo
<1>4. Solo' /\ RtProgress'
  BY <1>3 DEF Solo, RtProgress
<1>6. TooLate'
  BY <1>0, <1>1 DEF TooLate
<1>5. PartsTyped' /\ Follows'
  BY <1>0 DEF PartsTyped, Follows, Synced, Agrees
<1> QED BY <1>2, <1>4, <1>5, <1>6 DEF RtInv

LEMMA UpdateStep == ASSUME RtInv, NEW q \in RtRequest, UpdateRuntimeConfig(q) PROVE RtInv'
<1>0. RecordTyped /\ PartsTyped /\ Solo /\ RtProgress /\ TooLate /\ Follows /\ rt[q].pc = "idle"
  BY DEF RtInv, UpdateRuntimeConfig
<1>1. PICK w \in Asks :
        rt' = [p \in RtRequest |->
                 IF p = q THEN [NoRequest EXCEPT !.pc = "assign", !.want = w, !.alone = UnderWay = {}]
                 ELSE [rt[p] EXCEPT !.alone = p \notin UnderWay]]
  BY DEF UpdateRuntimeConfig
<1>2. UNCHANGED <<appConfig, applied, resetChan, ticker, anew, replaced>> /\ untidy' = (untidy \/ UnderWay # {})
  BY DEF UpdateRuntimeConfig, adapterVars
<1>3. /\ rt'[q] \in RtRecord /\ rt'[q].pc = "assign" /\ rt'[q].n = 1
      /\ rt'[q].alone = (UnderWay = {}) /\ ~rt'[q].changed
  <2>1. NoRequest \in RtRecord /\ NoRequest.n = 1 /\ ~NoRequest.changed
    BY IdleRecord DEF NoRequest
  <2>2. "assign" \in RtPlace /\ (UnderWay = {}) \in BOOLEAN
    BY DEF RtPlace
  <2>3. rt'[q] = [NoRequest EXCEPT !.pc = "assign", !.want = w, !.alone = UnderWay = {}]
    BY <1>1
  <2> QED BY <2>1, <2>2, <2>3 DEF RtRecord
<1>4. ASSUME NEW p \in RtRequest, p # q
      PROVE  /\ rt'[p] \in RtRecord /\ rt'[p].pc = rt[p].pc /\ rt'[p].n = rt[p].n
             /\ rt'[p].alone = (p \notin UnderWay) /\ rt'[p].changed = rt[p].changed
  <2>1. rt'[p] = [rt[p] EXCEPT !.alone = p \notin UnderWay]
    BY <1>1, <1>4
  <2>2. rt[p] \in RtRecord
    BY <1>0 DEF RecordTyped
  <2> QED BY <2>1, <2>2 DEF RtRecord
<1>5. RecordTyped'
  <2>1. \A p \in RtRequest : rt'[p] \in RtRecord /\ (rt'[p].pc = "assign" => rt'[p].n \in 1 .. 3)
    BY <1>0, <1>3, <1>4 DEF RecordTyped
  <2> DEFINE F(p) == IF p = q THEN [NoRequest EXCEPT !.pc = "assign", !.want = w, !.alone = UnderWay = {}]
                     ELSE [rt[p] EXCEPT !.alone = p \notin UnderWay]
  <2>2. rt' = [p \in RtRequest |-> F(p)]
    BY <1>1
  <2> HIDE DEF F
  <2> QED BY <2>1, <2>2 DEF RecordTyped
<1>6. PartsTyped'
  BY <1>0, <1>2 DEF PartsTyped
<1>7. Solo' /\ RtProgress'
  <2>1. ASSUME NEW p \in RtRequest, rt'[p].pc # "idle", rt'[p].alone PROVE p = q /\ UnderWay = {}
    BY <1>3, <1>4, <2>1 DEF UnderWay
  <2>2. ASSUME NEW p \in RtRequest, rt'[p].pc # "idle", ~rt'[p].alone PROVE untidy'
    BY <1>2, <1>3, <1>4, <2>2 DEF UnderWay
  <2>3. UnderWay = {} => \A x \in RtRequest : rt'[x].pc # "idle" => x = q
    BY <1>4 DEF UnderWay
  <2>4. Solo'
    BY <2>1, <2>2, <2>3 DEF Solo
  <2>5. RtProgress'
    BY <1>3, <2>1 DEF RtProgress, Achieved
  <2> QED BY <2>4, <2>5
<1>8. Follows'
  <2> SUFFICES ASSUME ~untidy' PROVE Synced'
    BY DEF Follows
  <2>1. ~untidy /\ UnderWay = {}
    BY <1>2
  <2>2. Unchanged
    BY <2>1 DEF Unchanged, UnderWay
  <2> QED BY <1>0, <1>2, <2>1, <2>2 DEF Follows, Synced, Agrees
<1>9. TooLate'
  <2>1. \A p \in replaced : p # q /\ p \in UnderWay
    BY <1>0 DEF TooLate, UnderWay
  <2> QED BY <1>0, <1>2, <1>4, <2>1 DEF TooLate
<1> QED BY <1>5, <1>6, <1>7, <1>8, <1>9 DEF RtInv

LEMMA AssignStep == ASSUME RtInv, NEW q \in RtRequest, AssignSetting(q) PROVE RtInv'
<1> DEFINE s == Checked[rt[q].n]
           v == rt[q].want[s]
           next == IF rt[q].n = Len(Checked) THEN "read_interval" ELSE "assign"
           ch == rt[q].changed \/ v \notin {"absent", appConfig[s]}
<1>0. /\ RecordTyped /\ PartsTyped /\ Solo /\ RtProgress /\ Follows /\ rt[q].pc = "assign"
      /\ UNCHANGED <<applied, resetChan, ticker, anew, replaced>>
  BY DEF RtInv, AssignSetting, adapterVars
<1>1. /\ rt[q] \in RtRecord /\ rt[q].n \in 1 .. 3 /\ s \in Setting
      /\ rt[q].want \in Asks /\ v \in RtValue \cup {"absent", "invalid"}
  BY <1>0, SettingIs DEF RecordTyped, RtRecord, Asks
<1>2. CASE v = "invalid" /\ RtEnds(q) /\ UNCHANGED appConfig /\ untidy' = (untidy \/ rt[q].changed)
  <2>1. ~untidy' => Synced
    <3> SUFFICES ASSUME ~untidy, ~rt[q].changed PROVE Synced
      BY <1>2
    <3>1. \A p \in RtRequest : rt[p].pc # "idle" => p = q
      BY <1>0 DEF Solo
    <3>2. Unchanged
      BY <1>0, <3>1 DEF Unchanged
    <3> QED BY <1>0, <3>2 DEF Follows
  <2>2. untidy' \in BOOLEAN
    BY <1>0, <1>1, <1>2 DEF PartsTyped, RtRecord
  <2>3. rt' = [rt EXCEPT ![q] = NoRequest]
    BY <1>2 DEF RtEnds
  <2>4. untidy /\ ~rt[q].alone => untidy'
    BY <1>2
  <2> QED BY <1>0, <1>2, <2>1, <2>2, <2>3, <2>4, OverStep
<1>3. CASE /\ v # "invalid" /\ UNCHANGED untidy
           /\ appConfig' = IF v = "absent" THEN appConfig ELSE [appConfig EXCEPT ![s] = v]
           /\ rt' = [rt EXCEPT ![q].pc = next, ![q].n = @ + 1, ![q].want[s] = "absent",
                               ![q].changed = @ \/ v \notin {"absent", appConfig[s]}]
  <2> DEFINE w == [rt[q].want EXCEPT ![s] = "absent"]
             e == [pc |-> next, n |-> rt[q].n + 1, want |-> w, read |-> rt[q].read,
                   changed |-> ch, alone |-> rt[q].alone]
  <2>1. rt' = [rt EXCEPT ![q] = e]
    <3>1. rt[q] = [pc |-> rt[q].pc, n |-> rt[q].n, want |-> rt[q].want, read |-> rt[q].read,
                   changed |-> rt[q].changed, alone |-> rt[q].alone]
      BY <1>1 DEF RtRecord
    <3>2. DOMAIN rt = RtRequest
      BY <1>0 DEF RecordTyped
    <3>3. rt'[q] = e
      BY <1>3, <3>1, <3>2
    <3>4. rt' \in [RtRequest -> {rt'[p] : p \in RtRequest}] /\ \A p \in RtRequest : p # q => rt'[p] = rt[p]
      BY <1>3, <3>2
    <3> HIDE DEF e
    <3> QED BY <3>2, <3>3, <3>4
  <2>2. w \in Asks
    BY <1>1 DEF Asks
  <2>3. /\ next \in {"assign", "read_interval"} /\ rt[q].n + 1 \in 1 .. 4
        /\ (next = "assign" => rt[q].n + 1 \in 1 .. 3)
    BY <1>1, SettingIs
  <2>4. e \in RtRecord /\ e.pc \in {"assign", "read_interval"} /\ e.alone = rt[q].alone
        /\ (e.pc = "assign" => e.n \in 1 .. 3) /\ e.changed = ch
    <3> HIDE DEF w, next, s, v
    <3>1. ch \in BOOLEAN
      BY <1>1 DEF RtRecord
    <3> HIDE DEF ch
    <3> QED BY <1>1, <2>2, <2>3, <3>1 DEF RtRecord, RtPlace
  <2>5. PartsTyped'
    BY <1>0, <1>1, <1>3 DEF PartsTyped, Settings
  <2>6. ~ch => rt[q].changed = FALSE /\ (Synced => Synced')
    <3> SUFFICES ASSUME ~ch PROVE appConfig' = appConfig
      BY <1>0, <1>1 DEF Synced, Agrees, RtRecord
    <3>1. v = "absent" \/ v = appConfig[s]
      OBVIOUS
    <3>2. appConfig \in [Setting -> RtValue]
      BY <1>0 DEF PartsTyped, Settings
    <3>3. [appConfig EXCEPT ![s] = appConfig[s]] = appConfig
      BY <3>2
    <3> QED BY <1>3, <3>1, <3>3
  <2>7. \A c, a, x, t, new : Achieved(e.pc, e.read, c, a, x, t, new)
    BY <2>4 DEF Achieved
  <2>8. untidy' = untidy /\ replaced' = replaced \ {q}
    BY <1>0, <1>3 DEF RtInv, TooLate
  <2> HIDE DEF e, ch
  <2> QED BY <1>0, <2>1, <2>4, <2>5, <2>6, <2>7, <2>8, MoveStep
<1> QED BY <1>2, <1>3 DEF AssignSetting

\* A request reads a setting, hands one over, or tells the ticker's worker.
LEMMA HandStep ==
    ASSUME RtInv, NEW q \in RtRequest,
           \/ ApplyCollectorRuntime(q) \/ SetRuntimeIntervals(q) \/ Notify(q) \/ Drain(q) \/ NotifyAgain(q)
           \/ ApplyDriverRuntime(q) \/ SetTimeoutsAndRetries(q)
           \/ ApplyNorthboundRuntime(q) \/ SetReconnectInterval(q)
    PROVE  RtInv'
<1> DEFINE r == rt[q]
<1>0. RecordTyped /\ PartsTyped /\ RtProgress /\ TooLate /\ r \in RtRecord
  BY DEF RtInv, RecordTyped
<1>1. /\ "interval" \in Setting /\ "driver" \in Setting /\ "reconnect" \in Setting
      /\ appConfig \in Settings /\ applied \in Settings /\ DOMAIN rt = RtRequest
      /\ r = RtAt(r, r.pc, r.read)
  BY <1>0, SettingIs DEF PartsTyped, RecordTyped, RtRecord, RtAt
<1>2. ASSUME r.pc # "idle", NEW pc \in RtPlace \ {"idle", "assign"}, NEW read \in RtValue,
             Moved(rt, rt', q, RtAt(r, pc, read)), PartsTyped', untidy' = untidy,
             replaced' = replaced \ {q},
             r.alone => Achieved(pc, read, appConfig', applied', resetChan', ticker', anew')
      PROVE  RtInv'
  <2> DEFINE e == RtAt(r, pc, read)
  <2>1. e \in RtRecord /\ e.pc = pc /\ e.read = read /\ e.alone = r.alone
    BY <1>0, <1>2 DEF RtRecord, RtAt
  <2>2. rt' = [rt EXCEPT ![q] = e]
    <3>1. Moved(rt, rt', q, e) /\ rt \in [RtRequest -> RtRecord]
      BY <1>0, <1>2 DEF RecordTyped
    <3> HIDE DEF e
    <3> QED BY <3>1, MovedIs
  <2> HIDE DEF e
  <2> QED BY <1>2, <2>1, <2>2, MoveStep
<1>3. r.pc # "idle" /\ r.alone => Achieved(r.pc, r.read, appConfig, applied, resetChan, ticker, anew)
  BY <1>0 DEF RtProgress
<1>4. ASSUME NEW from \in RtPlace \ {"idle", "set_reconnect"}, NEW s \in Setting, NEW to \in RtPlace \ {"idle", "assign"},
             Read(q, from, s, to),
             Achieved(from, r.read, appConfig, applied, resetChan, ticker, anew)
               => Achieved(to, appConfig[s], appConfig, applied, resetChan, ticker, anew)
      PROVE  RtInv'
  <2>1. Moved(rt, rt', q, RtAt(r, to, appConfig[s]))
    BY <1>1, <1>4 DEF Read, Moved, RtAt
  <2>2. appConfig[s] \in RtValue /\ PartsTyped' /\ r.pc = from /\ untidy' = untidy
    BY <1>0, <1>1, <1>4 DEF Read, Settings, PartsTyped, adapterVars
  <2>3. UNCHANGED <<appConfig, applied, resetChan, ticker, anew, replaced>>
    BY <1>4 DEF Read, adapterVars
  <2>4. replaced' = replaced \ {q}
    BY <1>0, <1>4, <2>2, <2>3 DEF TooLate
  <2> QED BY <1>2, <1>3, <1>4, <2>1, <2>2, <2>3, <2>4
<1>5. ASSUME NEW from \in RtPlace \ {"idle", "set_reconnect"}, NEW s \in Setting \ {"reconnect"}, NEW to \in RtPlace \ {"idle", "assign"},
             HandOver(q, from, s, to),
             Achieved(from, r.read, appConfig, applied, resetChan, ticker, anew)
               => Achieved(to, r.read, appConfig, [applied EXCEPT ![s] = r.read], resetChan, ticker, anew)
      PROVE  RtInv'
  <2>1. Moved(rt, rt', q, RtAt(r, to, r.read))
    BY <1>1, <1>5 DEF HandOver, RtGoes, Moved, RtAt
  <2>2. r.read \in RtValue /\ r.pc = from /\ untidy' = untidy
    BY <1>0, <1>5 DEF HandOver, RtRecord
  <2>3. UNCHANGED <<appConfig, resetChan, ticker, anew, replaced>> /\ applied' = [applied EXCEPT ![s] = r.read]
    BY <1>5 DEF HandOver, adapterVars
  <2>4. PartsTyped'
    BY <1>0, <1>1, <2>2, <2>3 DEF PartsTyped, Settings
  <2>5. replaced' = replaced \ {q}
    BY <1>0, <1>5, <2>2, <2>3 DEF TooLate
  <2> QED BY <1>2, <1>3, <1>5, <2>1, <2>2, <2>3, <2>4, <2>5
<1>6. CASE ApplyCollectorRuntime(q) \/ ApplyDriverRuntime(q) \/ ApplyNorthboundRuntime(q)
  <2>1. /\ \A p \in {"read_interval", "read_driver", "read_reconnect"} : p \in RtPlace \ {"idle", "set_reconnect"}
        /\ \A p \in {"set_interval", "set_driver", "set_reconnect"} : p \in RtPlace \ {"idle", "assign"}
    BY DEF RtPlace
  <2>2. CASE ApplyCollectorRuntime(q)
    <3>1. Achieved("read_interval", r.read, appConfig, applied, resetChan, ticker, anew)
            => Achieved("set_interval", appConfig["interval"], appConfig, applied, resetChan, ticker, anew)
      BY DEF Achieved
    <3> QED BY <1>1, <1>4, <2>1, <2>2, <3>1 DEF ApplyCollectorRuntime
  <2>3. CASE ApplyDriverRuntime(q)
    <3>1. Achieved("read_driver", r.read, appConfig, applied, resetChan, ticker, anew)
            => Achieved("set_driver", appConfig["driver"], appConfig, applied, resetChan, ticker, anew)
      BY DEF Achieved
    <3> QED BY <1>1, <1>4, <2>1, <2>3, <3>1 DEF ApplyDriverRuntime
  <2>4. CASE ApplyNorthboundRuntime(q)
    <3>1. Achieved("read_reconnect", r.read, appConfig, applied, resetChan, ticker, anew)
            => Achieved("set_reconnect", appConfig["reconnect"], appConfig, applied, resetChan, ticker, anew)
      BY DEF Achieved
    <3> QED BY <1>1, <1>4, <2>1, <2>4, <3>1 DEF ApplyNorthboundRuntime
  <2> QED BY <1>6, <2>2, <2>3, <2>4
<1>7. CASE SetRuntimeIntervals(q) \/ SetTimeoutsAndRetries(q)
  <2>1. /\ \A p \in {"set_interval", "set_driver"} : p \in RtPlace \ {"idle", "set_reconnect"}
        /\ \A p \in {"notify", "read_reconnect"} : p \in RtPlace \ {"idle", "assign"}
    BY DEF RtPlace
  <2>0. \A s \in Setting : /\ [applied EXCEPT ![s] = r.read][s] = r.read
                           /\ \A x \in Setting : x # s => [applied EXCEPT ![s] = r.read][x] = applied[x]
    BY <1>1 DEF Settings
  <2>2. CASE SetRuntimeIntervals(q)
    <3>1. Achieved("set_interval", r.read, appConfig, applied, resetChan, ticker, anew)
            => Achieved("notify", r.read, appConfig, [applied EXCEPT !["interval"] = r.read], resetChan, ticker, anew)
      BY <1>1, <2>0 DEF Achieved
    <3> QED BY <1>1, <1>5, <2>1, <2>2, <3>1 DEF SetRuntimeIntervals
  <2>3. CASE SetTimeoutsAndRetries(q)
    <3>1. Achieved("set_driver", r.read, appConfig, applied, resetChan, ticker, anew)
            => Achieved("read_reconnect", r.read, appConfig, [applied EXCEPT !["driver"] = r.read], resetChan, ticker, anew)
      BY <1>1, <2>0 DEF Achieved
    <3> QED BY <1>1, <1>5, <2>1, <2>3, <3>1 DEF SetTimeoutsAndRetries
  <2> QED BY <1>7, <2>2, <2>3
<1>9. CASE SetReconnectInterval(q)
  <2>0. /\ r.pc = "set_reconnect" /\ RtGoes(q, "audit") /\ replaced' = replaced \ {q} /\ r.read \in RtValue
        /\ UNCHANGED <<appConfig, resetChan, ticker, untidy>>
    BY <1>0, <1>9 DEF SetReconnectInterval, RtRecord
  <2>1. Moved(rt, rt', q, RtAt(r, "audit", r.read))
    BY <1>1, <2>0 DEF RtGoes, Moved, RtAt
  <2>2. \/ q \in replaced /\ UNCHANGED <<applied, anew>>
        \/ applied' = [applied EXCEPT !["reconnect"] = r.read] /\ anew' = FALSE
    BY <1>9 DEF SetReconnectInterval
  <2>3. PartsTyped'
    <3>1. CASE q \in replaced /\ UNCHANGED <<applied, anew>>
      BY <1>0, <2>0, <3>1 DEF PartsTyped
    <3>2. CASE applied' = [applied EXCEPT !["reconnect"] = r.read] /\ anew' = FALSE
      <4>1. applied' \in Settings
        BY <1>1, <2>0, <3>2 DEF Settings
      <4> QED BY <1>0, <2>0, <3>2, <4>1 DEF PartsTyped
    <3> QED BY <2>2, <3>1, <3>2
  <2>4. r.alone => Achieved("audit", r.read, appConfig', applied', resetChan', ticker', anew')
    <3> SUFFICES ASSUME r.alone PROVE Achieved("audit", r.read, appConfig, applied', resetChan, ticker, anew')
      BY <2>0
    <3>1. Achieved("set_reconnect", r.read, appConfig, applied, resetChan, ticker, anew)
      BY <1>3, <2>0
    <3>2. CASE q \in replaced /\ UNCHANGED <<applied, anew>>
      BY <1>0, <3>1, <3>2 DEF TooLate, Achieved
    <3>3. CASE applied' = [applied EXCEPT !["reconnect"] = r.read] /\ anew' = FALSE
      <4>1. /\ applied'["reconnect"] = r.read /\ applied'["interval"] = applied["interval"]
            /\ applied'["driver"] = applied["driver"]
        BY <1>1, <3>3 DEF Settings
      <4> QED BY <3>1, <4>1 DEF Achieved
    <3> QED BY <2>2, <3>2, <3>3
  <2>5. "audit" \in RtPlace \ {"idle", "assign"}
    BY DEF RtPlace
  <2> QED BY <1>2, <2>0, <2>1, <2>3, <2>4, <2>5
<1>8. CASE Notify(q) \/ Drain(q) \/ NotifyAgain(q)
  <2>0. /\ UNCHANGED <<appConfig, applied, ticker, untidy, anew, replaced>> /\ r.read \in RtValue
        /\ r.pc \in {"notify", "drain", "again"}
    BY <1>0, <1>8 DEF Notify, Drain, NotifyAgain, RtRecord, adapterVars
  <2>1. PICK pc \in {"drain", "again", "read_driver"} :
          /\ RtGoes(q, pc)
          /\ (r.pc = "again" => resetChan = <<>>) =>
                /\ pc = "read_driver" => resetChan' = <<r.read>>
                /\ pc = "again" => resetChan' = <<>>
          /\ resetChan' \in {resetChan, <<>>, <<r.read>>}
    BY <1>8 DEF Notify, Drain, NotifyAgain, Refilled
  <2>2. Moved(rt, rt', q, RtAt(r, pc, r.read))
    BY <1>1, <2>1 DEF RtGoes, Moved, RtAt
  <2>3. PartsTyped'
    BY <1>0, <2>0, <2>1 DEF PartsTyped, Channel
  <2>4. r.alone => Achieved(pc, r.read, appConfig', applied', resetChan', ticker', anew')
    <3> SUFFICES ASSUME r.alone PROVE Achieved(pc, r.read, appConfig, applied, resetChan', ticker, anew)
      BY <2>0
    <3>1. Achieved(r.pc, r.read, appConfig, applied, resetChan, ticker, anew) /\ r.pc # "idle"
      BY <1>3, <2>0
    <3>2. r.read = appConfig["interval"] /\ applied["interval"] = appConfig["interval"]
          /\ (r.pc = "again" => resetChan = <<>>)
      BY <2>0, <3>1 DEF Achieved
    <3>3. pc = "again" => resetChan' = <<>>
      BY <2>1, <3>2
    <3>4. pc = "read_driver" => To(resetChan', ticker) = r.read
      <4> SUFFICES ASSUME pc = "read_driver" PROVE To(resetChan', ticker) = r.read
        OBVIOUS
      <4>1. resetChan' = <<r.read>>
        BY <2>1, <3>2
      <4>2. <<r.read>> # <<>> /\ Head(<<r.read>>) = r.read
        OBVIOUS
      <4> QED BY <4>1, <4>2 DEF To
    <3> QED BY <3>2, <3>3, <3>4 DEF Achieved
  <2>5. pc \in RtPlace \ {"idle", "assign"} /\ r.pc # "idle"
    BY <2>0 DEF RtPlace
  <2>6. replaced' = replaced \ {q}
    BY <1>0, <2>0 DEF TooLate
  <2> QED BY <1>2, <2>0, <2>2, <2>3, <2>4, <2>5, <2>6
<1> QED BY <1>6, <1>7, <1>8, <1>9

LEMMA AuditStep == ASSUME RtInv, NEW q \in RtRequest, RecordRuntimeConfigAudit(q) PROVE RtInv'
<1>0. /\ RecordTyped /\ PartsTyped /\ Solo /\ RtProgress /\ rt[q].pc = "audit" /\ rt[q].alone \in BOOLEAN
      /\ rt' = [rt EXCEPT ![q] = NoRequest] /\ untidy' = (untidy /\ ~rt[q].alone)
      /\ UNCHANGED <<appConfig, applied, resetChan, ticker, anew, replaced>>
  BY DEF RtInv, RecordRuntimeConfigAudit, RtEnds, RecordTyped, RtRecord, adapterVars
<1>1. ~untidy' => rt[q].alone
  BY <1>0 DEF Solo
<1>2. rt[q].alone => Synced
  <2> SUFFICES ASSUME rt[q].alone PROVE Synced
    OBVIOUS
  <2>1. Achieved("audit", rt[q].read, appConfig, applied, resetChan, ticker, anew)
    BY <1>0 DEF RtProgress
  <2>2. \A s \in Setting \ {"reconnect"} : applied[s] = appConfig[s]
    BY <2>1, SettingIs DEF Achieved
  <2>3. applied["reconnect"] = IF anew THEN BuiltIn ELSE appConfig["reconnect"]
    BY <1>0, <2>1 DEF PartsTyped, Achieved
  <2>4. To(resetChan, ticker) = applied["interval"]
    BY <2>1 DEF Achieved
  <2> QED BY <2>2, <2>3, <2>4 DEF Synced, Agrees
<1>3. untidy' \in BOOLEAN
  BY <1>0 DEF PartsTyped
<1> QED BY <1>0, <1>1, <1>2, <1>3, OverStep

LEMMA TickerStep == ASSUME RtInv, ResetTicker PROVE RtInv'
<1>0. /\ RecordTyped /\ PartsTyped /\ Solo /\ RtProgress /\ TooLate /\ Follows
      /\ resetChan # <<>> /\ ticker' = Head(resetChan) /\ resetChan' = <<>>
      /\ UNCHANGED <<appConfig, applied, rt, untidy, anew, replaced>>
  BY DEF RtInv, ResetTicker, adapterVars
<1>1. To(resetChan', ticker') = To(resetChan, ticker) /\ PartsTyped'
  BY <1>0 DEF To, PartsTyped, Channel
<1>2. \A pc, read, c, a, new : Achieved(pc, read, c, a, resetChan, ticker, new)
                                 => Achieved(pc, read, c, a, resetChan', ticker', new)
  BY <1>0, <1>1 DEF Achieved
<1> QED BY <1>0, <1>1, <1>2 DEF RtInv, RecordTyped, Solo, RtProgress, TooLate, Follows, Unchanged, Synced, Agrees

\* The adapter is made anew: nobody is left with an adapter to give an
\* interval to, and what was handed over to the others stays.
LEMMA RebuildStep == ASSUME RtInv, RebuildAdapter PROVE RtInv'
<1>0. /\ RecordTyped /\ PartsTyped /\ Solo /\ RtProgress /\ Follows /\ anew' = TRUE
      /\ applied' = [applied EXCEPT !["reconnect"] = BuiltIn]
      /\ replaced' = {q \in RtRequest : rt[q].pc = "set_reconnect"}
      /\ UNCHANGED <<appConfig, resetChan, ticker, rt, untidy>>
  BY DEF RtInv, RebuildAdapter
<1>1. /\ applied'["reconnect"] = BuiltIn /\ \A s \in Setting \ {"reconnect"} : applied'[s] = applied[s]
      /\ applied' \in Settings
  BY <1>0, SettingIs, RuntimeConfigAssumption DEF PartsTyped, Settings
<1>2. RecordTyped' /\ PartsTyped' /\ Solo' /\ TooLate'
  BY <1>0, <1>1 DEF RecordTyped, PartsTyped, Solo, TooLate
<1>3. RtProgress'
  BY <1>0, <1>1, SettingIs DEF RtProgress, Achieved
<1>4. Follows'
  BY <1>0, <1>1, SettingIs DEF Follows, Unchanged, Synced, Agrees
<1> QED BY <1>2, <1>3, <1>4 DEF RtInv

\* Once no request is under way, every part of the gateway runs with what the
\* configuration record says, and an adapter made since with the built-in
\* interval, unless requests overlapped or one was refused half way and none
\* has been accepted alone since - for any number of requests and of adapters
\* made anew, and however long the ticker's worker takes.
THEOREM SettingsKept == RuntimeConfigSpec => []SettingsFollow
<1>1. RuntimeConfigInit => RtInv
  BY RtInit
<1>2. RtInv /\ [RuntimeConfigNext]_RuntimeConfigVars => RtInv'
  <2> SUFFICES ASSUME RtInv, [RuntimeConfigNext]_RuntimeConfigVars PROVE RtInv'
    OBVIOUS
  <2>1. CASE UNCHANGED RuntimeConfigVars
    BY <2>1 DEF RuntimeConfigVars, adapterVars, RtInv, RecordTyped, PartsTyped, Solo, RtProgress, TooLate, Follows,
                     Unchanged, Synced, Agrees
  <2> QED BY <2>1, UpdateStep, AssignStep, HandStep, AuditStep, TickerStep, RebuildStep
         DEF RuntimeConfigNext
<1>3. RtInv => SettingsFollow
  BY RtSafe
<1> QED BY <1>1, <1>2, <1>3, PTL DEF RuntimeConfigSpec

-----------------------------------------------------------------------------
(* Northbound: what a request still has to do.                              *)

Step == [do : {"remove", "disable", "initialize", "register", "start", "missing", "insert", "save", "flag", "delete"},
         config : Config]
Then(what, c, rest) == <<Do(what, c)>> \o rest
Starting(c, rest) == Then("start", c, rest)
Registering(c, rest) == Then("register", c, Starting(c, rest))
Initializing(c, rest) == Then("initialize", c, Registering(c, rest))
Disabling(c, rest) == Then("disable", c, rest)
Rebuilding(c, rest) == Then("remove", c, IF c.enabled THEN Initializing(c, rest) ELSE Disabling(c, rest))

\* What adapters A, flags E and rows R say of a name and of a configuration.
Off(A, E, n) == A[n] = NoAdapter /\ E[n] = FALSE
Runs(A, E, c) ==
    IF c.enabled THEN A[c.name] = [version |-> c.version, started |-> TRUE] /\ E[c.name] = TRUE
    ELSE Off(A, E, c.name)
Holds(R, c) == c.id \in DOMAIN R /\ R[c.id] = c
Named(R, n) == {j \in DOMAIN R : R[j].name = n}
Right(A, E, R, n) ==
    /\ (\A j \in Named(R, n) : ~R[j].enabled) => Off(A, E, n)
    /\ \A j \in Named(R, n) : R[j].enabled => Runs(A, E, R[j])
Settled(A, E, R, X, N) == \A n \in N : n \in X \/ Right(A, E, R, n)

\* Where request r is, and, if it is alone, what that says of its names:
\* before its first step,
Waiting(A, E, R, X, r) ==
    /\ \/ r.op = "toggle" /\ r.todo = Then("flag", Flipped(r.old), Rebuilding(Flipped(r.old), <<>>))
       \/ r.op = "delete" /\ r.todo = Then("delete", r.old, Then("remove", r.old, <<>>))
       \/ r.op = "sync" /\ r.todo = Then("missing", r.old, <<>>)
    /\ ~r.undoing
    /\ r.clean => Holds(R, r.old) /\ Settled(A, E, R, X, r.names)

\* before it rebuilds or undoes anything,
Removing(A, E, R, r) ==
    \/ /\ ~r.undoing /\ r.op = "update" /\ r.old.name # r.new.name
       /\ r.todo = Then("remove", r.old, Rebuilding(r.new, Then("save", r.new, <<>>)))
       /\ r.clean => Holds(R, r.old)
    \/ /\ ~r.undoing /\ r.op = "delete" /\ r.todo = Then("remove", r.old, <<>>)
       /\ r.clean => r.old.id \notin DOMAIN R
    \/ r.undoing /\ r.op = "create" /\ r.todo = Then("remove", r.new, <<>>)
    \/ /\ r.undoing /\ r.op = "update" /\ r.todo = Then("remove", r.new, Rebuilding(r.old, <<>>))
       /\ r.clean => Holds(R, r.old)
    \/ /\ r.undoing /\ r.op = "toggle"
       /\ r.todo = Then("flag", r.old, Rebuilding(r.old, <<>>))
       /\ r.clean => Holds(R, Flipped(r.old))

\* or while it rebuilds the adapter of c, with rest to do after that.
Context(A, E, R, X, r, c, rest) ==
    \/ ~r.undoing /\ r.op = "create" /\ c = r.new /\ rest = Then("insert", r.new, <<>>)
    \/ /\ ~r.undoing /\ r.op = "update" /\ c = r.new /\ rest = Then("save", r.new, <<>>)
       /\ r.clean => Holds(R, r.old) /\ (r.old.name # r.new.name => Off(A, E, r.old.name))
    \/ /\ ~r.undoing /\ r.op = "toggle" /\ c = Flipped(r.old) /\ rest = <<>>
       /\ r.clean => Holds(R, c)
    \/ /\ ~r.undoing /\ r.op \in {"reload", "sync"} /\ c = r.old /\ rest = <<>>
       /\ r.clean => Holds(R, c)
    \/ /\ r.undoing /\ r.op = "update" /\ c = r.old /\ rest = <<>>
       /\ r.clean => Holds(R, c) /\ (r.old.name # r.new.name => Off(A, E, r.new.name))
    \/ /\ r.undoing /\ r.op = "toggle" /\ c = r.old /\ rest = <<>>
       /\ r.clean => Holds(R, c) \/ c.name \in X
Progress(A, E, r, c, rest) ==
    \/ r.todo = Rebuilding(c, rest)
    \/ /\ c.enabled /\ r.todo \in {Initializing(c, rest), Registering(c, rest)}
       /\ r.clean => Off(A, E, c.name)
    \/ /\ c.enabled /\ r.todo = Starting(c, rest)
       /\ r.clean => A[c.name] = [version |-> c.version, started |-> FALSE]
    \/ /\ ~c.enabled /\ r.todo = Disabling(c, rest)
       /\ r.clean => Off(A, E, c.name)
    \/ /\ rest # <<>> /\ r.todo = rest
       /\ r.clean => Runs(A, E, c)
Stage(A, E, R, X, r) ==
    \/ Waiting(A, E, R, X, r)
    \/ Removing(A, E, R, r)
    \/ \E c \in {r.old, r.new, Flipped(r.old)}, rest \in {<<>>, Then("insert", r.new, <<>>), Then("save", r.new, <<>>)} :
            Context(A, E, R, X, r, c, rest) /\ Progress(A, E, r, c, rest)

-----------------------------------------------------------------------------
Req == [op : Operation, old : Config, new : Config, todo : Seq(Step), names : SUBSET NbName,
        undoing : BOOLEAN, clean : BOOLEAN]
Wellformed(r) ==
    /\ r \in Req /\ r.todo # <<>> /\ r.names = {r.old.name, r.new.name} /\ r.old.id = r.new.id
    /\ r.op # "update" => r.new = r.old
RowsOK(R) ==
    /\ DOMAIN R \subseteq NbId
    /\ \A i \in DOMAIN R : R[i] \in Config /\ R[i].id = i
    /\ \A i, j \in DOMAIN R : R[i].name = R[j].name => i = j
AdaptersOK(A, E) ==
    /\ A \in [NbName -> [version : 0 .. MaxRequests, started : BOOLEAN] \cup {NoAdapter}]
    /\ E \in [NbName -> BOOLEAN]
\* A request that is clean shares neither row nor name with another.
Apart(r, p) == r.new.id # p.new.id /\ r.names \cap p.names = {}
\* A row that has a name a request wants, but is not the request's.
Alone(R, X, r) ==
    r.clean => \A j \in DOMAIN R : j # r.new.id /\ R[j].name \in r.names =>
        IF r.undoing THEN R[j].name \in X
        ELSE r.op \in {"create", "update"} /\ R[j].name = r.new.name
                /\ (r.op = "update" => R[j].name # r.old.name)

\* What the requests Q say of each other, of the rows and of the runtime.
Live(Q) == {q \in NbRequest : Q[q].op # "none"}
ClaimedBy(Q) == UNION {Q[q].names : q \in Live(Q)}
Requests(Q) ==
    /\ Q = [q \in NbRequest |-> Q[q]]
    /\ \A q \in NbRequest : Q[q] = NoNbRequest \/ Wellformed(Q[q])
Separate(Q) ==
    \A q, p \in Live(Q) : q # p =>
        /\ Q[q].clean => Apart(Q[q], Q[p])
        /\ Q[q].op = "create" /\ Q[p].op = "create" => Q[q].new.id # Q[p].new.id
Fresh(Q, R) == \A q \in Live(Q) : Q[q].op = "create" => Q[q].new.id \notin DOMAIN R
Covered(Q, R, X) ==
    \A q \in Live(Q) : Q[q].new.id \in DOMAIN R => R[Q[q].new.id].name \in X \cup ClaimedBy(Q)
Stages(Q, A, E, R, X) == \A q \in Live(Q) : Stage(A, E, R, X, Q[q]) /\ Alone(R, X, Q[q])
Outside(Q, A, E, R, X) == Settled(A, E, R, X, NbName \ ClaimedBy(Q))
World(Q, A, E, R, X) ==
    /\ Requests(Q) /\ RowsOK(R) /\ X \subseteq NbName
    /\ Separate(Q) /\ Fresh(Q, R) /\ Covered(Q, R, X) /\ Stages(Q, A, E, R, X) /\ Outside(Q, A, E, R, X)

\* The inductive invariant.
NbInv ==
    /\ World(nbRequest, nbAdapters, nbEnabled, nbRows, excused)
    /\ AdaptersOK(nbAdapters, nbEnabled) /\ nbRequests \in 0 .. MaxRequests
    /\ NoConnectionForgotten

Word == {"remove", "disable", "initialize", "register", "start", "missing", "insert", "save", "flag", "delete"}

LEMMA DoTyped ==
    ASSUME NEW what \in Word, NEW c \in Config
    PROVE  Do(what, c) \in Step /\ Do(what, c).do = what /\ Do(what, c).config = c
BY DEF Do, Step, Word

LEMMA Prepended ==
    ASSUME NEW x \in Step, NEW s \in Seq(Step)
    PROVE  /\ <<x>> \o s \in Seq(Step) /\ <<x>> \o s # <<>>
           /\ Head(<<x>> \o s) = x /\ Tail(<<x>> \o s) = s
<1>1. <<x>> \in Seq(Step) /\ Len(<<x>>) = 1 /\ <<x>>[1] = x
  OBVIOUS
<1>2. /\ <<x>> \o s \in Seq(Step) /\ Len(<<x>> \o s) = 1 + Len(s)
      /\ \A i \in 1 .. 1 + Len(s) : (<<x>> \o s)[i] = IF i <= 1 THEN x ELSE s[i - 1]
  <2>1. /\ <<x>> \o s \in Seq(Step) /\ Len(<<x>> \o s) = Len(<<x>>) + Len(s)
        /\ \A i \in 1 .. Len(<<x>>) + Len(s) : (<<x>> \o s)[i] = IF i <= Len(<<x>>) THEN <<x>>[i] ELSE s[i - Len(<<x>>)]
    BY <1>1, ConcatProperties
  <2>2. \A i \in 1 .. 1 + Len(s) : i <= 1 => i = 1
    BY LenProperties
  <2> QED BY <1>1, <2>1, <2>2
<1> DEFINE t == <<x>> \o s
<1>3. t \in Seq(Step) /\ Len(t) = 1 + Len(s) /\ \A i \in 1 .. 1 + Len(s) : t[i] = IF i <= 1 THEN x ELSE s[i - 1]
  BY <1>2
<1>4. Len(s) \in Nat
  BY LenProperties
<1>5. t # <<>>
  <2>1. Len(<<>>) = 0
    OBVIOUS
  <2> QED BY <1>3, <1>4, <2>1
<1> HIDE DEF t
<1>6. Head(t) = x
  <2>1. Head(t) = t[1]
    BY <1>3
  <2> QED BY <1>3, <1>4, <2>1
<1>7. Tail(t) = s
  <2>1. /\ Tail(t) \in Seq(Step) /\ Len(Tail(t)) = Len(t) - 1
        /\ \A i \in 1 .. Len(Tail(t)) : Tail(t)[i] = t[i + 1]
    BY <1>3, <1>5, HeadTailProperties
  <2>2. Len(Tail(t)) = Len(s)
    BY <1>3, <1>4, <2>1
  <2>3. \A i \in 1 .. Len(s) : Tail(t)[i] = s[i]
    <3> TAKE i \in 1 .. Len(s)
    <3>1. Tail(t)[i] = t[i + 1] /\ i + 1 \in 1 .. 1 + Len(s) /\ ~(i + 1 <= 1) /\ (i + 1) - 1 = i
      BY <1>4, <2>1, <2>2
    <3> QED BY <3>1, <1>3
  <2> QED BY <2>1, <2>2, <2>3, SeqEqual, Zenon
<1> QED BY <1>3, <1>5, <1>6, <1>7 DEF t

LEMMA ThenIs ==
    ASSUME NEW what \in Word, NEW c \in Config, NEW s \in Seq(Step)
    PROVE  /\ Then(what, c, s) \in Seq(Step) /\ Then(what, c, s) # <<>>
           /\ Head(Then(what, c, s)).do = what /\ Head(Then(what, c, s)).config = c
           /\ Tail(Then(what, c, s)) = s
<1>1. Do(what, c) \in Step /\ Do(what, c).do = what /\ Do(what, c).config = c
  BY DoTyped
<1> QED BY <1>1, Prepended, Zenon DEF Then

LEMMA ListsTyped ==
    ASSUME NEW c \in Config, NEW s \in Seq(Step)
    PROVE  /\ Starting(c, s) \in Seq(Step) /\ Registering(c, s) \in Seq(Step) /\ Initializing(c, s) \in Seq(Step)
           /\ Disabling(c, s) \in Seq(Step) /\ Rebuilding(c, s) \in Seq(Step)
<1>1. Starting(c, s) \in Seq(Step)
  BY ThenIs DEF Starting, Word
<1>2. Registering(c, s) \in Seq(Step)
  BY <1>1, ThenIs DEF Registering, Word
<1>3. Initializing(c, s) \in Seq(Step)
  BY <1>2, ThenIs DEF Initializing, Word
<1>4. Disabling(c, s) \in Seq(Step)
  BY ThenIs DEF Disabling, Word
<1>5. (IF c.enabled THEN Initializing(c, s) ELSE Disabling(c, s)) \in Seq(Step)
  BY <1>3, <1>4
<1>6. Rebuilding(c, s) \in Seq(Step)
  BY <1>5, ThenIs DEF Rebuilding, Word
<1> QED BY <1>1, <1>2, <1>3, <1>4, <1>6

\* What each list starts with, and what follows it.
LEMMA StartingIs ==
    ASSUME NEW c \in Config, NEW s \in Seq(Step)
    PROVE  /\ Starting(c, s) # <<>> /\ Head(Starting(c, s)).do = "start" /\ Head(Starting(c, s)).config = c
           /\ Tail(Starting(c, s)) = s
BY ThenIs DEF Starting, Word
LEMMA RegisteringIs ==
    ASSUME NEW c \in Config, NEW s \in Seq(Step)
    PROVE  /\ Registering(c, s) # <<>> /\ Head(Registering(c, s)).do = "register" /\ Head(Registering(c, s)).config = c
           /\ Tail(Registering(c, s)) = Starting(c, s)
<1>1. Starting(c, s) \in Seq(Step) /\ "register" \in Word
  BY ListsTyped DEF Word
<1> QED BY <1>1, ThenIs DEF Registering
LEMMA InitializingIs ==
    ASSUME NEW c \in Config, NEW s \in Seq(Step)
    PROVE  /\ Initializing(c, s) # <<>> /\ Head(Initializing(c, s)).do = "initialize" /\ Head(Initializing(c, s)).config = c
           /\ Tail(Initializing(c, s)) = Registering(c, s)
<1>1. Registering(c, s) \in Seq(Step) /\ "initialize" \in Word
  BY ListsTyped DEF Word
<1> QED BY <1>1, ThenIs DEF Initializing
LEMMA DisablingIs ==
    ASSUME NEW c \in Config, NEW s \in Seq(Step)
    PROVE  /\ Disabling(c, s) # <<>> /\ Head(Disabling(c, s)).do = "disable" /\ Head(Disabling(c, s)).config = c
           /\ Tail(Disabling(c, s)) = s
BY ThenIs DEF Disabling, Word
LEMMA RebuildingIs ==
    ASSUME NEW c \in Config, NEW s \in Seq(Step)
    PROVE  /\ Rebuilding(c, s) # <<>> /\ Head(Rebuilding(c, s)).do = "remove" /\ Head(Rebuilding(c, s)).config = c
           /\ Tail(Rebuilding(c, s)) = IF c.enabled THEN Initializing(c, s) ELSE Disabling(c, s)
<1> DEFINE t == IF c.enabled THEN Initializing(c, s) ELSE Disabling(c, s)
<1>1. t \in Seq(Step) /\ "remove" \in Word
  BY ListsTyped DEF Word
<1>2. Rebuilding(c, s) = Then("remove", c, t)
  BY DEF Rebuilding
<1>3. Then("remove", c, t) # <<>> /\ Head(Then("remove", c, t)).do = "remove"
      /\ Head(Then("remove", c, t)).config = c /\ Tail(Then("remove", c, t)) = t
  <2> HIDE DEF t
  <2> QED BY <1>1, ThenIs
<1> QED BY <1>2, <1>3

LEMMA StepsAssociate ==
    ASSUME NEW s \in Seq(Step), NEW t \in Seq(Step), NEW u \in Seq(Step)
    PROVE  (s \o t) \o u = s \o (t \o u)
BY ConcatAssociative

LEMMA Prefixed ==
    ASSUME NEW a \in Step, NEW s \in Seq(Step)
    PROVE  /\ <<a>> \o s \in Seq(Step) /\ Len(<<a>> \o s) = Len(s) + 1 /\ (<<a>> \o s)[1] = a
           /\ \A i \in 1 .. Len(s) : (<<a>> \o s)[i + 1] = s[i]
<1>1. <<a>> \in Seq(Step) /\ Len(<<a>>) = 1 /\ <<a>>[1] = a /\ Len(s) \in Nat
  BY LenProperties
<1> DEFINE t == <<a>> \o s
<1>2. /\ t \in Seq(Step) /\ Len(t) = 1 + Len(s)
      /\ \A i \in 1 .. 1 + Len(s) : t[i] = IF i <= 1 THEN <<a>>[i] ELSE s[i - 1]
  <2>1. /\ t \in Seq(Step) /\ Len(t) = Len(<<a>>) + Len(s)
        /\ \A i \in 1 .. Len(<<a>>) + Len(s) : t[i] = IF i <= Len(<<a>>) THEN <<a>>[i] ELSE s[i - Len(<<a>>)]
    BY <1>1, ConcatProperties
  <2> HIDE DEF t
  <2> QED BY <1>1, <2>1
<1> HIDE DEF t
<1>3. t[1] = a
  BY <1>1, <1>2
<1>4. \A i \in 1 .. Len(s) : t[i + 1] = s[i]
  <2> TAKE i \in 1 .. Len(s)
  <2>1. i + 1 \in 1 .. 1 + Len(s) /\ ~(i + 1 <= 1) /\ (i + 1) - 1 = i
    BY <1>1
  <2> QED BY <2>1, <1>2
<1> QED BY <1>1, <1>2, <1>3, <1>4 DEF t

LEMMA Prefixed2 ==
    ASSUME NEW a \in Step, NEW s \in Seq(Step), Len(s) = 2
    PROVE  LET t == <<a>> \o s IN t \in Seq(Step) /\ Len(t) = 3 /\ t[1] = a /\ t[2] = s[1] /\ t[3] = s[2]
<1> DEFINE t == <<a>> \o s
<1>1. t \in Seq(Step) /\ Len(t) = Len(s) + 1 /\ t[1] = a /\ \A i \in 1 .. Len(s) : t[i + 1] = s[i]
  BY Prefixed
<1> HIDE DEF t
<1>2. t[1 + 1] = s[1] /\ t[2 + 1] = s[2] /\ Len(t) = 3
  BY <1>1
<1> QED BY <1>1, <1>2 DEF t
LEMMA Prefixed3 ==
    ASSUME NEW a \in Step, NEW s \in Seq(Step), Len(s) = 3
    PROVE  LET t == <<a>> \o s IN t \in Seq(Step) /\ Len(t) = 4 /\ t[1] = a /\ t[2] = s[1] /\ t[3] = s[2] /\ t[4] = s[3]
<1> DEFINE t == <<a>> \o s
<1>1. t \in Seq(Step) /\ Len(t) = Len(s) + 1 /\ t[1] = a /\ \A i \in 1 .. Len(s) : t[i + 1] = s[i]
  BY Prefixed
<1> HIDE DEF t
<1>2. t[1 + 1] = s[1] /\ t[2 + 1] = s[2] /\ t[3 + 1] = s[3] /\ Len(t) = 4
  BY <1>1
<1> QED BY <1>1, <1>2 DEF t

LEMMA Singles ==
    ASSUME NEW S, NEW a \in S, NEW b \in S
    PROVE  <<a, b>> = <<a>> \o <<b>>
<1>1. <<a>> \in Seq(S) /\ <<b>> \in Seq(S) /\ <<a, b>> \in Seq(S) /\ Len(<<a, b>>) = 2 /\ Len(<<a>>) = 1 /\ Len(<<b>>) = 1
  OBVIOUS
<1>2. /\ <<a>> \o <<b>> \in Seq(S) /\ Len(<<a>> \o <<b>>) = 2
      /\ \A i \in 1 .. 2 : (<<a>> \o <<b>>)[i] = IF i <= 1 THEN <<a>>[i] ELSE <<b>>[i - 1]
  <2>1. /\ <<a>> \o <<b>> \in Seq(S) /\ Len(<<a>> \o <<b>>) = Len(<<a>>) + Len(<<b>>)
        /\ \A i \in 1 .. Len(<<a>>) + Len(<<b>>) : (<<a>> \o <<b>>)[i] =
              IF i <= Len(<<a>>) THEN <<a>>[i] ELSE <<b>>[i - Len(<<a>>)]
    BY <1>1, ConcatProperties
  <2> QED BY <1>1, <2>1
<1> DEFINE t == <<a>> \o <<b>>
<1>3. t \in Seq(S) /\ Len(t) = 2 /\ \A i \in 1 .. 2 : t[i] = IF i <= 1 THEN <<a>>[i] ELSE <<b>>[i - 1]
  BY <1>2
<1> HIDE DEF t
<1>4. t[1] = a /\ t[2] = b
  BY <1>3
<1>5. \A i \in 1 .. 2 : t[i] = <<a, b>>[i]
  BY <1>4
<1>6. t = <<a, b>>
  BY <1>1, <1>3, <1>5, SeqEqual
<1> QED BY <1>6 DEF t

\* The lists of the operations.
LEMMA RebuildIs ==
    ASSUME NEW c \in Config, NEW s \in Seq(Step)
    PROVE  Rebuild(c) \o s = Rebuilding(c, s)
<1> DEFINE a == Do("remove", c)
           b == Do("initialize", c)
           d == Do("register", c)
           e == Do("start", c)
           f == Do("disable", c)
<1>1. a \in Step /\ b \in Step /\ d \in Step /\ e \in Step /\ f \in Step
  BY DoTyped DEF Word
<1> HIDE DEF a, b, d, e, f
<1>0. <<a>> \in Seq(Step) /\ <<b>> \in Seq(Step) /\ <<d>> \in Seq(Step) /\ <<e>> \in Seq(Step) /\ <<f>> \in Seq(Step)
  BY <1>1
<1>2. CASE c.enabled
  <2>1. <<a, b, d, e>> = <<a>> \o (<<b>> \o (<<d>> \o <<e>>))
    <3> DEFINE u == <<d>> \o <<e>>
               v == <<b>> \o u
               w == <<a, b, d, e>>
    <3>1. u = <<d, e>>
      BY <1>1, Singles
    <3>2. u \in Seq(Step) /\ Len(u) = 2 /\ u[1] = d /\ u[2] = e
      BY <1>1, <3>1
    <3>3. w \in Seq(Step) /\ Len(w) = 4 /\ w[1] = a /\ w[2] = b /\ w[3] = d /\ w[4] = e
      BY <1>1
    <3> HIDE DEF u, w
    <3>4. v \in Seq(Step) /\ Len(v) = 3 /\ v[1] = b /\ v[2] = d /\ v[3] = e
      BY <1>1, <3>2, Prefixed2
    <3> HIDE DEF v
    <3> DEFINE z == <<a>> \o v
    <3>5. z \in Seq(Step) /\ Len(z) = 4 /\ z[1] = a /\ z[2] = b /\ z[3] = d /\ z[4] = e
      BY <1>1, <3>4, Prefixed3
    <3> HIDE DEF z
    <3>6. \A i \in 1 .. 4 : z[i] = w[i]
      BY <3>3, <3>5
    <3>7. z = w
      BY <3>3, <3>5, <3>6, SeqEqual
    <3> QED BY <3>7 DEF z, w, v, u
  <2>2. <<d>> \o <<e>> \in Seq(Step) /\ <<b>> \o (<<d>> \o <<e>>) \in Seq(Step)
    BY <1>0, ConcatProperties
  <2>3. (<<a>> \o (<<b>> \o (<<d>> \o <<e>>))) \o s = <<a>> \o ((<<b>> \o (<<d>> \o <<e>>)) \o s)
    BY <1>0, <2>2, StepsAssociate
  <2>4. (<<b>> \o (<<d>> \o <<e>>)) \o s = <<b>> \o ((<<d>> \o <<e>>) \o s)
    BY <1>0, <2>2, StepsAssociate
  <2>5. (<<d>> \o <<e>>) \o s = <<d>> \o (<<e>> \o s)
    BY <1>0, <2>2, StepsAssociate
  <2>6. <<a, b, d, e>> \o s = <<a>> \o (<<b>> \o (<<d>> \o (<<e>> \o s)))
    BY <2>1, <2>3, <2>4, <2>5, Zenon
  <2>7. Rebuild(c) = <<a, b, d, e>>
    BY <1>2 DEF Rebuild, a, b, d, e
  <2>8. Rebuilding(c, s) = <<a>> \o (<<b>> \o (<<d>> \o (<<e>> \o s)))
    BY <1>2 DEF Rebuilding, Initializing, Registering, Starting, Then, a, b, d, e
  <2> QED BY <2>6, <2>7, <2>8, Zenon
<1>3. CASE ~c.enabled
  <2>1. <<a, f>> = <<a>> \o <<f>>
    BY <1>1, Singles
  <2>2. (<<a>> \o <<f>>) \o s = <<a>> \o (<<f>> \o s)
    BY <1>0, StepsAssociate
  <2>7. Rebuild(c) = <<a, f>>
    BY <1>3 DEF Rebuild, a, f
  <2>8. Rebuilding(c, s) = <<a>> \o (<<f>> \o s)
    BY <1>3 DEF Rebuilding, Disabling, Then, a, f
  <2> QED BY <2>1, <2>2, <2>7, <2>8, Zenon
<1> QED BY <1>2, <1>3

LEMMA RebuildAlone == ASSUME NEW c \in Config PROVE Rebuild(c) \in Seq(Step) /\ Rebuild(c) = Rebuilding(c, <<>>)
<1>1. Rebuild(c) \in Seq(Step)
  <2>1. \A w \in Word : Do(w, c) \in Step
    BY DoTyped
  <2> QED BY <2>1 DEF Rebuild, Word
<1>2. Rebuild(c) \o <<>> = Rebuild(c)
  BY <1>1, ConcatEmptySeq
<1>3. <<>> \in Seq(Step)
  OBVIOUS
<1> QED BY <1>1, <1>2, <1>3, RebuildIs
LEMMA ThenLast == ASSUME NEW what \in Word, NEW c \in Config PROVE <<Do(what, c)>> = Then(what, c, <<>>)
<1>1. Do(what, c) \in Step
  BY DoTyped
<1>2. <<Do(what, c)>> \in Seq(Step)
  BY <1>1
<1>3. <<Do(what, c)>> \o <<>> = <<Do(what, c)>>
  BY <1>2, ConcatEmptySeq
<1> QED BY <1>3 DEF Then

-----------------------------------------------------------------------------
(* One request, whatever the others do.                                     *)

Same(r, p) ==
    /\ p.op = r.op /\ p.old = r.old /\ p.new = r.new /\ p.names = r.names
    /\ p.undoing = r.undoing /\ p.clean = r.clean
Onward(r, s) == [r EXCEPT !.todo = s]
EndX(X, r) == IF r.clean /\ ~r.undoing THEN X \ r.names ELSE X \cup (IF r.clean THEN {} ELSE r.names)
\* The request with todo s left, or its names without it.
After(A, E, R, X, r, s) ==
    IF s # <<>> THEN Stage(A, E, R, X, Onward(r, s)) ELSE Settled(A, E, R, EndX(X, r), r.names)
Own(R, X, r) ==
    /\ Wellformed(r) /\ RowsOK(R) /\ X \subseteq NbName /\ Alone(R, X, r)
    /\ (r.op = "create" => r.new.id \notin DOMAIN R)

LEMMA ReqFields ==
    ASSUME NEW r, Wellformed(r)
    PROVE  /\ r.op \in Operation /\ r.old \in Config /\ r.new \in Config /\ r.todo \in Seq(Step)
           /\ r.names \subseteq NbName /\ r.undoing \in BOOLEAN /\ r.clean \in BOOLEAN /\ r.todo # <<>>
           /\ r.names = {r.old.name, r.new.name} /\ r.old.id = r.new.id
           /\ (r.op # "update" => r.new = r.old)
BY DEF Wellformed, Req

LEMMA FlippedIs ==
    ASSUME NEW c \in Config
    PROVE  /\ Flipped(c) \in Config /\ Flipped(c).id = c.id /\ Flipped(c).name = c.name
           /\ Flipped(c).version = c.version /\ (Flipped(c).enabled <=> ~c.enabled)
BY DEF Config, Flipped

LEMMA OnwardIs ==
    ASSUME NEW r, Wellformed(r), NEW s \in Seq(Step), s # <<>>
    PROVE  Wellformed(Onward(r, s)) /\ Same(r, Onward(r, s)) /\ Onward(r, s).todo = s
<1>1. r \in Req
  BY DEF Wellformed
<1>2. Onward(r, s) \in Req /\ Onward(r, s).todo = s
  BY <1>1 DEF Onward, Req
<1>3. Same(r, Onward(r, s))
  BY <1>1 DEF Onward, Req, Same
<1> QED BY <1>2, <1>3 DEF Wellformed, Same

LEMMA LastIs ==
    ASSUME NEW what \in Word, NEW c \in Config
    PROVE  /\ Then(what, c, <<>>) \in Seq(Step) /\ Then(what, c, <<>>) # <<>>
           /\ Head(Then(what, c, <<>>)).do = what /\ Head(Then(what, c, <<>>)).config = c
           /\ Tail(Then(what, c, <<>>)) = <<>>
<1>1. <<>> \in Seq(Step)
  OBVIOUS
<1>2. PICK s \in Seq(Step) : s = <<>>
  <2> WITNESS <<>> \in Seq(Step)
  <2> QED OBVIOUS
<1>3. /\ Then(what, c, s) \in Seq(Step) /\ Then(what, c, s) # <<>>
      /\ Head(Then(what, c, s)).do = what /\ Head(Then(what, c, s)).config = c
      /\ Tail(Then(what, c, s)) = s
  BY ThenIs
<1> QED BY <1>2, <1>3

\* The first of what is left to do.
LEMMA WaitingHead ==
    ASSUME NEW A, NEW E, NEW R, NEW X, NEW r, Wellformed(r), Waiting(A, E, R, X, r)
    PROVE  /\ \/ /\ r.op = "toggle" /\ Head(r.todo).do = "flag" /\ Head(r.todo).config = Flipped(r.old)
                 /\ Tail(r.todo) = Rebuilding(Flipped(r.old), <<>>)
              \/ /\ r.op = "delete" /\ Head(r.todo).do = "delete" /\ Head(r.todo).config = r.old
                 /\ Tail(r.todo) = Then("remove", r.old, <<>>)
              \/ /\ r.op = "sync" /\ Head(r.todo).do = "missing" /\ Head(r.todo).config = r.old
                 /\ Tail(r.todo) = <<>>
           /\ ~r.undoing
           /\ r.clean => Holds(R, r.old) /\ Settled(A, E, R, X, r.names)
<1>1. r.old \in Config /\ Flipped(r.old) \in Config /\ <<>> \in Seq(Step)
  BY ReqFields, FlippedIs
<1>2. Rebuilding(Flipped(r.old), <<>>) \in Seq(Step) /\ Then("remove", r.old, <<>>) \in Seq(Step)
  BY <1>1, ListsTyped, ThenIs DEF Word
<1>0. \A w \in Word, c \in Config, s \in Seq(Step) :
        Head(Then(w, c, s)).do = w /\ Head(Then(w, c, s)).config = c /\ Tail(Then(w, c, s)) = s
  BY ThenIs
<1>8. /\ Head(Then("missing", r.old, <<>>)).do = "missing" /\ Head(Then("missing", r.old, <<>>)).config = r.old
      /\ Tail(Then("missing", r.old, <<>>)) = <<>>
  BY <1>1, LastIs DEF Word
<1>9. "flag" \in Word /\ "delete" \in Word
  BY DEF Word
<1>3. CASE r.op = "toggle" /\ r.todo = Then("flag", Flipped(r.old), Rebuilding(Flipped(r.old), <<>>))
  BY <1>0, <1>1, <1>2, <1>3, <1>9 DEF Waiting
<1>4. CASE r.op = "delete" /\ r.todo = Then("delete", r.old, Then("remove", r.old, <<>>))
  BY <1>0, <1>1, <1>2, <1>4, <1>9 DEF Waiting
<1>5. CASE r.op = "sync" /\ r.todo = Then("missing", r.old, <<>>)
  BY <1>5, <1>8 DEF Waiting
<1> QED BY <1>3, <1>4, <1>5 DEF Waiting

LEMMA RemovingHead ==
    ASSUME NEW A, NEW E, NEW R, NEW r, Wellformed(r), Removing(A, E, R, r)
    PROVE  \/ /\ ~r.undoing /\ r.op = "update" /\ r.old.name # r.new.name
              /\ Head(r.todo).do = "remove" /\ Head(r.todo).config = r.old
              /\ Tail(r.todo) = Rebuilding(r.new, Then("save", r.new, <<>>))
              /\ r.clean => Holds(R, r.old)
           \/ /\ ~r.undoing /\ r.op = "delete" /\ Head(r.todo).do = "remove" /\ Head(r.todo).config = r.old
              /\ Tail(r.todo) = <<>>
              /\ r.clean => r.old.id \notin DOMAIN R
           \/ /\ r.undoing /\ r.op = "create" /\ Head(r.todo).do = "remove" /\ Head(r.todo).config = r.new
              /\ Tail(r.todo) = <<>>
           \/ /\ r.undoing /\ r.op = "update" /\ Head(r.todo).do = "remove" /\ Head(r.todo).config = r.new
              /\ Tail(r.todo) = Rebuilding(r.old, <<>>)
              /\ r.clean => Holds(R, r.old)
           \/ /\ r.undoing /\ r.op = "toggle" /\ Head(r.todo).do = "flag" /\ Head(r.todo).config = r.old
              /\ Tail(r.todo) = Rebuilding(r.old, <<>>)
              /\ r.clean => Holds(R, Flipped(r.old))
<1>1. r.old \in Config /\ r.new \in Config /\ <<>> \in Seq(Step)
  BY ReqFields
<1>2. Then("save", r.new, <<>>) \in Seq(Step)
  BY <1>1, LastIs DEF Word
<1>3. Rebuilding(r.old, <<>>) \in Seq(Step) /\ Rebuilding(r.new, Then("save", r.new, <<>>)) \in Seq(Step)
  BY <1>1, <1>2, ListsTyped
<1>4. \A w \in Word, c \in Config, s \in Seq(Step) :
        Head(Then(w, c, s)).do = w /\ Head(Then(w, c, s)).config = c /\ Tail(Then(w, c, s)) = s
  BY ThenIs
<1>5. "remove" \in Word /\ "flag" \in Word
  BY DEF Word
<1>11. \A c \in Config : Head(Then("remove", c, <<>>)).do = "remove" /\ Head(Then("remove", c, <<>>)).config = c
            /\ Tail(Then("remove", c, <<>>)) = <<>>
  BY <1>5, LastIs
<1>6. CASE ~r.undoing /\ r.op = "update" /\ r.old.name # r.new.name
           /\ r.todo = Then("remove", r.old, Rebuilding(r.new, Then("save", r.new, <<>>)))
           /\ (r.clean => Holds(R, r.old))
  BY <1>1, <1>3, <1>4, <1>5, <1>6
<1>7. CASE ~r.undoing /\ r.op = "delete" /\ r.todo = Then("remove", r.old, <<>>)
           /\ (r.clean => r.old.id \notin DOMAIN R)
  BY <1>1, <1>7, <1>11
<1>8. CASE r.undoing /\ r.op = "create" /\ r.todo = Then("remove", r.new, <<>>)
  BY <1>1, <1>8, <1>11
<1>9. CASE r.undoing /\ r.op = "update" /\ r.todo = Then("remove", r.new, Rebuilding(r.old, <<>>))
           /\ (r.clean => Holds(R, r.old))
  BY <1>1, <1>3, <1>4, <1>5, <1>9
<1>10. CASE r.undoing /\ r.op = "toggle" /\ r.todo = Then("flag", r.old, Rebuilding(r.old, <<>>))
           /\ (r.clean => Holds(R, Flipped(r.old)))
  BY <1>1, <1>3, <1>4, <1>5, <1>10
<1> QED BY <1>6, <1>7, <1>8, <1>9, <1>10 DEF Removing

Rests(r) == {<<>>, Then("insert", r.new, <<>>), Then("save", r.new, <<>>)}
LEMMA RestsTyped ==
    ASSUME NEW r, Wellformed(r)
    PROVE  /\ Rests(r) \subseteq Seq(Step)
           /\ \A s \in Rests(r) : s # <<>> => /\ Head(s).do \in {"insert", "save"} /\ Head(s).config = r.new
                                             /\ Tail(s) = <<>> /\ s = Then(Head(s).do, r.new, <<>>)
<1>1. r.new \in Config /\ <<>> \in Seq(Step) /\ "insert" \in Word /\ "save" \in Word
  BY ReqFields DEF Word
<1>2. /\ Then("insert", r.new, <<>>) \in Seq(Step) /\ Head(Then("insert", r.new, <<>>)).do = "insert"
      /\ Head(Then("insert", r.new, <<>>)).config = r.new /\ Tail(Then("insert", r.new, <<>>)) = <<>>
  BY <1>1, LastIs
<1>3. /\ Then("save", r.new, <<>>) \in Seq(Step) /\ Head(Then("save", r.new, <<>>)).do = "save"
      /\ Head(Then("save", r.new, <<>>)).config = r.new /\ Tail(Then("save", r.new, <<>>)) = <<>>
  BY <1>1, LastIs
<1> QED BY <1>1, <1>2, <1>3 DEF Rests

LEMMA ProgressHead ==
    ASSUME NEW A, NEW E, NEW r, Wellformed(r), NEW c \in Config, NEW rest \in Rests(r), Progress(A, E, r, c, rest)
    PROVE  \/ /\ Head(r.todo).do = "remove" /\ Head(r.todo).config = c
              /\ Tail(r.todo) = IF c.enabled THEN Initializing(c, rest) ELSE Disabling(c, rest)
           \/ /\ c.enabled /\ Head(r.todo).do = "initialize" /\ Head(r.todo).config = c
              /\ Tail(r.todo) = Registering(c, rest) /\ (r.clean => Off(A, E, c.name))
           \/ /\ c.enabled /\ Head(r.todo).do = "register" /\ Head(r.todo).config = c
              /\ Tail(r.todo) = Starting(c, rest) /\ (r.clean => Off(A, E, c.name))
           \/ /\ c.enabled /\ Head(r.todo).do = "start" /\ Head(r.todo).config = c /\ Tail(r.todo) = rest
              /\ r.clean => A[c.name] = [version |-> c.version, started |-> FALSE]
           \/ /\ ~c.enabled /\ Head(r.todo).do = "disable" /\ Head(r.todo).config = c /\ Tail(r.todo) = rest
              /\ r.clean => Off(A, E, c.name)
           \/ /\ rest # <<>> /\ r.todo = rest /\ Head(r.todo).do \in {"insert", "save"} /\ Head(r.todo).config = r.new
              /\ Tail(r.todo) = <<>> /\ (r.clean => Runs(A, E, c))
<1>1. rest \in Seq(Step)
  BY RestsTyped
<1>2. CASE r.todo = Rebuilding(c, rest)
  BY <1>1, <1>2, RebuildingIs
<1>3. CASE c.enabled /\ r.todo = Initializing(c, rest) /\ (r.clean => Off(A, E, c.name))
  BY <1>1, <1>3, InitializingIs
<1>4. CASE c.enabled /\ r.todo = Registering(c, rest) /\ (r.clean => Off(A, E, c.name))
  BY <1>1, <1>4, RegisteringIs
<1>5. CASE c.enabled /\ r.todo = Starting(c, rest) /\ (r.clean => A[c.name] = [version |-> c.version, started |-> FALSE])
  BY <1>1, <1>5, StartingIs
<1>6. CASE ~c.enabled /\ r.todo = Disabling(c, rest) /\ (r.clean => Off(A, E, c.name))
  BY <1>1, <1>6, DisablingIs
<1>7. CASE rest # <<>> /\ r.todo = rest /\ (r.clean => Runs(A, E, c))
  BY <1>7, RestsTyped
<1> QED BY <1>2, <1>3, <1>4, <1>5, <1>6, <1>7 DEF Progress

\* Only the runtime of name n changes.
OnlyOf(A, E, B, F, n) == \A m \in NbName \ {n} : B[m] = A[m] /\ F[m] = E[m]

LEMMA HoldsRight ==
    ASSUME NEW A, NEW E, NEW R, NEW c \in Config, RowsOK(R), Holds(R, c), Runs(A, E, c)
    PROVE  Right(A, E, R, c.name)
<1>1. \A j \in Named(R, c.name) : j = c.id /\ R[j] = c
  BY DEF RowsOK, Holds, Named
<1>2. c.id \in Named(R, c.name)
  BY DEF Holds, Named
<1>3. (\A j \in Named(R, c.name) : ~R[j].enabled) => ~c.enabled
  BY <1>1, <1>2
<1>4. ~c.enabled => Off(A, E, c.name)
  BY DEF Runs
<1>5. \A j \in Named(R, c.name) : R[j].enabled => Runs(A, E, R[j])
  BY <1>1
<1> QED BY <1>3, <1>4, <1>5 DEF Right

LEMMA NoRowRight ==
    ASSUME NEW A, NEW E, NEW R, NEW n, Off(A, E, n), \A j \in DOMAIN R : R[j].name # n
    PROVE  Right(A, E, R, n)
BY DEF Right, Named

LEMMA OffKept ==
    ASSUME NEW A, NEW E, NEW B, NEW F, NEW n \in NbName, NEW m \in NbName, OnlyOf(A, E, B, F, n), Off(B, F, n), Off(A, E, m)
    PROVE  Off(B, F, m)
BY DEF OnlyOf, Off

LEMMA ContextKept ==
    ASSUME NEW A, NEW E, NEW B, NEW F, NEW R, NEW X, NEW r, NEW p, NEW c \in Config, NEW rest,
           Wellformed(r), Same(r, p), OnlyOf(A, E, B, F, c.name), Context(A, E, R, X, r, c, rest)
    PROVE  Context(B, F, R, X, p, c, rest)
<1>1. /\ p.op = r.op /\ p.old = r.old /\ p.new = r.new /\ p.names = r.names
      /\ p.undoing = r.undoing /\ p.clean = r.clean
  BY DEF Same
<1>2. r.old.name \in NbName /\ r.new.name \in NbName
  BY ReqFields DEF Config
<1>3. c = r.new /\ r.old.name # r.new.name /\ Off(A, E, r.old.name) => Off(B, F, r.old.name)
  BY <1>2 DEF OnlyOf, Off
<1>4. c = r.old /\ r.old.name # r.new.name /\ Off(A, E, r.new.name) => Off(B, F, r.new.name)
  BY <1>2 DEF OnlyOf, Off
<1>5. CASE ~r.undoing /\ r.op = "create" /\ c = r.new /\ rest = Then("insert", r.new, <<>>)
  BY <1>1, <1>5 DEF Context
<1>6. CASE /\ ~r.undoing /\ r.op = "update" /\ c = r.new /\ rest = Then("save", r.new, <<>>)
           /\ r.clean => Holds(R, r.old) /\ (r.old.name # r.new.name => Off(A, E, r.old.name))
  BY <1>1, <1>3, <1>6 DEF Context
<1>7. CASE /\ ~r.undoing /\ r.op = "toggle" /\ c = Flipped(r.old) /\ rest = <<>>
           /\ r.clean => Holds(R, c)
  BY <1>1, <1>7 DEF Context
<1>8. CASE /\ ~r.undoing /\ r.op \in {"reload", "sync"} /\ c = r.old /\ rest = <<>>
           /\ r.clean => Holds(R, c)
  BY <1>1, <1>8 DEF Context
<1>9. CASE /\ r.undoing /\ r.op = "update" /\ c = r.old /\ rest = <<>>
           /\ r.clean => Holds(R, c) /\ (r.old.name # r.new.name => Off(A, E, r.new.name))
  BY <1>1, <1>4, <1>9 DEF Context
<1>10. CASE /\ r.undoing /\ r.op = "toggle" /\ c = r.old /\ rest = <<>>
            /\ r.clean => Holds(R, c) \/ c.name \in X
  <2>1. /\ p.undoing /\ p.op = "toggle" /\ c = p.old /\ rest = <<>>
        /\ p.clean => Holds(R, c) \/ c.name \in X
    BY <1>1, <1>10, Zenon
  <2> QED BY <2>1, Zenon DEF Context
<1> QED BY <1>5, <1>6, <1>7, <1>8, <1>9, <1>10 DEF Context

LEMMA RebuildStage ==
    ASSUME NEW A, NEW E, NEW R, NEW X, NEW r, NEW c \in {r.old, r.new, Flipped(r.old)}, NEW rest \in Rests(r),
           Context(A, E, R, X, r, c, rest), Progress(A, E, r, c, rest)
    PROVE  Stage(A, E, R, X, r)
BY DEF Stage, Rests

\* A request whose runtime is rebuilt and that has nothing else to do is over.
LEMMA RebuiltEnds ==
    ASSUME NEW A, NEW E, NEW R, NEW X, NEW r, NEW c \in Config,
           Own(R, X, r), Context(A, E, R, X, r, c, <<>>), r.clean => Runs(A, E, c)
    PROVE  Settled(A, E, R, EndX(X, r), r.names)
<1>1. /\ Wellformed(r) /\ RowsOK(R) /\ Alone(R, X, r) /\ r.old \in Config /\ r.new \in Config
      /\ r.names = {r.old.name, r.new.name} /\ r.old.id = r.new.id /\ (r.op # "update" => r.new = r.old)
  BY ReqFields DEF Own
<1>2. CASE ~r.clean
  BY <1>2 DEF EndX, Settled
<1>3. CASE r.clean /\ ~r.undoing
  <2>1. Holds(R, c) /\ c.name = r.old.name /\ r.names = {c.name}
    <3>1. /\ Then("insert", r.new, <<>>) # <<>> /\ Then("save", r.new, <<>>) # <<>>
      BY <1>1, LastIs DEF Word
    <3>2. \/ r.op = "toggle" /\ c = Flipped(r.old) /\ Holds(R, c)
          \/ r.op \in {"reload", "sync"} /\ c = r.old /\ Holds(R, c)
      BY <1>3, <3>1 DEF Context
    <3> QED BY <1>1, <3>2, FlippedIs
  <2>2. Right(A, E, R, c.name)
    BY <1>1, <1>3, <2>1, HoldsRight
  <2> QED BY <2>1, <2>2 DEF Settled
<1>4. CASE r.clean /\ r.undoing
  <2>1. EndX(X, r) = X
    BY <1>4 DEF EndX
  <2>2. CASE /\ r.op = "update" /\ c = r.old /\ Holds(R, c)
             /\ r.old.name # r.new.name => Off(A, E, r.new.name)
    <3>1. Right(A, E, R, r.old.name)
      BY <1>1, <1>4, <2>2, HoldsRight
    <3>2. r.new.name # r.old.name => r.new.name \in X \/ Right(A, E, R, r.new.name)
      <4>1. CASE \E j \in DOMAIN R : j # r.new.id /\ R[j].name = r.new.name
        BY <1>1, <1>4, <4>1 DEF Alone
      <4>2. CASE ~\E j \in DOMAIN R : j # r.new.id /\ R[j].name = r.new.name
        <5>1. r.new.name # r.old.name => \A j \in DOMAIN R : R[j].name # r.new.name
          BY <1>1, <2>2, <4>2 DEF Holds
        <5> QED BY <2>2, <5>1, NoRowRight
      <4> QED BY <4>1, <4>2
    <3> QED BY <1>1, <2>1, <3>1, <3>2 DEF Settled
  <2>3. CASE r.op = "toggle" /\ c = r.old /\ (Holds(R, c) \/ c.name \in X)
    <3>1. Holds(R, c) => Right(A, E, R, c.name)
      BY <1>1, <1>4, HoldsRight
    <3>2. r.names = {c.name}
      BY <1>1, <2>3
    <3> QED BY <2>1, <2>3, <3>1, <3>2 DEF Settled
  <2> QED BY <1>4, <2>2, <2>3 DEF Context
<1> QED BY <1>2, <1>3, <1>4

\* The rebuilding of c goes on.
LEMMA Rebuilds ==
    ASSUME NEW A, NEW E, NEW B, NEW F, NEW R, NEW X, NEW r, Own(R, X, r),
           NEW c \in {r.old, r.new, Flipped(r.old)}, NEW rest \in Rests(r),
           Context(A, E, R, X, r, c, rest), OnlyOf(A, E, B, F, c.name),
           NEW s \in Seq(Step), s # <<>>, Progress(B, F, Onward(r, s), c, rest)
    PROVE  After(B, F, R, X, r, s)
<1>1. Wellformed(r) /\ c \in Config
  BY ReqFields, FlippedIs DEF Own
<1>2. Wellformed(Onward(r, s)) /\ Same(r, Onward(r, s))
  BY <1>1, OnwardIs
<1>3. Context(B, F, R, X, Onward(r, s), c, rest)
  BY <1>1, <1>2, ContextKept
<1>4. /\ c \in {Onward(r, s).old, Onward(r, s).new, Flipped(Onward(r, s).old)} /\ rest \in Rests(Onward(r, s))
  BY <1>2 DEF Same, Rests
<1>5. Stage(B, F, R, X, Onward(r, s))
  BY <1>3, <1>4, RebuildStage
<1> QED BY <1>5 DEF After

LEMMA RebuildingTyped ==
    ASSUME NEW c \in Config, NEW s \in Seq(Step)
    PROVE  Rebuilding(c, s) \in Seq(Step) /\ Rebuilding(c, s) # <<>>
<1>1. Rebuilding(c, s) \in Seq(Step)
  BY ListsTyped
<1>2. Rebuilding(c, s) # <<>>
  BY RebuildingIs
<1> QED BY <1>1, <1>2
LEMMA RebuildTyped == ASSUME NEW c \in Config PROVE Rebuilding(c, <<>>) \in Seq(Step) /\ Rebuilding(c, <<>>) # <<>>
<1>1. <<>> \in Seq(Step)
  OBVIOUS
<1>2. PICK s \in Seq(Step) : s = <<>>
  <2> WITNESS <<>> \in Seq(Step)
  <2> QED OBVIOUS
<1>3. Rebuilding(c, s) \in Seq(Step) /\ Rebuilding(c, s) # <<>>
  BY RebuildingTyped
<1> QED BY <1>2, <1>3
LEMMA AfterRemove ==
    ASSUME NEW c \in Config, NEW s \in Seq(Step), NEW t, t = IF c.enabled THEN Initializing(c, s) ELSE Disabling(c, s)
    PROVE  t \in Seq(Step) /\ t # <<>>
<1>1. Initializing(c, s) \in Seq(Step) /\ Disabling(c, s) \in Seq(Step)
  BY ListsTyped
<1>2. Initializing(c, s) # <<>>
  BY InitializingIs
<1>3. Disabling(c, s) # <<>>
  BY DisablingIs
<1> QED BY <1>1, <1>2, <1>3

LEMMA RebuildingPicked ==
    ASSUME NEW A, NEW E, NEW R, NEW X, NEW r, Wellformed(r), Stage(A, E, R, X, r),
           Head(r.todo).do \in {"initialize", "register", "start", "disable", "insert", "save"}
    PROVE  \E c \in {r.old, r.new, Flipped(r.old)} : \E rest \in Rests(r) :
                Context(A, E, R, X, r, c, rest) /\ Progress(A, E, r, c, rest)
<1>1. ~Waiting(A, E, R, X, r)
  BY WaitingHead
<1>2. ~Removing(A, E, R, r)
  BY RemovingHead
<1> QED BY <1>1, <1>2 DEF Stage, Rests

\* Unregister.
LEMMA UnregisterOwn ==
    ASSUME NEW A, NEW E, NEW B, NEW F, NEW R, NEW X, NEW r, Own(R, X, r), Stage(A, E, R, X, r),
           Head(r.todo).do = "remove", NEW n, n = Head(r.todo).config.name, OnlyOf(A, E, B, F, n), Off(B, F, n)
    PROVE  After(B, F, R, X, r, Tail(r.todo))
<1>1. /\ Wellformed(r) /\ RowsOK(R) /\ Alone(R, X, r) /\ r.old \in Config /\ r.new \in Config
      /\ r.names = {r.old.name, r.new.name} /\ r.old.id = r.new.id /\ (r.op # "update" => r.new = r.old)
      /\ r.old.name \in NbName /\ r.new.name \in NbName
      /\ (r.op = "create" => r.new.id \notin DOMAIN R)
  BY ReqFields DEF Own, Config
<1>2. ~Waiting(A, E, R, X, r)
  BY <1>1, WaitingHead
<1>3. CASE Removing(A, E, R, r)
  <2>0. /\ <<>> \in Seq(Step) /\ Then("save", r.new, <<>>) \in Seq(Step)
        /\ Then("save", r.new, <<>>) \in Rests(r) /\ <<>> \in Rests(r)
    BY <1>1, LastIs DEF Word, Rests
  <2>1. CASE /\ ~r.undoing /\ r.op = "update" /\ r.old.name # r.new.name /\ Head(r.todo).config = r.old
             /\ Tail(r.todo) = Rebuilding(r.new, Then("save", r.new, <<>>))
             /\ r.clean => Holds(R, r.old)
    <3> DEFINE s == Tail(r.todo)
               p == Onward(r, s)
               rest == Then("save", r.new, <<>>)
    <3>1. s = Rebuilding(r.new, rest) /\ s # <<>> /\ s \in Seq(Step)
      <4>1. s = Rebuilding(r.new, rest)
        BY <2>1
      <4>2. Rebuilding(r.new, rest) \in Seq(Step) /\ Rebuilding(r.new, rest) # <<>>
        BY <1>1, <2>0, RebuildingTyped
      <4> QED BY <4>1, <4>2
    <3>2. Wellformed(p) /\ Same(r, p) /\ p.todo = s
      BY <1>1, <3>1, OnwardIs
    <3> HIDE DEF s, p
    <3>3. Context(B, F, R, X, p, r.new, rest)
      BY <1>1, <2>1, <3>2 DEF Context, Same
    <3>4. Progress(B, F, p, r.new, rest)
      BY <3>1, <3>2 DEF Progress
    <3>5. r.new \in {p.old, p.new, Flipped(p.old)} /\ rest \in Rests(p)
      BY <2>0, <3>2 DEF Same, Rests
    <3>6. Stage(B, F, R, X, p)
      BY <3>3, <3>4, <3>5, RebuildStage
    <3> QED BY <3>1, <3>6 DEF After, p, s
  <2>2. CASE /\ ~r.undoing /\ r.op = "delete" /\ Head(r.todo).config = r.old
             /\ Tail(r.todo) = <<>>
             /\ r.clean => r.old.id \notin DOMAIN R
    <3>1. r.clean => \A j \in DOMAIN R : R[j].name # n
      BY <1>1, <2>2 DEF Alone
    <3>2. r.clean => Right(B, F, R, n)
      BY <3>1, NoRowRight
    <3>3. r.names = {n}
      BY <1>1, <2>2
    <3>4. Settled(B, F, R, EndX(X, r), r.names)
      BY <3>2, <3>3 DEF Settled, EndX
    <3> QED BY <2>2, <3>4 DEF After
  <2>3. CASE r.undoing /\ r.op = "create" /\ Head(r.todo).config = r.new /\ Tail(r.todo) = <<>>
    <3>1. r.names = {n}
      BY <1>1, <2>3
    <3>2. r.clean => n \in X \/ \A j \in DOMAIN R : R[j].name # n
      BY <1>1, <2>3, <3>1 DEF Alone
    <3>3. r.clean => n \in X \/ Right(B, F, R, n)
      BY <3>2, NoRowRight
    <3>4. Settled(B, F, R, EndX(X, r), r.names)
      BY <2>3, <3>1, <3>3 DEF Settled, EndX
    <3> QED BY <2>3, <3>4 DEF After
  <2>4. CASE /\ r.undoing /\ r.op = "update" /\ Head(r.todo).config = r.new
             /\ Tail(r.todo) = Rebuilding(r.old, <<>>)
             /\ r.clean => Holds(R, r.old)
    <3> DEFINE s == Tail(r.todo)
               p == Onward(r, s)
    <3>1. s = Rebuilding(r.old, <<>>) /\ s # <<>> /\ s \in Seq(Step)
      BY <1>1, <2>4, RebuildTyped
    <3>2. Wellformed(p) /\ Same(r, p) /\ p.todo = s
      BY <1>1, <3>1, OnwardIs
    <3> HIDE DEF s, p
    <3>3. Context(B, F, R, X, p, r.old, <<>>)
      BY <1>1, <2>4, <3>2 DEF Context, Same
    <3>4. Progress(B, F, p, r.old, <<>>)
      BY <3>1, <3>2 DEF Progress
    <3>5. r.old \in {p.old, p.new, Flipped(p.old)} /\ <<>> \in Rests(p)
      BY <2>0, <3>2 DEF Same, Rests
    <3>6. Stage(B, F, R, X, p)
      BY <3>3, <3>4, <3>5, RebuildStage
    <3> QED BY <3>1, <3>6 DEF After, p, s
  <2> QED BY <1>1, <1>3, <2>1, <2>2, <2>3, <2>4, RemovingHead
<1>4. CASE ~Removing(A, E, R, r)
  <2>1. PICK c \in {r.old, r.new, Flipped(r.old)} : \E rest \in Rests(r) :
            Context(A, E, R, X, r, c, rest) /\ Progress(A, E, r, c, rest)
    BY <1>2, <1>4 DEF Stage, Rests
  <2>2. PICK rest \in Rests(r) : Context(A, E, R, X, r, c, rest) /\ Progress(A, E, r, c, rest)
    BY <2>1
  <2>3. c \in Config /\ rest \in Seq(Step)
    BY <1>1, FlippedIs, RestsTyped
  <2> DEFINE s == Tail(r.todo)
             p == Onward(r, s)
  <2>4. Head(r.todo).config = c /\ s = IF c.enabled THEN Initializing(c, rest) ELSE Disabling(c, rest)
    BY <1>1, <2>2, <2>3, ProgressHead
  <2>5. s \in Seq(Step) /\ s # <<>>
    BY <2>3, <2>4, AfterRemove
  <2>6. Same(r, p) /\ p.todo = s
    BY <1>1, <2>5, OnwardIs
  <2> HIDE DEF s
  <2>7. Progress(B, F, p, c, rest)
    <3> HIDE DEF p
    <3> QED BY <2>4, <2>6 DEF Progress
  <2>8. After(B, F, R, X, r, s)
    BY <2>2, <2>4, <2>5, <2>7, Rebuilds
  <2> QED BY <2>8 DEF s
<1> QED BY <1>3, <1>4

\* Between two steps of a rebuilding, and after its last.
LEMMA RebuildLast ==
    ASSUME NEW A, NEW E, NEW B, NEW F, NEW R, NEW X, NEW r, Own(R, X, r),
           NEW c \in {r.old, r.new, Flipped(r.old)}, NEW rest \in Rests(r),
           Context(A, E, R, X, r, c, rest), OnlyOf(A, E, B, F, c.name), r.clean => Runs(B, F, c)
    PROVE  After(B, F, R, X, r, rest)
<1>1. Wellformed(r) /\ c \in Config /\ rest \in Seq(Step)
  BY ReqFields, FlippedIs, RestsTyped DEF Own
<1>2. CASE rest # <<>>
  <2> DEFINE p == Onward(r, rest)
  <2>1. Same(r, p) /\ p.todo = rest
    BY <1>1, <1>2, OnwardIs
  <2>2. Progress(B, F, p, c, rest)
    <3> HIDE DEF p
    <3>1. p.clean => Runs(B, F, c)
      BY <2>1 DEF Same
    <3> QED BY <1>2, <2>1, <3>1 DEF Progress
  <2> QED BY <1>1, <1>2, <2>2, Rebuilds
<1>3. CASE rest = <<>>
  <2>1. Same(r, r)
    BY DEF Same
  <2>2. Context(B, F, R, X, r, c, <<>>)
    BY <1>1, <1>3, <2>1, ContextKept
  <2>3. Settled(B, F, R, EndX(X, r), r.names)
    BY <1>1, <2>2, RebuiltEnds
  <2> QED BY <1>3, <2>3 DEF After
<1> QED BY <1>2, <1>3

LEMMA InitializeOwn ==
    ASSUME NEW A, NEW E, NEW R, NEW X, NEW r, Own(R, X, r), Stage(A, E, R, X, r), Head(r.todo).do = "initialize"
    PROVE  After(A, E, R, X, r, Tail(r.todo))
<1>1. Wellformed(r)
  BY DEF Own
<1>2. PICK c \in {r.old, r.new, Flipped(r.old)} : \E rest \in Rests(r) :
        Context(A, E, R, X, r, c, rest) /\ Progress(A, E, r, c, rest)
  BY <1>1, RebuildingPicked
<1>3. PICK rest \in Rests(r) : Context(A, E, R, X, r, c, rest) /\ Progress(A, E, r, c, rest)
  BY <1>2
<1>4. c \in Config /\ rest \in Seq(Step)
  BY <1>1, ReqFields, FlippedIs, RestsTyped
<1> DEFINE s == Tail(r.todo)
           p == Onward(r, s)
<1>5. c.enabled /\ s = Registering(c, rest) /\ (r.clean => Off(A, E, c.name))
  BY <1>1, <1>3, <1>4, ProgressHead
<1>6. s \in Seq(Step) /\ s # <<>>
  <2>1. Registering(c, rest) \in Seq(Step)
    BY <1>4, ListsTyped
  <2>2. Registering(c, rest) # <<>>
    BY <1>4, RegisteringIs
  <2> QED BY <1>5, <2>1, <2>2
<1>7. Same(r, p) /\ p.todo = s
  BY <1>1, <1>6, OnwardIs
<1> HIDE DEF s
<1>8. Progress(A, E, p, c, rest)
  <2> HIDE DEF p
  <2>1. p.clean => Off(A, E, c.name)
    BY <1>5, <1>7 DEF Same
  <2> QED BY <1>5, <1>7, <2>1 DEF Progress
<1>9. OnlyOf(A, E, A, E, c.name)
  BY DEF OnlyOf
<1>10. After(A, E, R, X, r, s)
  BY <1>3, <1>6, <1>8, <1>9, Rebuilds
<1> QED BY <1>10 DEF s

LEMMA RegisterOwn ==
    ASSUME NEW A, NEW E, NEW B, NEW F, NEW R, NEW X, NEW r, Own(R, X, r), Stage(A, E, R, X, r),
           Head(r.todo).do = "register", NEW d, d = Head(r.todo).config, OnlyOf(A, E, B, F, d.name),
           B[d.name] = [version |-> d.version, started |-> FALSE]
    PROVE  After(B, F, R, X, r, Tail(r.todo))
<1>1. Wellformed(r)
  BY DEF Own
<1>2. PICK c \in {r.old, r.new, Flipped(r.old)} : \E rest \in Rests(r) :
        Context(A, E, R, X, r, c, rest) /\ Progress(A, E, r, c, rest)
  BY <1>1, RebuildingPicked
<1>3. PICK rest \in Rests(r) : Context(A, E, R, X, r, c, rest) /\ Progress(A, E, r, c, rest)
  BY <1>2
<1>4. c \in Config /\ rest \in Seq(Step)
  BY <1>1, ReqFields, FlippedIs, RestsTyped
<1> DEFINE s == Tail(r.todo)
           p == Onward(r, s)
<1>5. c.enabled /\ s = Starting(c, rest) /\ c = d
  BY <1>1, <1>3, <1>4, ProgressHead
<1>6. s \in Seq(Step) /\ s # <<>>
  <2>1. Starting(c, rest) \in Seq(Step)
    BY <1>4, ListsTyped
  <2>2. Starting(c, rest) # <<>>
    BY <1>4, StartingIs
  <2> QED BY <1>5, <2>1, <2>2
<1>7. Same(r, p) /\ p.todo = s
  BY <1>1, <1>6, OnwardIs
<1> HIDE DEF s
<1>8. Progress(B, F, p, c, rest)
  <2> HIDE DEF p
  <2> QED BY <1>5, <1>7 DEF Progress
<1>10. After(B, F, R, X, r, s)
  BY <1>3, <1>5, <1>6, <1>8, Rebuilds
<1> QED BY <1>10 DEF s

LEMMA StartedIs ==
    ASSUME NEW v, NEW a, NEW b
    PROVE  [[version |-> v, started |-> a] EXCEPT !.started = b] = [version |-> v, started |-> b]
OBVIOUS

LEMMA StartOwn ==
    ASSUME NEW A, NEW E, NEW B, NEW F, NEW R, NEW X, NEW r, Own(R, X, r), Stage(A, E, R, X, r),
           Head(r.todo).do = "start", NEW n, n = Head(r.todo).config.name, OnlyOf(A, E, B, F, n),
           F[n] = TRUE, A[n] # NoAdapter => B[n] = [A[n] EXCEPT !.started = TRUE]
    PROVE  After(B, F, R, X, r, Tail(r.todo))
<1>1. Wellformed(r)
  BY DEF Own
<1>2. PICK c \in {r.old, r.new, Flipped(r.old)} : \E rest \in Rests(r) :
        Context(A, E, R, X, r, c, rest) /\ Progress(A, E, r, c, rest)
  BY <1>1, RebuildingPicked
<1>3. PICK rest \in Rests(r) : Context(A, E, R, X, r, c, rest) /\ Progress(A, E, r, c, rest)
  BY <1>2
<1>4. c \in Config
  BY <1>1, ReqFields, FlippedIs
<1>5. /\ c.enabled /\ Tail(r.todo) = rest /\ c.name = n
      /\ r.clean => A[n] = [version |-> c.version, started |-> FALSE]
  BY <1>1, <1>3, <1>4, ProgressHead
<1>6. [version |-> c.version, started |-> FALSE] # NoAdapter
  <2>1. c.version # -1
    BY <1>4, NorthboundAssumption DEF Config
  <2> QED BY <2>1 DEF NoAdapter
<1>7. r.clean => B[n] = [version |-> c.version, started |-> TRUE]
  <2> SUFFICES ASSUME r.clean PROVE B[n] = [version |-> c.version, started |-> TRUE]
    OBVIOUS
  <2>1. A[n] = [version |-> c.version, started |-> FALSE]
    BY <1>5
  <2>2. B[n] = [A[n] EXCEPT !.started = TRUE]
    BY <1>6, <2>1
  <2>3. B[n] = [[version |-> c.version, started |-> FALSE] EXCEPT !.started = TRUE]
    BY <2>1, <2>2, Zenon
  <2>4. [[version |-> c.version, started |-> FALSE] EXCEPT !.started = TRUE] = [version |-> c.version, started |-> TRUE]
    <3> DEFINE on == TRUE
               off == FALSE
    <3> HIDE DEF on, off
    <3>1. [[version |-> c.version, started |-> off] EXCEPT !.started = on] = [version |-> c.version, started |-> on]
      BY StartedIs
    <3> QED BY <3>1 DEF on, off
  <2> QED BY <2>3, <2>4, Zenon
<1>8. r.clean => Runs(B, F, c)
  BY <1>5, <1>7 DEF Runs
<1>9. OnlyOf(A, E, B, F, c.name)
  BY <1>5
<1>10. After(B, F, R, X, r, rest)
  <2>1. Own(R, X, r) /\ Context(A, E, R, X, r, c, rest)
    BY <1>3
  <2> QED BY ONLY c \in {r.old, r.new, Flipped(r.old)}, rest \in Rests(r), <1>8, <1>9, <2>1, RebuildLast
<1> QED BY <1>5, <1>10

LEMMA DisableOwn ==
    ASSUME NEW A, NEW E, NEW B, NEW F, NEW R, NEW X, NEW r, Own(R, X, r), Stage(A, E, R, X, r),
           Head(r.todo).do = "disable", NEW n, n = Head(r.todo).config.name, OnlyOf(A, E, B, F, n),
           F[n] = FALSE, A[n] = NoAdapter => B[n] = NoAdapter
    PROVE  After(B, F, R, X, r, Tail(r.todo))
<1>1. Wellformed(r)
  BY DEF Own
<1>2. PICK c \in {r.old, r.new, Flipped(r.old)} : \E rest \in Rests(r) :
        Context(A, E, R, X, r, c, rest) /\ Progress(A, E, r, c, rest)
  BY <1>1, RebuildingPicked
<1>3. PICK rest \in Rests(r) : Context(A, E, R, X, r, c, rest) /\ Progress(A, E, r, c, rest)
  BY <1>2
<1>4. c \in Config
  BY <1>1, ReqFields, FlippedIs
<1>5. ~c.enabled /\ Tail(r.todo) = rest /\ c.name = n /\ (r.clean => Off(A, E, n))
  BY <1>1, <1>3, <1>4, ProgressHead
<1>8. r.clean => Runs(B, F, c)
  BY <1>5 DEF Runs, Off
<1> QED BY <1>3, <1>5, <1>8, RebuildLast

\* A sync whose adapter is there, and one whose adapter is not.
LEMMA MissingOwn ==
    ASSUME NEW A, NEW E, NEW R, NEW X, NEW r, Own(R, X, r), Stage(A, E, R, X, r), Head(r.todo).do = "missing"
    PROVE  /\ Settled(A, E, R, X \cup (IF r.clean THEN {} ELSE r.names), r.names)
           /\ Head(r.todo).config = r.old /\ r.op = "sync" /\ ~r.undoing
           /\ Stage(A, E, R, X, Onward(r, Rebuild(r.old))) /\ Rebuild(r.old) # <<>> /\ Rebuild(r.old) \in Seq(Step)
<1>1. Wellformed(r) /\ r.old \in Config
  BY ReqFields DEF Own
<1>2. Waiting(A, E, R, X, r)
  <2>1. ~Removing(A, E, R, r)
    BY <1>1, RemovingHead
  <2>2. ASSUME NEW c \in {r.old, r.new, Flipped(r.old)}, NEW rest \in Rests(r), Progress(A, E, r, c, rest)
        PROVE  FALSE
    <3>1. c \in Config
      BY <1>1, ReqFields, FlippedIs
    <3> QED BY <1>1, <2>2, <3>1, ProgressHead
  <2> QED BY <2>1, <2>2 DEF Stage, Rests
<1>3. /\ r.op = "sync" /\ Head(r.todo).config = r.old /\ ~r.undoing
      /\ r.clean => Holds(R, r.old) /\ Settled(A, E, R, X, r.names)
  BY <1>1, <1>2, WaitingHead
<1>4. Rebuild(r.old) = Rebuilding(r.old, <<>>) /\ Rebuild(r.old) # <<>> /\ Rebuild(r.old) \in Seq(Step)
  BY <1>1, RebuildAlone, RebuildTyped
<1> DEFINE p == Onward(r, Rebuild(r.old))
<1>5. Same(r, p) /\ p.todo = Rebuild(r.old)
  BY <1>1, <1>4, OnwardIs
<1>6. Stage(A, E, R, X, p)
  <2> HIDE DEF p
  <2>1. p.clean => Holds(R, r.old)
    BY <1>3, <1>5 DEF Same
  <2>2. Context(A, E, R, X, p, r.old, <<>>)
    BY <1>3, <1>5, <2>1 DEF Context, Same
  <2>3. Progress(A, E, p, r.old, <<>>)
    BY <1>4, <1>5 DEF Progress
  <2>4. r.old \in {p.old, p.new, Flipped(p.old)} /\ <<>> \in Rests(p)
    BY <1>5 DEF Same, Rests
  <2> QED BY <2>2, <2>3, <2>4, RebuildStage
<1>7. Settled(A, E, R, X \cup (IF r.clean THEN {} ELSE r.names), r.names)
  BY <1>3 DEF Settled
<1> QED BY <1>3, <1>4, <1>6, <1>7

\* Statements.
With(R, i, c) == [j \in DOMAIN R \cup {i} |-> IF j = i THEN c ELSE R[j]]

LEMMA WithRows ==
    ASSUME NEW R, RowsOK(R), NEW c \in Config, \A j \in DOMAIN R : j # c.id => R[j].name # c.name
    PROVE  RowsOK(With(R, c.id, c)) /\ Holds(With(R, c.id, c), c)
<1> DEFINE S == With(R, c.id, c)
<1>1. DOMAIN S = DOMAIN R \cup {c.id} /\ S[c.id] = c /\ (\A j \in DOMAIN R : j # c.id => S[j] = R[j])
  BY DEF With
<1> HIDE DEF S
<1>2. c.id \in NbId
  BY DEF Config
<1>3. RowsOK(S)
  BY <1>1, <1>2 DEF RowsOK
<1>4. Holds(S, c)
  BY <1>1 DEF Holds
<1> QED BY <1>3, <1>4 DEF S

LEMMA FlagIs ==
    ASSUME NEW o \in Config, NEW c \in Config
    PROVE  /\ [o EXCEPT !.enabled = c.enabled] \in Config
           /\ [o EXCEPT !.enabled = c.enabled].id = o.id /\ [o EXCEPT !.enabled = c.enabled].name = o.name
           /\ c = Flipped(o) => [o EXCEPT !.enabled = c.enabled] = c
           /\ o = Flipped(c) => [o EXCEPT !.enabled = c.enabled] = c
<1> DEFINE e == c.enabled
           f == [o EXCEPT !.enabled = e]
<1>1. e \in BOOLEAN /\ o.enabled \in BOOLEAN
  BY DEF Config
<1> HIDE DEF e
<1>2. f \in Config /\ f.id = o.id /\ f.name = o.name /\ f.version = o.version /\ f.enabled = e
  BY <1>1 DEF Config
<1> HIDE DEF f
<1>3. ASSUME NEW d \in Config, f.id = d.id, f.name = d.name, f.version = d.version, f.enabled = d.enabled
      PROVE  f = d
  BY <1>2, <1>3 DEF Config
<1>4. c = Flipped(o) => f = c
  <2>1. c = Flipped(o) => f.id = c.id /\ f.name = c.name /\ f.version = c.version /\ f.enabled = c.enabled
    BY <1>2, FlippedIs DEF e
  <2> QED BY <2>1, <1>3
<1>5. o = Flipped(c) => f = c
  <2>1. o = Flipped(c) => f.id = c.id /\ f.name = c.name /\ f.version = c.version /\ f.enabled = c.enabled
    BY <1>2, FlippedIs DEF e
  <2> QED BY <2>1, <1>3
<1> QED BY <1>2, <1>4, <1>5 DEF f, e

LEMMA ProgressRest ==
    ASSUME NEW A, NEW E, NEW r, Wellformed(r), NEW c \in Config, NEW rest \in Rests(r), Progress(A, E, r, c, rest),
           Head(r.todo).do \in {"insert", "save"}
    PROVE  rest # <<>> /\ r.todo = rest /\ (r.clean => Runs(A, E, c))
<1>1. rest \in Seq(Step)
  BY RestsTyped
<1>2. r.todo # Rebuilding(c, rest)
  BY <1>1, RebuildingIs
<1>3. r.todo # Initializing(c, rest)
  BY <1>1, InitializingIs
<1>4. r.todo # Registering(c, rest)
  BY <1>1, RegisteringIs
<1>5. r.todo # Starting(c, rest)
  BY <1>1, StartingIs
<1>6. r.todo # Disabling(c, rest)
  BY <1>1, DisablingIs
<1> QED BY <1>2, <1>3, <1>4, <1>5, <1>6 DEF Progress

LEMMA RestHead ==
    ASSUME NEW A, NEW E, NEW R, NEW X, NEW r, Wellformed(r), Stage(A, E, R, X, r),
           Head(r.todo).do \in {"insert", "save"}
    PROVE  /\ ~r.undoing /\ Head(r.todo).config = r.new /\ Tail(r.todo) = <<>> /\ (r.clean => Runs(A, E, r.new))
           /\ Head(r.todo).do = "insert" => r.op = "create"
           /\ Head(r.todo).do = "save" =>
                /\ r.op = "update"
                /\ r.clean => Holds(R, r.old) /\ (r.old.name # r.new.name => Off(A, E, r.old.name))
<1>1. PICK c \in {r.old, r.new, Flipped(r.old)} : \E rest \in Rests(r) :
        Context(A, E, R, X, r, c, rest) /\ Progress(A, E, r, c, rest)
  BY RebuildingPicked
<1>2. PICK rest \in Rests(r) : Context(A, E, R, X, r, c, rest) /\ Progress(A, E, r, c, rest)
  BY <1>1
<1>3. c \in Config
  BY ReqFields, FlippedIs
<1>4. /\ rest # <<>> /\ r.todo = rest /\ Head(r.todo).config = r.new /\ Tail(r.todo) = <<>>
      /\ r.clean => Runs(A, E, c)
  <2>1. Wellformed(r) /\ Progress(A, E, r, c, rest)
    BY <1>2
  <2>2. rest # <<>> /\ r.todo = rest /\ (r.clean => Runs(A, E, c))
    BY <1>3, <2>1, ProgressRest
  <2>3. Head(rest).config = r.new /\ Tail(rest) = <<>>
    BY <2>1, <2>2, RestsTyped
  <2> QED BY <2>2, <2>3
<1>5. r.new \in Config /\ "insert" \in Word /\ "save" \in Word
  BY ReqFields DEF Word
<1>6. Head(Then("insert", r.new, <<>>)).do = "insert" /\ Head(Then("save", r.new, <<>>)).do = "save"
  BY <1>5, LastIs
<1>7. CASE ~r.undoing /\ r.op = "create" /\ c = r.new /\ rest = Then("insert", r.new, <<>>)
  BY <1>4, <1>6, <1>7
<1>8. CASE /\ ~r.undoing /\ r.op = "update" /\ c = r.new /\ rest = Then("save", r.new, <<>>)
           /\ r.clean => Holds(R, r.old) /\ (r.old.name # r.new.name => Off(A, E, r.old.name))
  BY <1>4, <1>6, <1>8
<1> QED BY <1>2, <1>4, <1>7, <1>8 DEF Context

LEMMA InsertOwn ==
    ASSUME NEW A, NEW E, NEW R, NEW X, NEW r, Own(R, X, r), Stage(A, E, R, X, r), Head(r.todo).do = "insert",
           \A j \in DOMAIN R : R[j].name # r.new.name
    PROVE  After(A, E, With(R, r.new.id, r.new), X, r, Tail(r.todo))
<1>1. Wellformed(r) /\ RowsOK(R) /\ r.new \in Config /\ r.names = {r.old.name, r.new.name} /\ (r.op # "update" => r.new = r.old)
  BY ReqFields DEF Own
<1>2. r.op = "create" /\ ~r.undoing /\ Tail(r.todo) = <<>> /\ (r.clean => Runs(A, E, r.new))
  BY <1>1, RestHead
<1> DEFINE S == With(R, r.new.id, r.new)
<1>3. RowsOK(S) /\ Holds(S, r.new)
  BY <1>1, WithRows
<1> HIDE DEF S
<1>4. r.clean => Right(A, E, S, r.new.name)
  BY <1>1, <1>2, <1>3, HoldsRight
<1>5. Settled(A, E, S, EndX(X, r), r.names)
  BY <1>1, <1>2, <1>4 DEF Settled, EndX
<1> QED BY <1>2, <1>5 DEF After, S

LEMMA SaveOwn ==
    ASSUME NEW A, NEW E, NEW R, NEW X, NEW r, Own(R, X, r), Stage(A, E, R, X, r), Head(r.todo).do = "save",
           r.new.id \in DOMAIN R => \A j \in DOMAIN R : j # r.new.id => R[j].name # r.new.name
    PROVE  After(A, E, IF r.new.id \in DOMAIN R THEN With(R, r.new.id, r.new) ELSE R, X, r, Tail(r.todo))
<1>1. /\ Wellformed(r) /\ RowsOK(R) /\ Alone(R, X, r) /\ r.new \in Config /\ r.old \in Config
      /\ r.names = {r.old.name, r.new.name} /\ r.old.id = r.new.id
  BY ReqFields DEF Own
<1>2. /\ r.op = "update" /\ ~r.undoing /\ Tail(r.todo) = <<>>
      /\ r.clean => Runs(A, E, r.new) /\ Holds(R, r.old) /\ (r.old.name # r.new.name => Off(A, E, r.old.name))
  <2>1. Head(r.todo).do \in {"insert", "save"}
    OBVIOUS
  <2>2. ~r.undoing /\ Tail(r.todo) = <<>> /\ (r.clean => Runs(A, E, r.new))
    BY <1>1, <2>1, RestHead
  <2>3. r.op = "update" /\ (r.clean => Holds(R, r.old) /\ (r.old.name # r.new.name => Off(A, E, r.old.name)))
    BY <1>1, <2>1, RestHead
  <2> QED BY <2>2, <2>3
<1> DEFINE S == IF r.new.id \in DOMAIN R THEN With(R, r.new.id, r.new) ELSE R
<1>3. CASE ~r.clean
  <2>1. Settled(A, E, S, EndX(X, r), r.names)
    BY <1>3 DEF Settled, EndX
  <2> QED BY <1>2, <2>1 DEF After
<1>4. CASE r.clean
  <2>0. r.new.id \in DOMAIN R
    BY <1>1, <1>2, <1>4 DEF Holds
  <2>1. RowsOK(S) /\ Holds(S, r.new) /\ DOMAIN S = DOMAIN R /\ (\A j \in DOMAIN R : j # r.new.id => S[j] = R[j])
    <3>1. RowsOK(With(R, r.new.id, r.new)) /\ Holds(With(R, r.new.id, r.new), r.new)
      BY <1>1, <2>0, WithRows
    <3>2. DOMAIN With(R, r.new.id, r.new) = DOMAIN R /\ (\A j \in DOMAIN R : j # r.new.id => With(R, r.new.id, r.new)[j] = R[j])
      BY <2>0 DEF With
    <3> QED BY <2>0, <3>1, <3>2
  <2> HIDE DEF S
  <2>2. Right(A, E, S, r.new.name)
    BY <1>1, <1>2, <1>4, <2>1, HoldsRight
  <2>3. r.old.name # r.new.name => Right(A, E, S, r.old.name)
    <3>1. r.old.name # r.new.name => \A j \in DOMAIN S : S[j].name # r.old.name
      BY <1>1, <1>2, <1>4, <2>1 DEF Holds, RowsOK
    <3> QED BY <1>2, <1>4, <3>1, NoRowRight
  <2>4. Settled(A, E, S, EndX(X, r), r.names)
    BY <1>1, <2>2, <2>3 DEF Settled
  <2> QED BY <1>2, <2>4 DEF After, S
<1> QED BY <1>3, <1>4

LEMMA FlagPicked ==
    ASSUME NEW A, NEW E, NEW R, NEW X, NEW r, Wellformed(r), Stage(A, E, R, X, r), Head(r.todo).do \in {"flag", "delete"}
    PROVE  Waiting(A, E, R, X, r) \/ Removing(A, E, R, r)
<1>1. ASSUME NEW c \in {r.old, r.new, Flipped(r.old)}, NEW rest \in Rests(r), Progress(A, E, r, c, rest)
      PROVE  FALSE
  <2>1. c \in Config
    BY ReqFields, FlippedIs
  <2> QED BY <1>1, <2>1, ProgressHead
<1> QED BY <1>1 DEF Stage, Rests

\* UPDATE of the flag: by a toggle, and by what undoes it.
LEMMA FlagHead ==
    ASSUME NEW A, NEW E, NEW R, NEW X, NEW r, Wellformed(r), Stage(A, E, R, X, r), Head(r.todo).do = "flag"
    PROVE  /\ r.op = "toggle" /\ r.names = {r.old.name}
           /\ \/ /\ ~r.undoing /\ Head(r.todo).config = Flipped(r.old)
                 /\ Tail(r.todo) = Rebuilding(Flipped(r.old), <<>>)
                 /\ r.clean => Holds(R, r.old) /\ Settled(A, E, R, X, r.names)
              \/ /\ r.undoing /\ Head(r.todo).config = r.old
                 /\ Tail(r.todo) = Rebuilding(r.old, <<>>)
                 /\ r.clean => Holds(R, Flipped(r.old))
<1>1. Head(r.todo).do \in {"flag", "delete"}
  OBVIOUS
<1>2. r.names = {r.old.name, r.new.name} /\ (r.op # "update" => r.new = r.old)
  BY ReqFields
<1>3. CASE Waiting(A, E, R, X, r)
  BY <1>2, <1>3, WaitingHead
<1>4. CASE Removing(A, E, R, r)
  BY <1>2, <1>4, RemovingHead
<1> QED BY <1>1, <1>3, <1>4, FlagPicked

LEMMA DeleteHead ==
    ASSUME NEW A, NEW E, NEW R, NEW X, NEW r, Wellformed(r), Stage(A, E, R, X, r), Head(r.todo).do = "delete"
    PROVE  /\ r.op = "delete" /\ r.names = {r.old.name} /\ ~r.undoing /\ Head(r.todo).config = r.old
           /\ Tail(r.todo) = Then("remove", r.old, <<>>)
           /\ r.clean => Holds(R, r.old) /\ Settled(A, E, R, X, r.names)
<1>1. Head(r.todo).do \in {"flag", "delete"}
  OBVIOUS
<1>2. r.names = {r.old.name, r.new.name} /\ (r.op # "update" => r.new = r.old)
  BY ReqFields
<1>3. CASE Waiting(A, E, R, X, r)
  BY <1>2, <1>3, WaitingHead
<1>4. ~Removing(A, E, R, r)
  BY <1>2, RemovingHead
<1> QED BY <1>1, <1>3, <1>4, FlagPicked

\* A toggle goes on to rebuild c.
LEMMA FlagGoesOn ==
    ASSUME NEW A, NEW E, NEW S, NEW Y, NEW r, Wellformed(r), r.op = "toggle",
           NEW c, c = IF r.undoing THEN r.old ELSE Flipped(r.old),
           r.clean => Holds(S, c) \/ (r.undoing /\ c.name \in Y),
           NEW s, s = Rebuilding(c, <<>>)
    PROVE  s # <<>> /\ s \in Seq(Step) /\ Stage(A, E, S, Y, Onward(r, s))
<1>1. r.old \in Config /\ c \in Config
  BY ReqFields, FlippedIs
<1>2. s \in Seq(Step) /\ s # <<>>
  BY <1>1, RebuildTyped
<1> DEFINE p == Onward(r, s)
<1>3. Same(r, p) /\ p.todo = s
  BY <1>2, OnwardIs
<1> HIDE DEF p
<1>4. Context(A, E, S, Y, p, c, <<>>)
  <2>1. CASE r.undoing
    <3>1. p.undoing /\ p.op = "toggle" /\ c = p.old
      BY <1>3, <2>1 DEF Same
    <3>2. p.clean => Holds(S, c) \/ c.name \in Y
      BY <1>3 DEF Same
    <3> QED BY <3>1, <3>2 DEF Context
  <2>2. CASE ~r.undoing
    <3>1. ~p.undoing /\ p.op = "toggle" /\ c = Flipped(p.old)
      BY <1>3, <2>2 DEF Same
    <3>2. p.clean => Holds(S, c)
      BY <1>3, <2>2 DEF Same
    <3> QED BY <3>1, <3>2 DEF Context
  <2> QED BY <2>1, <2>2
<1>5. Progress(A, E, p, c, <<>>)
  BY <1>3 DEF Progress
<1>6. c \in {p.old, p.new, Flipped(p.old)} /\ <<>> \in Rests(p)
  BY <1>3 DEF Same, Rests
<1>7. Stage(A, E, S, Y, p)
  BY <1>4, <1>5, <1>6, RebuildStage
<1> QED BY <1>2, <1>7 DEF p

LEMMA FlagOwn ==
    ASSUME NEW A, NEW E, NEW R, NEW X, NEW r, Own(R, X, r), Stage(A, E, R, X, r), Head(r.todo).do = "flag",
           NEW d, d = Head(r.todo).config,
           NEW S, S = IF d.id \in DOMAIN R THEN With(R, d.id, [R[d.id] EXCEPT !.enabled = d.enabled]) ELSE R
    PROVE  After(A, E, S, X, r, Tail(r.todo))
<1>1. Wellformed(r) /\ RowsOK(R) /\ r.old \in Config
  BY ReqFields DEF Own
<1>2. /\ r.op = "toggle" /\ d = (IF r.undoing THEN r.old ELSE Flipped(r.old)) /\ Tail(r.todo) = Rebuilding(d, <<>>)
      /\ r.clean => \/ Holds(R, r.old) /\ d = Flipped(r.old)
                    \/ Holds(R, Flipped(r.old)) /\ d = r.old
  BY <1>1, FlagHead
<1>3. d \in Config /\ d.id = r.old.id
  BY <1>1, <1>2, FlippedIs
<1>4. r.clean => Holds(S, d)
  <2> SUFFICES ASSUME r.clean PROVE Holds(S, d)
    OBVIOUS
  <2>1. PICK o \in Config : Holds(R, o) /\ o.id = d.id /\ (d = Flipped(o) \/ o = Flipped(d))
    <3>1. CASE Holds(R, r.old) /\ d = Flipped(r.old)
      BY <1>1, <1>3, <3>1
    <3>2. CASE Holds(R, Flipped(r.old)) /\ d = r.old
      BY <1>1, <1>3, <3>2, FlippedIs
    <3> QED BY <1>2, <3>1, <3>2
  <2>2. R[d.id] = o /\ d.id \in DOMAIN R
    BY <2>1 DEF Holds
  <2>3. [o EXCEPT !.enabled = d.enabled] = d
    BY <1>3, <2>1, FlagIs
  <2>4. S = With(R, d.id, d)
    BY <2>2, <2>3
  <2> QED BY <2>4 DEF Holds, With
<1> DEFINE s == Tail(r.todo)
<1>5. s # <<>> /\ Stage(A, E, S, X, Onward(r, s))
  <2>1. s = Rebuilding(d, <<>>)
    BY <1>2
  <2> HIDE DEF s
  <2>2. r.clean => Holds(S, d) \/ (r.undoing /\ d.name \in X)
    BY <1>4
  <2> QED BY <1>1, <1>2, <2>1, <2>2, FlagGoesOn
<1> QED BY <1>5 DEF After

\* The flag is not put back.
LEMMA FlagUndoFails ==
    ASSUME NEW A, NEW E, NEW R, NEW X, NEW r, Own(R, X, r), Stage(A, E, R, X, r), Head(r.todo).do = "flag", r.undoing
    PROVE  LET Y == X \cup {Head(r.todo).config.name}
           IN  Tail(r.todo) # <<>> /\ Stage(A, E, R, Y, Onward(r, Tail(r.todo))) /\ Y \subseteq NbName
<1>1. Wellformed(r) /\ r.old \in Config /\ X \subseteq NbName
  BY ReqFields DEF Own
<1>2. r.op = "toggle" /\ Head(r.todo).config = r.old /\ Tail(r.todo) = Rebuilding(r.old, <<>>)
  BY <1>1, FlagHead
<1> DEFINE Y == X \cup {Head(r.todo).config.name}
           s == Tail(r.todo)
<1>3. Y \subseteq NbName /\ r.old.name \in Y
  BY <1>1, <1>2 DEF Config
<1>4. s # <<>> /\ Stage(A, E, R, Y, Onward(r, s))
  <2> HIDE DEF Y
  <2>1. s = Rebuilding(r.old, <<>>)
    BY <1>2
  <2> HIDE DEF s
  <2>2. r.old = IF r.undoing THEN r.old ELSE Flipped(r.old)
    OBVIOUS
  <2>3. r.clean => Holds(R, r.old) \/ (r.undoing /\ r.old.name \in Y)
    BY <1>3
  <2> QED BY <1>1, <1>2, <2>1, <2>2, <2>3, FlagGoesOn
<1> QED BY <1>3, <1>4

LEMMA DeleteOwn ==
    ASSUME NEW A, NEW E, NEW R, NEW X, NEW r, Own(R, X, r), Stage(A, E, R, X, r), Head(r.todo).do = "delete",
           NEW S, S = [j \in DOMAIN R \ {Head(r.todo).config.id} |-> R[j]]
    PROVE  After(A, E, S, X, r, Tail(r.todo))
<1>1. Wellformed(r) /\ r.old \in Config
  BY ReqFields DEF Own
<1>2. /\ r.op = "delete" /\ ~r.undoing /\ Head(r.todo).config = r.old /\ Tail(r.todo) = Then("remove", r.old, <<>>)
  BY <1>1, DeleteHead
<1> DEFINE s == Tail(r.todo)
           p == Onward(r, s)
<1>3. s \in Seq(Step) /\ s # <<>> /\ s = Then("remove", r.old, <<>>)
  <2>1. "remove" \in Word
    BY DEF Word
  <2>2. Then("remove", r.old, <<>>) \in Seq(Step) /\ Then("remove", r.old, <<>>) # <<>>
    BY <1>1, <2>1, LastIs
  <2> QED BY <1>2, <2>2
<1>4. Same(r, p) /\ p.todo = s
  BY <1>1, <1>3, OnwardIs
<1> HIDE DEF s, p
<1>5. Removing(A, E, S, p)
  <2>1. r.old.id \notin DOMAIN S
    BY <1>2
  <2> QED BY <1>2, <1>3, <1>4, <2>1 DEF Same, Removing
<1>6. Stage(A, E, S, X, p)
  BY <1>5 DEF Stage
<1> QED BY <1>3, <1>6 DEF After, s, p

\* A step fails.
UndoOf(r, what) == IF r.undoing THEN <<>> ELSE Undo(r.op, what, r.old, r.new)
Undone(r, u) == [r EXCEPT !.todo = u, !.undoing = TRUE]
Victims(R, r) == {n \in {r.new.name} : \E i \in DOMAIN R : i # r.new.id /\ R[i].name = n}
FailedX(X, R, r, what) ==
    X \cup Victims(R, r) \cup (IF what = "initialize" /\ UndoOf(r, what) = <<>> THEN {Head(r.todo).config.name} ELSE {})
      \cup (IF UndoOf(r, what) = <<>> /\ ~r.clean THEN r.names ELSE {})
Failed(B, F, R, X, r, what) ==
    LET u == UndoOf(r, what)
        Y == FailedX(X, R, r, what)
    IN  IF u = <<>> THEN Settled(B, F, R, Y, r.names)
        ELSE Wellformed(Undone(r, u)) /\ Stage(B, F, R, Y, Undone(r, u)) /\ Alone(R, Y, Undone(r, u))

LEMMA ThenRebuilding ==
    ASSUME NEW w \in Word, NEW c \in Config, NEW d \in Config
    PROVE  Then(w, c, Rebuilding(d, <<>>)) \in Seq(Step) /\ Then(w, c, Rebuilding(d, <<>>)) # <<>>
<1>1. PICK s \in Seq(Step) : s = Rebuilding(d, <<>>)
  BY RebuildTyped
<1>2. Then(w, c, s) \in Seq(Step) /\ Then(w, c, s) # <<>>
  BY ThenIs
<1> QED BY <1>1, <1>2

LEMMA UndoneIs ==
    ASSUME NEW r, Wellformed(r), NEW u \in Seq(Step), u # <<>>
    PROVE  /\ Wellformed(Undone(r, u)) /\ Undone(r, u).todo = u /\ Undone(r, u).undoing
           /\ Undone(r, u).op = r.op /\ Undone(r, u).old = r.old /\ Undone(r, u).new = r.new
           /\ Undone(r, u).names = r.names /\ Undone(r, u).clean = r.clean
<1>1. r \in Req
  BY DEF Wellformed
<1> DEFINE on == TRUE
           p == [r EXCEPT !.todo = u, !.undoing = on]
<1>2. on \in BOOLEAN
  OBVIOUS
<1> HIDE DEF on
<1>3. p \in Req /\ p.todo = u /\ p.undoing = on /\ p.op = r.op /\ p.old = r.old /\ p.new = r.new /\ p.names = r.names
      /\ p.clean = r.clean
  BY <1>1, <1>2 DEF Req
<1>4. p = Undone(r, u)
  BY DEF on, Undone
<1> HIDE DEF p
<1>5. Wellformed(p)
  BY <1>3 DEF Wellformed
<1>6. p.undoing
  BY <1>3 DEF on
<1> QED BY <1>3, <1>4, <1>5, <1>6

LEMMA AloneUndone ==
    ASSUME NEW R, NEW X, NEW r, Wellformed(r), Alone(R, X, r), ~r.undoing, NEW u \in Seq(Step), u # <<>>, NEW what
    PROVE  Alone(R, FailedX(X, R, r, what), Undone(r, u))
<1> DEFINE p == Undone(r, u)
           Y == FailedX(X, R, r, what)
<1>1. p.undoing /\ p.new = r.new /\ p.names = r.names /\ p.clean = r.clean
  BY UndoneIs
<1>2. Victims(R, r) \subseteq Y
  BY DEF FailedX
<1> HIDE DEF p, Y
<1>3. ASSUME r.clean, NEW j \in DOMAIN R, j # r.new.id, R[j].name \in r.names
      PROVE  R[j].name \in Y
  <2>1. R[j].name = r.new.name
    BY <1>3 DEF Alone
  <2>2. R[j].name \in Victims(R, r)
    BY <1>3, <2>1 DEF Victims
  <2> QED BY <1>2, <2>2
<1>4. Alone(R, Y, p)
  BY <1>1, <1>3 DEF Alone
<1> QED BY <1>4 DEF p, Y

LEMMA InsertFails ==
    ASSUME NEW A, NEW E, NEW R, NEW X, NEW r, Own(R, X, r), Stage(A, E, R, X, r), Head(r.todo).do = "insert"
    PROVE  Failed(A, E, R, X, r, "insert")
<1>1. Wellformed(r) /\ Alone(R, X, r) /\ r.new \in Config
  BY ReqFields DEF Own
<1>2. r.op = "create" /\ ~r.undoing
  BY <1>1, RestHead
<1> DEFINE u == UndoOf(r, "insert")
           p == Undone(r, u)
           Y == FailedX(X, R, r, "insert")
<1>3. u = Then("remove", r.new, <<>>) /\ u # <<>> /\ u \in Seq(Step)
  <2>1. u = <<Do("remove", r.new)>>
    BY <1>2 DEF UndoOf, Undo
  <2>2. "remove" \in Word
    BY DEF Word
  <2>3. <<Do("remove", r.new)>> = Then("remove", r.new, <<>>)
    BY <1>1, <2>2, ThenLast
  <2>4. Then("remove", r.new, <<>>) \in Seq(Step) /\ Then("remove", r.new, <<>>) # <<>>
    BY <1>1, <2>2, LastIs
  <2> QED BY <2>1, <2>3, <2>4
<1> HIDE DEF u
<1>4. Wellformed(p) /\ p.todo = u /\ p.undoing /\ p.op = r.op /\ p.new = r.new
  BY <1>1, <1>3, UndoneIs
<1>5. Alone(R, Y, p)
  BY <1>1, <1>2, <1>3, AloneUndone
<1> HIDE DEF p
<1>6. Removing(A, E, R, p)
  BY <1>2, <1>3, <1>4 DEF Removing
<1>7. Stage(A, E, R, Y, p)
  BY <1>6 DEF Stage
<1> QED BY <1>3, <1>4, <1>5, <1>7 DEF Failed, p, u

LEMMA SaveFails ==
    ASSUME NEW A, NEW E, NEW R, NEW X, NEW r, Own(R, X, r), Stage(A, E, R, X, r), Head(r.todo).do = "save"
    PROVE  Failed(A, E, R, X, r, "save")
<1>1. Wellformed(r) /\ Alone(R, X, r) /\ r.new \in Config /\ r.old \in Config
  BY ReqFields DEF Own
<1>2. r.op = "update" /\ ~r.undoing /\ (r.clean => Holds(R, r.old))
  <2>1. Head(r.todo).do \in {"insert", "save"}
    OBVIOUS
  <2>2. ~r.undoing
    BY <1>1, <2>1, RestHead
  <2>3. r.op = "update" /\ (r.clean => Holds(R, r.old) /\ (r.old.name # r.new.name => Off(A, E, r.old.name)))
    BY <1>1, <2>1, RestHead
  <2> QED BY <2>2, <2>3
<1> DEFINE u == UndoOf(r, "save")
           p == Undone(r, u)
           Y == FailedX(X, R, r, "save")
<1>3. u = Then("remove", r.new, Rebuilding(r.old, <<>>)) /\ u # <<>> /\ u \in Seq(Step)
  <2>1. u = <<Do("remove", r.new)>> \o Rebuild(r.old)
    BY <1>2 DEF UndoOf, Undo
  <2>2. "remove" \in Word
    BY DEF Word
  <2>3. Rebuild(r.old) = Rebuilding(r.old, <<>>) /\ Rebuilding(r.old, <<>>) \in Seq(Step)
    BY <1>1, RebuildAlone, RebuildTyped
  <2>4. u = Then("remove", r.new, Rebuilding(r.old, <<>>))
    BY <2>1, <2>3 DEF Then
  <2>6. Then("remove", r.new, Rebuilding(r.old, <<>>)) \in Seq(Step) /\ Then("remove", r.new, Rebuilding(r.old, <<>>)) # <<>>
    BY <1>1, <2>2, ThenRebuilding
  <2> QED BY <2>4, <2>6
<1> HIDE DEF u
<1>4. Wellformed(p) /\ p.todo = u /\ p.undoing /\ p.op = r.op /\ p.new = r.new /\ p.old = r.old /\ p.clean = r.clean
  BY <1>1, <1>3, UndoneIs
<1>5. Alone(R, Y, p)
  BY <1>1, <1>2, <1>3, AloneUndone
<1> HIDE DEF p
<1>6. Removing(A, E, R, p)
  BY <1>2, <1>3, <1>4 DEF Removing
<1>7. Stage(A, E, R, Y, p)
  BY <1>6 DEF Stage
<1> QED BY <1>3, <1>4, <1>5, <1>7 DEF Failed, p, u

\* Nothing is undone when the first step of a toggle or a delete fails.
LEMMA FirstFails ==
    ASSUME NEW A, NEW E, NEW R, NEW X, NEW r, Own(R, X, r), Stage(A, E, R, X, r),
           NEW what, what \in {"flag", "delete"}, Head(r.todo).do = what, ~r.undoing
    PROVE  Failed(A, E, R, X, r, what)
<1>1. Wellformed(r)
  BY DEF Own
<1>2. r.op \in {"toggle", "delete"} /\ (r.clean => Settled(A, E, R, X, r.names))
  <2>1. CASE what = "flag"
    BY <1>1, <2>1, FlagHead
  <2>2. CASE what = "delete"
    BY <1>1, <2>2, DeleteHead
  <2> QED BY <2>1, <2>2
<1>3. UndoOf(r, what) = <<>>
  BY <1>2 DEF UndoOf, Undo
<1>4. Settled(A, E, R, FailedX(X, R, r, what), r.names)
  BY <1>2, <1>3 DEF Settled, FailedX
<1> QED BY <1>3, <1>4 DEF Failed

LEMMA InitializeFailsOwn ==
    ASSUME NEW A, NEW E, NEW B, NEW F, NEW R, NEW X, NEW r, Own(R, X, r), Stage(A, E, R, X, r),
           Head(r.todo).do = "initialize", NEW n, n = Head(r.todo).config.name, OnlyOf(A, E, B, F, n),
           F[n] = FALSE, A[n] = NoAdapter => B[n] = NoAdapter
    PROVE  Failed(B, F, R, X, r, "initialize")
<1>1. /\ Wellformed(r) /\ RowsOK(R) /\ Alone(R, X, r) /\ r.old \in Config /\ r.new \in Config
      /\ r.names = {r.old.name, r.new.name} /\ r.old.id = r.new.id /\ (r.op # "update" => r.new = r.old)
      /\ r.old.name \in NbName /\ r.new.name \in NbName
  BY ReqFields DEF Own, Config
<1>2. PICK c \in {r.old, r.new, Flipped(r.old)} : \E rest \in Rests(r) :
        Context(A, E, R, X, r, c, rest) /\ Progress(A, E, r, c, rest)
  BY <1>1, RebuildingPicked
<1>3. PICK rest \in Rests(r) : Context(A, E, R, X, r, c, rest) /\ Progress(A, E, r, c, rest)
  BY <1>2
<1>4. c \in Config
  BY <1>1, FlippedIs
<1>5. c.name = n /\ (r.clean => Off(A, E, n)) /\ Head(r.todo).config = c
  BY <1>1, <1>3, <1>4, ProgressHead
<1>6. r.clean => Off(B, F, n)
  BY <1>5 DEF Off
<1> DEFINE u == UndoOf(r, "initialize")
           p == Undone(r, u)
           Y == FailedX(X, R, r, "initialize")
<1>7. /\ u = <<>> => n \in Y /\ (r.clean \/ r.names \subseteq Y)
      /\ Victims(R, r) \subseteq Y /\ X \subseteq Y
  BY <1>5 DEF FailedX
<1>8. CASE r.undoing /\ r.op = "update" /\ c = r.old /\ rest = <<>>
           /\ (r.clean => Holds(R, c) /\ (r.old.name # r.new.name => Off(A, E, r.new.name)))
  <2>1. u = <<>>
    BY <1>8 DEF UndoOf
  <2>2. n = r.old.name
    BY <1>5, <1>8
  <2> HIDE DEF u, Y
  <2>3. ASSUME r.clean, r.old.name # r.new.name PROVE r.new.name \in Y \/ Right(B, F, R, r.new.name)
    <3>1. Off(B, F, r.new.name)
      BY <1>1, <1>8, <2>2, <2>3 DEF OnlyOf, Off
    <3>2. CASE \E j \in DOMAIN R : j # r.new.id /\ R[j].name = r.new.name
      BY <1>1, <1>7, <1>8, <2>3, <3>2 DEF Alone
    <3>3. CASE ~\E j \in DOMAIN R : j # r.new.id /\ R[j].name = r.new.name
      <4>1. \A j \in DOMAIN R : R[j].name # r.new.name
        BY <1>1, <1>8, <2>3, <3>3 DEF Holds
      <4> QED BY <3>1, <4>1, NoRowRight
    <3> QED BY <3>2, <3>3
  <2>4. Settled(B, F, R, Y, r.names)
    BY <1>1, <1>7, <2>1, <2>2, <2>3 DEF Settled
  <2> QED BY <2>1, <2>4 DEF Failed, u, Y
<1>9. CASE (r.undoing /\ r.op # "update") \/ r.op \in {"create", "reload", "sync"}
  <2>1. u = <<>>
    BY <1>9 DEF UndoOf, Undo
  <2>2. r.names = {n}
    <3>1. r.op # "update"
      BY <1>9
    <3>2. c.name = r.old.name
      BY <1>1, <3>1, FlippedIs
    <3> QED BY <1>1, <1>5, <3>1, <3>2
  <2> HIDE DEF u, Y
  <2>3. Settled(B, F, R, Y, r.names)
    BY <1>7, <2>1, <2>2 DEF Settled
  <2> QED BY <2>1, <2>3 DEF Failed, u, Y
<1>10. CASE /\ ~r.undoing /\ r.op = "update" /\ c = r.new
            /\ r.clean => Holds(R, r.old) /\ (r.old.name # r.new.name => Off(A, E, r.old.name))
  <2>1. u = Rebuilding(r.old, <<>>) /\ u # <<>> /\ u \in Seq(Step)
    <3>1. u = Rebuild(r.old)
      BY <1>10 DEF UndoOf, Undo
    <3> QED BY <1>1, <3>1, RebuildAlone, RebuildTyped
  <2> HIDE DEF u
  <2>2. Wellformed(p) /\ p.todo = u /\ p.undoing /\ p.op = r.op /\ p.new = r.new /\ p.old = r.old /\ p.clean = r.clean
    BY <1>1, <2>1, UndoneIs
  <2>3. Alone(R, Y, p)
    BY <1>1, <1>10, <2>1, AloneUndone
  <2> HIDE DEF p, Y
  <2>4. p.clean => Holds(R, r.old) /\ Off(B, F, r.new.name)
    BY <1>5, <1>6, <1>10, <2>2
  <2>5. Context(B, F, R, Y, p, r.old, <<>>)
    BY <1>10, <2>2, <2>4 DEF Context
  <2>6. Progress(B, F, p, r.old, <<>>)
    BY <2>1, <2>2 DEF Progress
  <2>7. r.old \in {p.old, p.new, Flipped(p.old)} /\ <<>> \in Rests(p)
    BY <2>2 DEF Rests
  <2>8. Stage(B, F, R, Y, p)
    BY <2>5, <2>6, <2>7, RebuildStage
  <2> QED BY <2>1, <2>2, <2>3, <2>8 DEF Failed, p, u, Y
<1>11. CASE ~r.undoing /\ r.op = "toggle" /\ c = Flipped(r.old) /\ (r.clean => Holds(R, c))
  <2>1. u = Then("flag", r.old, Rebuilding(r.old, <<>>)) /\ u # <<>> /\ u \in Seq(Step)
    <3>1. u = <<Do("flag", r.old)>> \o Rebuild(r.old)
      BY <1>11 DEF UndoOf, Undo
    <3>2. u = Then("flag", r.old, Rebuilding(r.old, <<>>))
      BY <1>1, <3>1, RebuildAlone DEF Then
    <3>3. "flag" \in Word
      BY DEF Word
    <3> QED BY <1>1, <3>2, <3>3, ThenRebuilding
  <2> HIDE DEF u
  <2>2. Wellformed(p) /\ p.todo = u /\ p.undoing /\ p.op = r.op /\ p.new = r.new /\ p.old = r.old /\ p.clean = r.clean
    BY <1>1, <2>1, UndoneIs
  <2>3. Alone(R, Y, p)
    BY <1>1, <1>11, <2>1, AloneUndone
  <2> HIDE DEF p, Y
  <2>4. p.clean => Holds(R, Flipped(r.old))
    BY <1>11, <2>2
  <2>5. Removing(B, F, R, p)
    BY <1>11, <2>1, <2>2, <2>4 DEF Removing
  <2>8. Stage(B, F, R, Y, p)
    BY <2>5 DEF Stage
  <2> QED BY <2>1, <2>2, <2>3, <2>8 DEF Failed, p, u, Y
<1> QED BY <1>3, <1>8, <1>9, <1>10, <1>11 DEF Context

-----------------------------------------------------------------------------
(* One request's step, seen by all.                                         *)

OnlyRow(R, S, i) ==
    /\ DOMAIN S \ {i} = DOMAIN R \ {i} /\ \A j \in DOMAIN R \ {i} : S[j] = R[j]
Sibling(r, p) ==
    /\ p.op = r.op /\ p.old = r.old /\ p.new = r.new /\ p.names = r.names /\ p.clean = r.clean
Moves(A, E, R, X, B, F, S, Y, r) ==
    /\ \A m \in NbName \ r.names : B[m] = A[m] /\ F[m] = E[m]
    /\ OnlyRow(R, S, r.new.id) /\ RowsOK(S)
    /\ r.new.id \in DOMAIN S => \/ S[r.new.id].name \in r.names
                                \/ r.new.id \in DOMAIN R /\ S[r.new.id].name = R[r.new.id].name
    /\ r.op # "create" => DOMAIN S \subseteq DOMAIN R
    /\ Y \subseteq NbName /\ X \ r.names \subseteq Y
\* It goes on as p,
Lives(B, F, S, Y, r, p) ==
    /\ Wellformed(p) /\ Sibling(r, p) /\ Stage(B, F, S, Y, p) /\ Alone(S, Y, p)
    /\ r.op = "create" => r.new.id \notin DOMAIN S
\* or is over.
Over(B, F, S, Y, r) ==
    /\ Settled(B, F, S, Y, r.names) /\ (~r.clean => r.names \subseteq Y)
    /\ \A j \in DOMAIN S : j # r.new.id /\ S[j].name \in r.names => S[j].name \in Y

LEMMA LiveIs ==
    ASSUME NEW Q, Requests(Q), NEW q \in NbRequest
    PROVE  q \in Live(Q) <=> Wellformed(Q[q])
<1>1. Q[q] = NoNbRequest \/ Wellformed(Q[q])
  BY DEF Requests
<1>2. Wellformed(Q[q]) => Q[q].op \in Operation
  BY ReqFields
<1>3. NoNbRequest.op = "none" /\ "none" \notin Operation
  BY DEF NoNbRequest, Operation
<1> QED BY <1>1, <1>2, <1>3 DEF Live

LEMMA StageFramed ==
    ASSUME NEW A, NEW E, NEW R, NEW X, NEW B, NEW F, NEW S, NEW Y, NEW r, Wellformed(r), Stage(A, E, R, X, r),
           r.clean => \A m \in r.names : B[m] = A[m] /\ F[m] = E[m] /\ (m \in X => m \in Y),
           r.clean => (r.new.id \in DOMAIN S <=> r.new.id \in DOMAIN R) /\ (r.new.id \in DOMAIN R => S[r.new.id] = R[r.new.id]),
           r.clean /\ ~r.undoing /\ r.op \notin {"create", "update"} =>
                \A m \in r.names : Named(S, m) = Named(R, m) /\ \A j \in Named(R, m) : S[j] = R[j]
    PROVE  Stage(B, F, S, Y, r)
<1>1. r.names = {r.old.name, r.new.name} /\ r.old.id = r.new.id /\ r.old \in Config
  BY ReqFields
<1>2. CASE ~r.clean
  <2>1. Waiting(A, E, R, X, r) => Waiting(B, F, S, Y, r)
    BY <1>2 DEF Waiting
  <2>2. Removing(A, E, R, r) => Removing(B, F, S, r)
    BY <1>2 DEF Removing
  <2>3. ASSUME NEW c, NEW rest, Context(A, E, R, X, r, c, rest), Progress(A, E, r, c, rest)
        PROVE  Context(B, F, S, Y, r, c, rest) /\ Progress(B, F, r, c, rest)
    <3>1. Context(B, F, S, Y, r, c, rest)
      BY <1>2, <2>3 DEF Context
    <3>2. Progress(B, F, r, c, rest)
      BY <1>2, <2>3 DEF Progress
    <3> QED BY <3>1, <3>2
  <2> QED BY <2>1, <2>2, <2>3 DEF Stage
<1>3. CASE r.clean
  <2>1. \A c : c.id = r.old.id /\ Holds(R, c) => Holds(S, c)
    BY <1>1, <1>3 DEF Holds
  <2>2. Holds(R, r.old) => Holds(S, r.old)
    BY <2>1
  <2>3. Holds(R, Flipped(r.old)) => Holds(S, Flipped(r.old))
    BY <1>1, <2>1, FlippedIs
  <2>4. \A m \in r.names : (Off(A, E, m) => Off(B, F, m)) /\ (m \in X => m \in Y)
    BY <1>3 DEF Off
  <2>5. ASSUME Waiting(A, E, R, X, r) PROVE Waiting(B, F, S, Y, r)
    <3>1. ~r.undoing /\ r.op \notin {"create", "update"} /\ Holds(R, r.old) /\ Settled(A, E, R, X, r.names)
      BY <1>3, <2>5 DEF Waiting
    <3>2. ASSUME NEW m \in r.names, Right(A, E, R, m) PROVE Right(B, F, S, m)
      <4>1. Named(S, m) = Named(R, m) /\ \A j \in Named(R, m) : S[j] = R[j] /\ R[j].name = m
        BY <1>3, <3>1 DEF Named
      <4>2. B[m] = A[m] /\ F[m] = E[m]
        BY <1>3
      <4>3. (\A j \in Named(S, m) : ~S[j].enabled) => Off(B, F, m)
        BY <3>2, <4>1, <4>2 DEF Right, Off
      <4>4. \A j \in Named(S, m) : S[j].enabled => Runs(B, F, S[j])
        BY <3>2, <4>1, <4>2 DEF Right, Runs, Off
      <4> QED BY <4>3, <4>4 DEF Right
    <3>3. Settled(B, F, S, Y, r.names)
      BY <2>4, <3>1, <3>2 DEF Settled
    <3>4. Holds(S, r.old)
      BY <2>2, <3>1
    <3> QED BY <2>5, <3>1, <3>3, <3>4 DEF Waiting
  <2>6. Removing(A, E, R, r) => Removing(B, F, S, r)
    BY <1>1, <1>3, <2>2, <2>3 DEF Removing
  <2>7. ASSUME NEW c \in {r.old, r.new, Flipped(r.old)}, NEW rest, Context(A, E, R, X, r, c, rest), Progress(A, E, r, c, rest)
        PROVE  Context(B, F, S, Y, r, c, rest) /\ Progress(B, F, r, c, rest)
    <3>0. c.name \in r.names /\ c.id = r.old.id
      BY <1>1, FlippedIs
    <3>1. Holds(R, c) => Holds(S, c)
      BY <2>1, <3>0
    <3>2. /\ Off(A, E, r.old.name) => Off(B, F, r.old.name)
          /\ Off(A, E, r.new.name) => Off(B, F, r.new.name)
          /\ Off(A, E, c.name) => Off(B, F, c.name)
          /\ c.name \in X => c.name \in Y
      BY <1>1, <2>4, <3>0
    <3>3. Context(B, F, S, Y, r, c, rest)
      BY <2>2, <2>7, <3>1, <3>2 DEF Context
    <3>4. B[c.name] = A[c.name] /\ F[c.name] = E[c.name]
      BY <1>3, <3>0
    <3>5. Runs(A, E, c) => Runs(B, F, c)
      BY <3>2, <3>4 DEF Runs
    <3>6. Progress(B, F, r, c, rest)
      BY <2>7, <3>2, <3>4, <3>5 DEF Progress
    <3> QED BY <3>3, <3>6
  <2> QED BY <2>5, <2>6, <2>7 DEF Stage
<1> QED BY <1>2, <1>3

LEMMA RightFramed ==
    ASSUME NEW A, NEW E, NEW R, NEW B, NEW F, NEW S, NEW n, Right(A, E, R, n), B[n] = A[n], F[n] = E[n],
           Named(S, n) = Named(R, n), \A j \in Named(R, n) : S[j] = R[j]
    PROVE  Right(B, F, S, n)
<1>1. \A j \in Named(R, n) : R[j].name = n
  BY DEF Named
<1>2. (\A j \in Named(S, n) : ~S[j].enabled) => Off(B, F, n)
  BY DEF Right, Off
<1>3. \A j \in Named(S, n) : S[j].enabled => Runs(B, F, S[j])
  BY <1>1 DEF Right, Runs, Off
<1> QED BY <1>2, <1>3 DEF Right

\* The name of a row afterwards: one of the request's, or what it was.
LEMMA NameAfter ==
    ASSUME NEW A, NEW E, NEW R, NEW X, NEW B, NEW F, NEW S, NEW Y, NEW r, Moves(A, E, R, X, B, F, S, Y, r),
           NEW j \in DOMAIN S
    PROVE  /\ S[j].name \in r.names \/ (j \in DOMAIN R /\ S[j].name = R[j].name)
           /\ j # r.new.id => j \in DOMAIN R /\ S[j] = R[j]
<1>1. j # r.new.id => j \in DOMAIN R /\ S[j] = R[j]
  BY DEF Moves, OnlyRow
<1>2. j = r.new.id => S[j].name \in r.names \/ (j \in DOMAIN R /\ S[j].name = R[j].name)
  BY DEF Moves
<1> QED BY <1>1, <1>2

LEMMA StagesKept ==
    ASSUME NEW A, NEW E, NEW R, NEW X, NEW B, NEW F, NEW S, NEW Y, NEW r, Moves(A, E, R, X, B, F, S, Y, r),
           NEW t, Wellformed(t), t.clean => Apart(t, r), Stage(A, E, R, X, t), Alone(R, X, t)
    PROVE  Stage(B, F, S, Y, t) /\ Alone(S, Y, t)
<1>1. CASE ~t.clean
  <2>1. Stage(B, F, S, Y, t)
    BY <1>1, StageFramed
  <2> QED BY <1>1, <2>1 DEF Alone
<1>2. CASE t.clean
  <2>1. t.new.id # r.new.id /\ t.names \cap r.names = {} /\ t.names \subseteq NbName
    BY <1>2, ReqFields DEF Apart
  <2>2. \A m \in t.names : m \notin r.names /\ B[m] = A[m] /\ F[m] = E[m] /\ (m \in X => m \in Y)
    BY <2>1 DEF Moves
  <2>3. (t.new.id \in DOMAIN S <=> t.new.id \in DOMAIN R) /\ (t.new.id \in DOMAIN R => S[t.new.id] = R[t.new.id])
    BY <2>1 DEF Moves, OnlyRow
  <2>4. \A j \in DOMAIN S : S[j].name \in t.names => j \in DOMAIN R /\ S[j].name = R[j].name
    BY <2>2, NameAfter
  <2>5. ASSUME ~t.undoing, t.op \notin {"create", "update"}, NEW m \in t.names
        PROVE  Named(S, m) = Named(R, m) /\ \A j \in Named(R, m) : S[j] = R[j]
    <3>1. \A j \in DOMAIN R : R[j].name = m => j = t.new.id
      BY <1>2, <2>5 DEF Alone
    <3>2. \A j \in Named(R, m) : j # r.new.id /\ j \in DOMAIN R /\ R[j].name = m
      BY <2>1, <3>1 DEF Named
    <3>3. \A j \in Named(R, m) : j \in DOMAIN S /\ S[j] = R[j]
      BY <3>2 DEF Moves, OnlyRow
    <3>4. Named(R, m) \subseteq Named(S, m)
      BY <3>2, <3>3 DEF Named
    <3>5. Named(S, m) \subseteq Named(R, m)
      BY <2>4 DEF Named
    <3> QED BY <3>3, <3>4, <3>5
  <2>6. Stage(B, F, S, Y, t)
    BY <2>2, <2>3, <2>5, StageFramed
  <2>7. ASSUME NEW j \in DOMAIN S, j # t.new.id, S[j].name \in t.names
        PROVE  IF t.undoing THEN S[j].name \in Y
               ELSE t.op \in {"create", "update"} /\ S[j].name = t.new.name
                        /\ (t.op = "update" => S[j].name # t.old.name)
    <3>1. j \in DOMAIN R /\ S[j].name = R[j].name
      BY <2>4, <2>7
    <3>2. IF t.undoing THEN R[j].name \in X
          ELSE t.op \in {"create", "update"} /\ R[j].name = t.new.name
                   /\ (t.op = "update" => R[j].name # t.old.name)
      BY <1>2, <2>7, <3>1 DEF Alone
    <3> QED BY <2>2, <2>7, <3>1, <3>2
  <2>8. Alone(S, Y, t)
    BY <2>7 DEF Alone
  <2> QED BY <2>6, <2>8
<1> QED BY <1>1, <1>2

LEMMA GlobalStep ==
    ASSUME NEW Q, NEW A, NEW E, NEW R, NEW X, World(Q, A, E, R, X), NEW q \in Live(Q), NEW r, r = Q[q],
           NEW B, NEW F, NEW S, NEW Y, Moves(A, E, R, X, B, F, S, Y, r),
           NEW p, (p = NoNbRequest /\ Over(B, F, S, Y, r)) \/ Lives(B, F, S, Y, r, p)
    PROVE  World([Q EXCEPT ![q] = p], B, F, S, Y)
<1> DEFINE P == [Q EXCEPT ![q] = p]
<1>1. /\ q \in NbRequest /\ Requests(Q) /\ Separate(Q) /\ Fresh(Q, R) /\ Covered(Q, R, X)
      /\ Stages(Q, A, E, R, X) /\ Outside(Q, A, E, R, X)
  BY DEF World, Live
<1>2. Wellformed(r) /\ r.names \subseteq NbName
  BY <1>1, LiveIs, ReqFields
<1>3. DOMAIN Q = NbRequest
  <2>1. Q = [k \in NbRequest |-> Q[k]]
    BY <1>1 DEF Requests
  <2>2. DOMAIN [k \in NbRequest |-> Q[k]] = NbRequest
    OBVIOUS
  <2> QED BY <2>1, <2>2
<1>4. /\ P[q] = p /\ P = [k \in NbRequest |-> P[k]] /\ \A k \in NbRequest \ {q} : P[k] = Q[k]
  BY <1>1, <1>3
<1> HIDE DEF P
<1>5. p = NoNbRequest \/ Wellformed(p)
  BY DEF Lives
<1>6. Requests(P)
  BY <1>1, <1>4, <1>5 DEF Requests
<1>7. q \in Live(P) <=> Wellformed(p)
  BY <1>1, <1>4, <1>6, LiveIs
<1>8. q \in Live(P) => Lives(B, F, S, Y, r, p)
  <2>1. NoNbRequest.op = "none"
    BY DEF NoNbRequest
  <2>2. p = NoNbRequest => q \notin Live(P)
    BY <1>4, <2>1 DEF Live
  <2> QED BY <2>2
<1>9. q \notin Live(P) => Over(B, F, S, Y, r)
  BY <1>7 DEF Lives
<1>10. \A m \in Live(P) : m \in Live(Q) /\ m \in NbRequest /\ (m # q => P[m] = Q[m])
  BY <1>4 DEF Live
<1>11. \A m \in Live(P) : P[m].op = Q[m].op /\ P[m].new = Q[m].new /\ P[m].names = Q[m].names /\ P[m].clean = Q[m].clean
  BY <1>4, <1>8, <1>10 DEF Lives, Sibling
<1>12. \A m \in Live(Q) \ {q} : m \in Live(P)
  BY <1>4 DEF Live
<1>13. Separate(P)
  <2>1. SUFFICES ASSUME NEW m \in Live(P), NEW k \in Live(P), m # k
                 PROVE  /\ P[m].clean => Apart(P[m], P[k])
                        /\ P[m].op = "create" /\ P[k].op = "create" => P[m].new.id # P[k].new.id
    BY DEF Separate
  <2>2. m \in Live(Q) /\ k \in Live(Q)
    BY <1>10
  <2>3. /\ Q[m].clean => Apart(Q[m], Q[k])
        /\ Q[m].op = "create" /\ Q[k].op = "create" => Q[m].new.id # Q[k].new.id
    BY <1>1, <2>1, <2>2 DEF Separate
  <2>4. /\ P[m].op = Q[m].op /\ P[m].new = Q[m].new /\ P[m].names = Q[m].names /\ P[m].clean = Q[m].clean
        /\ P[k].op = Q[k].op /\ P[k].new = Q[k].new /\ P[k].names = Q[k].names
    BY <1>11
  <2> QED BY <2>3, <2>4 DEF Apart
<1>14. Fresh(P, S)
  <2>1. SUFFICES ASSUME NEW m \in Live(P), P[m].op = "create" PROVE P[m].new.id \notin DOMAIN S
    BY DEF Fresh
  <2>2. CASE m = q
    BY <1>4, <1>8, <1>11, <2>1, <2>2 DEF Lives
  <2>3. CASE m # q
    <3>1. Q[m].op = "create" /\ Q[m].new = P[m].new /\ m \in Live(Q)
      BY <1>10, <1>11, <2>1
    <3>2. Q[m].new.id \notin DOMAIN R /\ (r.op = "create" => Q[m].new.id # r.new.id)
      BY <1>1, <2>3, <3>1 DEF Fresh, Separate
    <3>3. DOMAIN S \ {r.new.id} = DOMAIN R \ {r.new.id} /\ (r.op # "create" => DOMAIN S \subseteq DOMAIN R)
      BY DEF Moves, OnlyRow
    <3> QED BY <3>1, <3>2, <3>3
  <2> QED BY <2>2, <2>3
<1>15. /\ ClaimedBy(P) \subseteq ClaimedBy(Q) /\ ClaimedBy(Q) \subseteq ClaimedBy(P) \cup r.names
       /\ q \in Live(P) => r.names \subseteq ClaimedBy(P)
  <2>1. ClaimedBy(P) \subseteq ClaimedBy(Q)
    <3>1. SUFFICES ASSUME NEW m \in Live(P), NEW n \in P[m].names PROVE n \in ClaimedBy(Q)
      BY DEF ClaimedBy
    <3>2. m \in Live(Q) /\ n \in Q[m].names
      BY <1>10, <1>11
    <3> QED BY <3>2 DEF ClaimedBy
  <2>2. ClaimedBy(Q) \subseteq ClaimedBy(P) \cup r.names
    <3>1. SUFFICES ASSUME NEW m \in Live(Q), NEW n \in Q[m].names, n \notin r.names PROVE n \in ClaimedBy(P)
      BY DEF ClaimedBy
    <3>2. m # q
      BY <3>1
    <3>3. m \in Live(P) /\ n \in P[m].names
      BY <1>11, <1>12, <3>2
    <3> QED BY <3>3 DEF ClaimedBy
  <2>3. q \in Live(P) => r.names \subseteq ClaimedBy(P)
    BY <1>11 DEF ClaimedBy
  <2> QED BY <2>1, <2>2, <2>3
<1>16. X \ r.names \subseteq Y /\ Y \subseteq NbName /\ RowsOK(S)
  BY DEF Moves
<1>17. Covered(P, S, Y)
  <2>1. SUFFICES ASSUME NEW m \in Live(P), P[m].new.id \in DOMAIN S
                 PROVE  S[P[m].new.id].name \in Y \cup ClaimedBy(P)
    BY DEF Covered
  <2> DEFINE i == P[m].new.id
             n == S[i].name
  <2>2. m \in Live(Q) /\ i = Q[m].new.id /\ i \in DOMAIN S
    BY <1>10, <1>11, <2>1
  <2> HIDE DEF i
  <2>3. n \in r.names \/ (i \in DOMAIN R /\ n = R[i].name)
    BY <2>2, NameAfter
  <2>4. i \in DOMAIN R => R[i].name \in X \cup ClaimedBy(Q)
    BY <1>1, <2>2 DEF Covered
  <2>5. n \notin r.names => n \in Y \cup ClaimedBy(P)
    BY <1>15, <1>16, <2>3, <2>4
  <2>6. ASSUME n \in r.names, q \notin Live(P) PROVE n \in Y
    <3>1. Over(B, F, S, Y, r) /\ m # q
      BY <1>9, <2>6
    <3>2. r.clean => i # r.new.id
      BY <1>1, <2>2, <3>1 DEF Separate, Apart
    <3> QED BY <2>2, <2>6, <3>1, <3>2 DEF Over
  <2>7. n \in Y \cup ClaimedBy(P)
    BY <1>15, <2>5, <2>6
  <2> QED BY <2>7 DEF i
<1>18. Stages(P, B, F, S, Y)
  <2>1. SUFFICES ASSUME NEW m \in Live(P) PROVE Stage(B, F, S, Y, P[m]) /\ Alone(S, Y, P[m])
    BY DEF Stages
  <2>2. CASE m = q
    BY <1>4, <1>8, <2>2 DEF Lives
  <2>3. CASE m # q
    <3>1. m \in Live(Q) /\ P[m] = Q[m] /\ m \in NbRequest
      BY <1>10, <2>3
    <3>2. Wellformed(Q[m])
      BY <1>1, <3>1, LiveIs
    <3>3. Q[m].clean => Apart(Q[m], r)
      BY <1>1, <2>3, <3>1 DEF Separate
    <3>4. Stage(A, E, R, X, Q[m]) /\ Alone(R, X, Q[m])
      BY <1>1, <3>1 DEF Stages
    <3>5. Stage(B, F, S, Y, Q[m]) /\ Alone(S, Y, Q[m])
      BY <3>2, <3>3, <3>4, StagesKept
    <3> QED BY <3>1, <3>5
  <2> QED BY <2>2, <2>3
<1>19. Outside(P, B, F, S, Y)
  <2>1. SUFFICES ASSUME NEW n \in NbName, n \notin ClaimedBy(P), n \notin Y PROVE Right(B, F, S, n)
    BY DEF Outside, Settled
  <2>2. CASE n \in r.names
    <3>1. Over(B, F, S, Y, r)
      BY <1>9, <1>15, <2>1, <2>2
    <3> QED BY <2>1, <2>2, <3>1 DEF Over, Settled
  <2>3. CASE n \notin r.names
    <3>1. n \notin ClaimedBy(Q) /\ n \notin X
      BY <1>15, <1>16, <2>1, <2>3
    <3>2. Right(A, E, R, n)
      BY <1>1, <3>1 DEF Outside, Settled
    <3>3. r.new.id \in DOMAIN R => R[r.new.id].name # n
      BY <1>1, <3>1 DEF Covered
    <3>4. \A j \in DOMAIN S : S[j].name = n => j # r.new.id /\ j \in DOMAIN R /\ S[j] = R[j]
      BY <2>3, <3>3, NameAfter
    <3>5. \A j \in DOMAIN R : R[j].name = n => j \in DOMAIN S /\ S[j] = R[j]
      BY <3>3 DEF Moves, OnlyRow
    <3>6. Named(S, n) = Named(R, n) /\ \A j \in Named(R, n) : S[j] = R[j]
      BY <3>4, <3>5 DEF Named
    <3>7. B[n] = A[n] /\ F[n] = E[n]
      BY <2>3 DEF Moves
    <3> QED BY <3>2, <3>6, <3>7, RightFramed
  <2> QED BY <2>2, <2>3
<1>20. World(P, B, F, S, Y)
  BY <1>6, <1>13, <1>14, <1>16, <1>17, <1>18, <1>19 DEF World
<1> QED BY <1>20 DEF P

LEMMA LivesOn ==
    ASSUME NEW Q, NEW A, NEW E, NEW R, NEW X, World(Q, A, E, R, X), NEW q \in Live(Q),
           NEW B, NEW F, NEW S, NEW Y, Moves(A, E, R, X, B, F, S, Y, Q[q]), NEW p, Lives(B, F, S, Y, Q[q], p)
    PROVE  World([Q EXCEPT ![q] = p], B, F, S, Y)
BY GlobalStep

LEMMA IsOver ==
    ASSUME NEW Q, NEW A, NEW E, NEW R, NEW X, World(Q, A, E, R, X), NEW q \in Live(Q),
           NEW B, NEW F, NEW S, NEW Y, Moves(A, E, R, X, B, F, S, Y, Q[q]), Over(B, F, S, Y, Q[q])
    PROVE  World([Q EXCEPT ![q] = NoNbRequest], B, F, S, Y)
BY GlobalStep

\* What the first step left is about.
LEMMA HeadIs ==
    ASSUME NEW A, NEW E, NEW R, NEW X, NEW r, Wellformed(r), Stage(A, E, R, X, r)
    PROVE  LET d == Head(r.todo).config
           IN  d \in {r.old, r.new, Flipped(r.old)} /\ d \in Config /\ d.id = r.new.id /\ d.name \in r.names
<1> DEFINE d == Head(r.todo).config
<1>1. r.old \in Config /\ r.new \in Config /\ r.names = {r.old.name, r.new.name} /\ r.old.id = r.new.id
  BY ReqFields
<1>2. d \in {r.old, r.new, Flipped(r.old)}
  <2>1. CASE Waiting(A, E, R, X, r)
    BY <2>1, WaitingHead
  <2>2. CASE Removing(A, E, R, r)
    BY <2>2, RemovingHead
  <2>3. ASSUME NEW c \in {r.old, r.new, Flipped(r.old)}, NEW rest \in Rests(r), Progress(A, E, r, c, rest)
        PROVE  d \in {r.old, r.new, Flipped(r.old)}
    <3>1. c \in Config
      BY <1>1, FlippedIs
    <3>2. d = c \/ d = r.new
      BY <2>3, <3>1, ProgressHead
    <3> QED BY <3>2
  <2> QED BY <2>1, <2>2, <2>3 DEF Stage, Rests
<1>3. Flipped(r.old) \in Config /\ Flipped(r.old).id = r.old.id /\ Flipped(r.old).name = r.old.name
  BY <1>1, FlippedIs
<1> QED BY <1>1, <1>2, <1>3

\* A create or an update that nothing undoes ends with its statement.
LEMMA EndHead ==
    ASSUME NEW A, NEW E, NEW R, NEW X, NEW r, Wellformed(r), Stage(A, E, R, X, r),
           ~r.undoing, r.op \in {"create", "update"}, Tail(r.todo) = <<>>
    PROVE  Head(r.todo).do \in {"insert", "save"}
<1>1. r.old \in Config /\ r.new \in Config
  BY ReqFields
<1>2. ASSUME Waiting(A, E, R, X, r) PROVE FALSE
  BY <1>2, WaitingHead
<1>3. ASSUME Removing(A, E, R, r) PROVE FALSE
  <2>1. Tail(r.todo) = Rebuilding(r.new, Then("save", r.new, <<>>))
    BY <1>3, RemovingHead
  <2>2. Then("save", r.new, <<>>) \in Seq(Step)
    BY <1>1, LastIs DEF Word
  <2>3. Rebuilding(r.new, Then("save", r.new, <<>>)) # <<>>
    BY <1>1, <2>2, RebuildingTyped
  <2> QED BY <2>1, <2>3
<1>4. ASSUME NEW c \in {r.old, r.new, Flipped(r.old)}, NEW rest \in Rests(r),
             Context(A, E, R, X, r, c, rest), Progress(A, E, r, c, rest)
      PROVE  Head(r.todo).do \in {"insert", "save"}
  <2>1. c \in Config /\ rest \in Seq(Step)
    BY <1>1, FlippedIs, RestsTyped
  <2>2. rest # <<>>
    <3>1. Then("insert", r.new, <<>>) # <<>> /\ Then("save", r.new, <<>>) # <<>>
      BY <1>1, LastIs DEF Word
    <3> QED BY <1>4, <3>1 DEF Context
  <2>3. (IF c.enabled THEN Initializing(c, rest) ELSE Disabling(c, rest)) # <<>>
    BY <2>1, AfterRemove
  <2>4. Registering(c, rest) # <<>>
    BY <2>1, RegisteringIs
  <2>5. Starting(c, rest) # <<>>
    BY <2>1, StartingIs
  <2> QED BY <1>4, <2>1, <2>2, <2>3, <2>4, <2>5, ProgressHead
<1> QED BY <1>2, <1>3, <1>4 DEF Stage, Rests

\* What a step of r may change, whatever comes of it.
Frame(A, E, R, B, F, S, r) ==
    /\ \A m \in NbName \ r.names : B[m] = A[m] /\ F[m] = E[m]
    /\ OnlyRow(R, S, r.new.id) /\ RowsOK(S)
    /\ r.new.id \in DOMAIN S => \/ S[r.new.id].name \in r.names
                                \/ r.new.id \in DOMAIN R /\ S[r.new.id].name = R[r.new.id].name
    /\ r.op # "create" => DOMAIN S \subseteq DOMAIN R

LEMMA RowsKept ==
    ASSUME NEW A, NEW E, NEW R, NEW B, NEW F, NEW r, RowsOK(R), NEW n \in r.names, OnlyOf(A, E, B, F, n)
    PROVE  Frame(A, E, R, B, F, R, r)
BY DEF Frame, OnlyOf, OnlyRow

LEMMA RuntimeKept == ASSUME NEW A, NEW E, NEW n PROVE OnlyOf(A, E, A, E, n)
BY DEF OnlyOf

LEMMA OwnOf ==
    ASSUME NEW Q, NEW A, NEW E, NEW R, NEW X, World(Q, A, E, R, X), NEW q \in Live(Q), NEW r, r = Q[q]
    PROVE  Own(R, X, r) /\ Wellformed(r) /\ Stage(A, E, R, X, r) /\ Alone(R, X, r) /\ X \subseteq NbName /\ RowsOK(R)
<1>1. q \in NbRequest /\ Wellformed(r)
  BY LiveIs DEF World, Live
<1>2. Stage(A, E, R, X, r) /\ Alone(R, X, r)
  BY DEF World, Stages
<1>3. r.op = "create" => r.new.id \notin DOMAIN R
  BY DEF World, Fresh
<1> QED BY <1>1, <1>2, <1>3 DEF World, Own

\* It goes on as p, or is over.
LEMMA OnWorld ==
    ASSUME NEW Q, NEW A, NEW E, NEW R, NEW X, World(Q, A, E, R, X), NEW q \in Live(Q), NEW r, r = Q[q],
           NEW B, NEW F, NEW S, Frame(A, E, R, B, F, S, r),
           NEW p, Wellformed(p), Same(r, p), Stage(B, F, S, X, p), r.op = "create" => r.new.id \notin DOMAIN S
    PROVE  World([Q EXCEPT ![q] = p], B, F, S, X)
<1>1. Alone(R, X, r) /\ X \subseteq NbName
  BY OwnOf
<1>2. Moves(A, E, R, X, B, F, S, X, r)
  BY <1>1 DEF Moves, Frame
<1>3. \A j \in DOMAIN S : j # r.new.id => j \in DOMAIN R /\ S[j] = R[j]
  BY <1>2, NameAfter
<1>4. p.new = r.new /\ p.names = r.names /\ p.old = r.old /\ p.undoing = r.undoing /\ p.op = r.op /\ p.clean = r.clean
  BY DEF Same
<1>5. Alone(S, X, p)
  BY <1>1, <1>3, <1>4 DEF Alone
<1>6. Lives(B, F, S, X, r, p)
  BY <1>4, <1>5 DEF Lives, Sibling
<1> QED BY <1>2, <1>6, LivesOn

LEMMA EndWorld ==
    ASSUME NEW Q, NEW A, NEW E, NEW R, NEW X, World(Q, A, E, R, X), NEW q \in Live(Q), NEW r, r = Q[q],
           NEW B, NEW F, NEW S, Frame(A, E, R, B, F, S, r), Settled(B, F, S, EndX(X, r), r.names),
           r.clean /\ ~r.undoing /\ r.op \in {"create", "update"} =>
                \A j \in DOMAIN R : j # r.new.id => R[j].name # r.new.name
    PROVE  World([Q EXCEPT ![q] = NoNbRequest], B, F, S, EndX(X, r))
<1> DEFINE Y == EndX(X, r)
<1>1. Alone(R, X, r) /\ X \subseteq NbName /\ r.names \subseteq NbName
  BY OwnOf, ReqFields
<1>2. Y \subseteq NbName /\ X \ r.names \subseteq Y /\ (~r.clean => r.names \subseteq Y) /\ (r.undoing => X \subseteq Y)
  BY <1>1 DEF EndX
<1> HIDE DEF Y
<1>3. Moves(A, E, R, X, B, F, S, Y, r)
  BY <1>2 DEF Moves, Frame
<1>4. ASSUME NEW j \in DOMAIN S, j # r.new.id, S[j].name \in r.names PROVE S[j].name \in Y
  <2>1. j \in DOMAIN R /\ S[j] = R[j]
    BY <1>3, <1>4, NameAfter
  <2>2. CASE ~r.clean
    BY <1>2, <1>4, <2>2
  <2>3. CASE r.clean /\ r.undoing
    BY <1>1, <1>2, <1>4, <2>1, <2>3 DEF Alone
  <2>4. CASE r.clean /\ ~r.undoing
    BY <1>1, <1>4, <2>1, <2>4 DEF Alone
  <2> QED BY <2>2, <2>3, <2>4
<1>5. Settled(B, F, S, Y, r.names)
  BY DEF Y
<1>6. Over(B, F, S, Y, r)
  BY <1>2, <1>4, <1>5 DEF Over
<1>7. World([Q EXCEPT ![q] = NoNbRequest], B, F, S, Y)
  BY <1>3, <1>6, IsOver
<1> QED BY <1>7 DEF Y

LEMMA FailsWorld ==
    ASSUME NEW Q, NEW A, NEW E, NEW R, NEW X, World(Q, A, E, R, X), NEW q \in Live(Q), NEW r, r = Q[q],
           NEW B, NEW F, Frame(A, E, R, B, F, R, r), NEW what, Failed(B, F, R, X, r, what),
           NEW u, u = UndoOf(r, what)
    PROVE  World([Q EXCEPT ![q] = IF u = <<>> THEN NoNbRequest ELSE Undone(r, u)], B, F, R, FailedX(X, R, r, what))
<1> DEFINE P == [Q EXCEPT ![q] = IF u = <<>> THEN NoNbRequest ELSE Undone(r, u)]
           Y == FailedX(X, R, r, what)
<1>1. /\ Wellformed(r) /\ Stage(A, E, R, X, r) /\ Alone(R, X, r) /\ X \subseteq NbName
      /\ (r.op = "create" => r.new.id \notin DOMAIN R)
  BY OwnOf DEF Own
<1>2. r \in Req /\ r.names \subseteq NbName /\ r.new.name \in r.names /\ Head(r.todo).config.name \in r.names
  BY <1>1, ReqFields, HeadIs DEF Wellformed
<1>3. Y \subseteq NbName /\ X \subseteq Y /\ Victims(R, r) \subseteq Y
  BY <1>1, <1>2 DEF FailedX, Victims
<1>4. Moves(A, E, R, X, B, F, R, Y, r)
  BY <1>3 DEF Moves, Frame
<1> DEFINE p == Undone(r, u)
<1>5. CASE u # <<>>
  <2>1. Wellformed(p) /\ Stage(B, F, R, Y, p) /\ Alone(R, Y, p)
    BY <1>5 DEF Failed
  <2>2. Sibling(r, p)
    BY <1>2 DEF Undone, Sibling, Req
  <2> HIDE DEF p
  <2>3. Lives(B, F, R, Y, r, p)
    BY <1>1, <2>1, <2>2 DEF Lives
  <2>4. P = [Q EXCEPT ![q] = p]
    BY <1>5 DEF p
  <2>8. World([Q EXCEPT ![q] = p], B, F, R, Y)
    BY <1>4, <2>3, LivesOn
  <2> QED BY <2>4, <2>8
<1>6. CASE u = <<>>
  <2>1. Settled(B, F, R, Y, r.names)
    BY <1>6 DEF Failed
  <2>2. ~r.clean => r.names \subseteq Y
    BY <1>6 DEF FailedX
  <2>3. ASSUME NEW j \in DOMAIN R, j # r.new.id, R[j].name \in r.names PROVE R[j].name \in Y
    <3>1. CASE ~r.clean
      BY <2>2, <2>3, <3>1
    <3>2. CASE r.clean /\ r.undoing
      BY <1>1, <1>3, <2>3, <3>2 DEF Alone
    <3>3. CASE r.clean /\ ~r.undoing
      <4>1. R[j].name = r.new.name
        BY <1>1, <2>3, <3>3 DEF Alone
      <4>2. R[j].name \in Victims(R, r)
        BY <2>3, <4>1 DEF Victims
      <4> QED BY <1>3, <4>2
    <3> QED BY <3>1, <3>2, <3>3
  <2>4. Over(B, F, R, Y, r)
    BY <2>1, <2>2, <2>3 DEF Over
  <2>5. P = [Q EXCEPT ![q] = NoNbRequest]
    BY <1>6
  <2>8. World([Q EXCEPT ![q] = NoNbRequest], B, F, R, Y)
    BY <1>4, <2>4, IsOver
  <2> QED BY <2>5, <2>8
<1> QED BY <1>5, <1>6

-----------------------------------------------------------------------------
(* The steps of requests.                                                   *)

LEMMA Served ==
    ASSUME NbInv, NEW q \in NbRequest, NEW what, At(q, what)
    PROVE  /\ World(nbRequest, nbAdapters, nbEnabled, nbRows, excused) /\ AdaptersOK(nbAdapters, nbEnabled)
           /\ q \in Live(nbRequest) /\ Own(nbRows, excused, nbRequest[q]) /\ Wellformed(nbRequest[q])
           /\ Stage(nbAdapters, nbEnabled, nbRows, excused, nbRequest[q])
           /\ Head(nbRequest[q].todo).do = what /\ Tail(nbRequest[q].todo) \in Seq(Step)
           /\ Arg(q) = Head(nbRequest[q].todo).config /\ Arg(q) \in Config
           /\ Arg(q).name \in nbRequest[q].names /\ Arg(q).name \in NbName /\ Arg(q).id = nbRequest[q].new.id
<1>1. World(nbRequest, nbAdapters, nbEnabled, nbRows, excused) /\ AdaptersOK(nbAdapters, nbEnabled)
  BY DEF NbInv
<1>2. q \in Live(nbRequest)
  <2>1. nbRequest[q] # NoNbRequest
    BY DEF At, NoNbRequest
  <2>2. Requests(nbRequest)
    BY <1>1 DEF World
  <2> QED BY <2>1, <2>2, LiveIs DEF Requests
<1>3. /\ Own(nbRows, excused, nbRequest[q]) /\ Wellformed(nbRequest[q])
      /\ Stage(nbAdapters, nbEnabled, nbRows, excused, nbRequest[q])
  BY <1>1, <1>2, OwnOf
<1>4. Head(nbRequest[q].todo).do = what /\ Arg(q) = Head(nbRequest[q].todo).config /\ nbRequest[q].todo # <<>>
  BY DEF At, Arg
<1>5. Tail(nbRequest[q].todo) \in Seq(Step)
  <2>1. nbRequest[q].todo \in Seq(Step)
    BY <1>3, ReqFields
  <2> QED BY <1>4, <2>1
<1>6. Arg(q) \in Config /\ Arg(q).name \in nbRequest[q].names /\ Arg(q).id = nbRequest[q].new.id
  BY <1>3, <1>4, HeadIs
<1>7. Arg(q).name \in NbName
  BY <1>3, <1>6, ReqFields
<1> QED BY <1>1, <1>2, <1>3, <1>4, <1>5, <1>6, <1>7

LEMMA GoesIs ==
    ASSUME NEW q, NEW s, Goes(q, s, {})
    PROVE  /\ nbRequest' = [nbRequest EXCEPT ![q] = IF s # <<>> THEN Onward(nbRequest[q], s) ELSE NoNbRequest]
           /\ excused' = IF s # <<>> THEN excused ELSE EndX(excused, nbRequest[q])
<1>1. CASE s # <<>>
  BY <1>1 DEF Goes, Onward
<1>2. CASE s = <<>>
  <2>1. /\ nbRequest' = [nbRequest EXCEPT ![q] = NoNbRequest]
        /\ excused' = IF nbRequest[q].clean /\ ~nbRequest[q].undoing THEN excused \ nbRequest[q].names
                      ELSE excused \cup {} \cup (IF nbRequest[q].clean THEN {} ELSE nbRequest[q].names)
    BY <1>2 DEF Goes
  <2> QED BY <1>2, <2>1 DEF EndX
<1> QED BY <1>1, <1>2

\* A step succeeds.
LEMMA GoesOnWorld ==
    ASSUME NbInv, NEW q \in NbRequest, NEW what, At(q, what), GoesOn(q),
           Frame(nbAdapters, nbEnabled, nbRows, nbAdapters', nbEnabled', nbRows', nbRequest[q]),
           After(nbAdapters', nbEnabled', nbRows', excused, nbRequest[q], Tail(nbRequest[q].todo)),
           nbRequest[q].op = "create" /\ what # "insert" => nbRows' = nbRows,
           what \in {"insert", "save"} /\ nbRequest[q].clean =>
                \A j \in DOMAIN nbRows : j # nbRequest[q].new.id => nbRows[j].name # nbRequest[q].new.name
    PROVE  World(nbRequest', nbAdapters', nbEnabled', nbRows', excused')
<1> DEFINE r == nbRequest[q]
           s == Tail(r.todo)
<1>1. /\ World(nbRequest, nbAdapters, nbEnabled, nbRows, excused) /\ q \in Live(nbRequest)
      /\ Own(nbRows, excused, r) /\ Wellformed(r) /\ Stage(nbAdapters, nbEnabled, nbRows, excused, r)
      /\ Head(r.todo).do = what /\ s \in Seq(Step)
  BY Served
<1>2. /\ nbRequest' = [nbRequest EXCEPT ![q] = IF s # <<>> THEN Onward(r, s) ELSE NoNbRequest]
      /\ excused' = IF s # <<>> THEN excused ELSE EndX(excused, r)
  <2>1. Goes(q, s, {})
    BY DEF GoesOn
  <2> HIDE DEF s
  <2> QED BY <2>1, GoesIs
<1>3. s # <<>> /\ r.op = "create" => r.new.id \notin DOMAIN nbRows'
  <2>1. what = "insert" => s = <<>>
    BY <1>1, RestHead
  <2> QED BY <1>1, <2>1 DEF Own
<1>4. s = <<>> /\ r.clean /\ ~r.undoing /\ r.op \in {"create", "update"} =>
        \A j \in DOMAIN nbRows : j # r.new.id => nbRows[j].name # r.new.name
  BY <1>1, EndHead
<1> HIDE DEF s, r
<1>5. r = nbRequest[q]
  BY DEF r
<1>6. Frame(nbAdapters, nbEnabled, nbRows, nbAdapters', nbEnabled', nbRows', r)
  BY <1>5
<1>7. After(nbAdapters', nbEnabled', nbRows', excused, r, s)
  BY <1>5 DEF s
<1>8. CASE s # <<>>
  <2> DEFINE p == Onward(r, s)
  <2>1. Wellformed(p) /\ Same(r, p)
    BY <1>1, <1>8, OnwardIs
  <2>2. Stage(nbAdapters', nbEnabled', nbRows', excused, p)
    BY <1>7, <1>8 DEF After
  <2>3. nbRequest' = [nbRequest EXCEPT ![q] = p] /\ excused' = excused
    BY <1>2, <1>8
  <2>4. r.op = "create" => r.new.id \notin DOMAIN nbRows'
    BY <1>3, <1>8
  <2> HIDE DEF p
  <2>5. World([nbRequest EXCEPT ![q] = p], nbAdapters', nbEnabled', nbRows', excused)
    BY <1>1, <1>5, <1>6, <2>1, <2>2, <2>4, OnWorld
  <2> QED BY <2>3, <2>5
<1>9. CASE s = <<>>
  <2>1. Settled(nbAdapters', nbEnabled', nbRows', EndX(excused, r), r.names)
    BY <1>7, <1>9 DEF After
  <2>2. nbRequest' = [nbRequest EXCEPT ![q] = NoNbRequest] /\ excused' = EndX(excused, r)
    BY <1>2, <1>9
  <2>3. r.clean /\ ~r.undoing /\ r.op \in {"create", "update"} =>
            \A j \in DOMAIN nbRows : j # r.new.id => nbRows[j].name # r.new.name
    BY <1>4, <1>9
  <2>4. World([nbRequest EXCEPT ![q] = NoNbRequest], nbAdapters', nbEnabled', nbRows', EndX(excused, r))
    BY <1>1, <1>5, <1>6, <2>1, <2>3, EndWorld
  <2> QED BY <2>2, <2>4
<1> QED BY <1>8, <1>9

LEMMA AdapterIs ==
    ASSUME NEW a \in [version : 0 .. MaxRequests, started : BOOLEAN]
    PROVE  a # NoAdapter
<1>1. a.version >= 0
  OBVIOUS
<1>2. NoAdapter.version < 0
  BY DEF NoAdapter
<1> QED BY <1>1, <1>2

LEMMA SetEnabledIs ==
    ASSUME AdaptersOK(nbAdapters, nbEnabled), NEW n \in NbName, NEW on \in BOOLEAN, SetEnabled(n, on)
    PROVE  /\ OnlyOf(nbAdapters, nbEnabled, nbAdapters', nbEnabled', n) /\ nbEnabled'[n] = on
           /\ nbAdapters[n] = NoAdapter => nbAdapters'[n] = NoAdapter
           /\ nbAdapters[n] # NoAdapter => nbAdapters'[n] = [nbAdapters[n] EXCEPT !.started = on] /\ nbAdapters'[n] # NoAdapter
           /\ AdaptersOK(nbAdapters', nbEnabled')
<1>1. /\ nbAdapters \in [NbName -> [version : 0 .. MaxRequests, started : BOOLEAN] \cup {NoAdapter}]
      /\ nbEnabled \in [NbName -> BOOLEAN]
  BY DEF AdaptersOK
<1>2. nbEnabled' = [nbEnabled EXCEPT ![n] = on]
  BY DEF SetEnabled
<1>3. nbEnabled' \in [NbName -> BOOLEAN] /\ nbEnabled'[n] = on /\ \A m \in NbName \ {n} : nbEnabled'[m] = nbEnabled[m]
  BY <1>1, <1>2
<1>4. CASE nbAdapters[n] = NoAdapter
  <2>1. nbAdapters' = nbAdapters
    BY <1>4 DEF SetEnabled
  <2> QED BY <1>1, <1>3, <1>4, <2>1 DEF OnlyOf, AdaptersOK
<1>5. CASE nbAdapters[n] # NoAdapter
  <2>1. nbAdapters[n] \in [version : 0 .. MaxRequests, started : BOOLEAN]
    BY <1>1, <1>5
  <2> DEFINE a == [nbAdapters[n] EXCEPT !.started = on]
  <2>2. a \in [version : 0 .. MaxRequests, started : BOOLEAN]
    BY <2>1
  <2>3. a # NoAdapter
    BY <2>2, AdapterIs
  <2>4. nbAdapters' = [nbAdapters EXCEPT ![n] = a]
    BY <1>5 DEF SetEnabled
  <2> HIDE DEF a
  <2>5. /\ nbAdapters'[n] = a /\ \A m \in NbName \ {n} : nbAdapters'[m] = nbAdapters[m]
        /\ nbAdapters' \in [NbName -> [version : 0 .. MaxRequests, started : BOOLEAN] \cup {NoAdapter}]
    BY <1>1, <2>2, <2>4
  <2>6. OnlyOf(nbAdapters, nbEnabled, nbAdapters', nbEnabled', n) /\ AdaptersOK(nbAdapters', nbEnabled')
    BY <1>3, <2>5 DEF OnlyOf, AdaptersOK
  <2> QED BY <1>3, <1>5, <2>3, <2>5, <2>6 DEF a
<1> QED BY <1>4, <1>5

LEMMA UnregisterWorld ==
    ASSUME NbInv, NEW q \in NbRequest, Unregister(q)
    PROVE  /\ World(nbRequest', nbAdapters', nbEnabled', nbRows', excused') /\ AdaptersOK(nbAdapters', nbEnabled')
<1> DEFINE r == nbRequest[q]
           n == Arg(q).name
<1>0. At(q, "remove") /\ GoesOn(q) /\ nbRows' = nbRows
  BY DEF Unregister
<1>1. /\ AdaptersOK(nbAdapters, nbEnabled) /\ Own(nbRows, excused, r) /\ Stage(nbAdapters, nbEnabled, nbRows, excused, r)
      /\ Head(r.todo).do = "remove" /\ Arg(q) = Head(r.todo).config /\ n \in r.names /\ n \in NbName
  BY <1>0, Served
<1>2. nbAdapters' = [nbAdapters EXCEPT ![n] = NoAdapter] /\ nbEnabled' = [nbEnabled EXCEPT ![n] = FALSE]
  BY DEF Unregister
<1> HIDE DEF n
<1>3. /\ OnlyOf(nbAdapters, nbEnabled, nbAdapters', nbEnabled', n) /\ Off(nbAdapters', nbEnabled', n)
      /\ AdaptersOK(nbAdapters', nbEnabled')
  BY <1>1, <1>2 DEF AdaptersOK, OnlyOf, Off
<1>4. After(nbAdapters', nbEnabled', nbRows, excused, r, Tail(r.todo))
  <2>1. n = Head(r.todo).config.name
    BY <1>1 DEF n
  <2> QED BY <1>1, <1>3, <2>1, UnregisterOwn
<1>5. Frame(nbAdapters, nbEnabled, nbRows, nbAdapters', nbEnabled', nbRows', r)
  <2>1. RowsOK(nbRows)
    BY <1>1 DEF Own
  <2> QED BY <1>0, <1>1, <1>3, <2>1, RowsKept
<1>6. After(nbAdapters', nbEnabled', nbRows', excused, r, Tail(r.todo))
  BY <1>0, <1>4
<1>7. World(nbRequest', nbAdapters', nbEnabled', nbRows', excused')
  BY <1>0, <1>5, <1>6, GoesOnWorld
<1> QED BY <1>3, <1>7

LEMMA DisableWorld ==
    ASSUME NbInv, NEW q \in NbRequest, Disable(q)
    PROVE  World(nbRequest', nbAdapters', nbEnabled', nbRows', excused') /\ AdaptersOK(nbAdapters', nbEnabled')
<1> DEFINE r == nbRequest[q]
           n == Arg(q).name
<1>0. At(q, "disable") /\ GoesOn(q) /\ nbRows' = nbRows /\ SetEnabled(n, FALSE)
  BY DEF Disable
<1>1. /\ AdaptersOK(nbAdapters, nbEnabled) /\ Own(nbRows, excused, r) /\ Stage(nbAdapters, nbEnabled, nbRows, excused, r)
      /\ Head(r.todo).do = "disable" /\ n = Head(r.todo).config.name /\ n \in r.names /\ n \in NbName /\ RowsOK(nbRows)
  BY <1>0, Served DEF Own
<1> HIDE DEF n
<1>3. /\ OnlyOf(nbAdapters, nbEnabled, nbAdapters', nbEnabled', n) /\ nbEnabled'[n] = FALSE
      /\ nbAdapters[n] = NoAdapter => nbAdapters'[n] = NoAdapter
      /\ AdaptersOK(nbAdapters', nbEnabled')
  BY <1>0, <1>1, SetEnabledIs
<1>4. After(nbAdapters', nbEnabled', nbRows, excused, r, Tail(r.todo))
  BY <1>1, <1>3, DisableOwn
<1>5. Frame(nbAdapters, nbEnabled, nbRows, nbAdapters', nbEnabled', nbRows', r)
  BY <1>0, <1>1, <1>3, RowsKept
<1>6. After(nbAdapters', nbEnabled', nbRows', excused, r, Tail(r.todo))
  BY <1>0, <1>4
<1>7. World(nbRequest', nbAdapters', nbEnabled', nbRows', excused')
  BY <1>0, <1>5, <1>6, GoesOnWorld
<1> QED BY <1>3, <1>7

LEMMA StartWorld ==
    ASSUME NbInv, NEW q \in NbRequest, Start(q)
    PROVE  World(nbRequest', nbAdapters', nbEnabled', nbRows', excused') /\ AdaptersOK(nbAdapters', nbEnabled')
<1> DEFINE r == nbRequest[q]
           n == Arg(q).name
<1>0. At(q, "start") /\ GoesOn(q) /\ nbRows' = nbRows /\ SetEnabled(n, TRUE)
  BY DEF Start
<1>1. /\ AdaptersOK(nbAdapters, nbEnabled) /\ Own(nbRows, excused, r) /\ Stage(nbAdapters, nbEnabled, nbRows, excused, r)
      /\ Head(r.todo).do = "start" /\ n = Head(r.todo).config.name /\ n \in r.names /\ n \in NbName /\ RowsOK(nbRows)
  BY <1>0, Served DEF Own
<1> HIDE DEF n
<1>3. /\ OnlyOf(nbAdapters, nbEnabled, nbAdapters', nbEnabled', n) /\ nbEnabled'[n] = TRUE
      /\ nbAdapters[n] # NoAdapter => nbAdapters'[n] = [nbAdapters[n] EXCEPT !.started = TRUE]
      /\ AdaptersOK(nbAdapters', nbEnabled')
  BY <1>0, <1>1, SetEnabledIs
<1>4. After(nbAdapters', nbEnabled', nbRows, excused, r, Tail(r.todo))
  BY <1>1, <1>3, StartOwn
<1>5. Frame(nbAdapters, nbEnabled, nbRows, nbAdapters', nbEnabled', nbRows', r)
  BY <1>0, <1>1, <1>3, RowsKept
<1>6. After(nbAdapters', nbEnabled', nbRows', excused, r, Tail(r.todo))
  BY <1>0, <1>4
<1>7. World(nbRequest', nbAdapters', nbEnabled', nbRows', excused')
  BY <1>0, <1>5, <1>6, GoesOnWorld
<1> QED BY <1>3, <1>7

LEMMA InitializeWorld ==
    ASSUME NbInv, NEW q \in NbRequest, Initialize(q)
    PROVE  World(nbRequest', nbAdapters', nbEnabled', nbRows', excused') /\ AdaptersOK(nbAdapters', nbEnabled')
<1> DEFINE r == nbRequest[q]
           n == Arg(q).name
<1>0. At(q, "initialize") /\ GoesOn(q) /\ nbRows' = nbRows /\ nbAdapters' = nbAdapters /\ nbEnabled' = nbEnabled
  BY DEF Initialize
<1>1. /\ AdaptersOK(nbAdapters, nbEnabled) /\ Own(nbRows, excused, r) /\ Stage(nbAdapters, nbEnabled, nbRows, excused, r)
      /\ Head(r.todo).do = "initialize" /\ n \in r.names /\ RowsOK(nbRows)
  BY <1>0, Served DEF Own
<1> HIDE DEF n
<1>3. OnlyOf(nbAdapters, nbEnabled, nbAdapters, nbEnabled, n)
  BY RuntimeKept
<1>4. After(nbAdapters, nbEnabled, nbRows, excused, r, Tail(r.todo))
  BY <1>1, InitializeOwn
<1>5. Frame(nbAdapters, nbEnabled, nbRows, nbAdapters', nbEnabled', nbRows', r)
  BY <1>0, <1>1, <1>3, RowsKept
<1>6. After(nbAdapters', nbEnabled', nbRows', excused, r, Tail(r.todo))
  BY <1>0, <1>4
<1>7. World(nbRequest', nbAdapters', nbEnabled', nbRows', excused')
  BY <1>0, <1>5, <1>6, GoesOnWorld
<1> QED BY <1>0, <1>1, <1>7

LEMMA RegisterWorld ==
    ASSUME NbInv, NEW q \in NbRequest, Register(q)
    PROVE  World(nbRequest', nbAdapters', nbEnabled', nbRows', excused') /\ AdaptersOK(nbAdapters', nbEnabled')
<1> DEFINE r == nbRequest[q]
           d == Arg(q)
           a == [version |-> d.version, started |-> FALSE]
<1>0. At(q, "register") /\ GoesOn(q) /\ nbRows' = nbRows
  BY DEF Register
<1>1. /\ AdaptersOK(nbAdapters, nbEnabled) /\ Own(nbRows, excused, r) /\ Stage(nbAdapters, nbEnabled, nbRows, excused, r)
      /\ Head(r.todo).do = "register" /\ d = Head(r.todo).config /\ d.name \in r.names /\ d.name \in NbName /\ RowsOK(nbRows)
      /\ d \in Config
  BY <1>0, Served DEF Own
<1>2. nbAdapters' = [nbAdapters EXCEPT ![d.name] = a] /\ nbEnabled' = [nbEnabled EXCEPT ![d.name] = TRUE]
  BY DEF Register
<1>8. a \in [version : 0 .. MaxRequests, started : BOOLEAN]
  BY <1>1 DEF Config
<1> HIDE DEF d, a
<1>3. /\ OnlyOf(nbAdapters, nbEnabled, nbAdapters', nbEnabled', d.name) /\ nbAdapters'[d.name] = a
      /\ AdaptersOK(nbAdapters', nbEnabled')
  BY <1>1, <1>2, <1>8 DEF AdaptersOK, OnlyOf
<1>4. After(nbAdapters', nbEnabled', nbRows, excused, r, Tail(r.todo))
  BY <1>1, <1>3, RegisterOwn DEF a
<1>5. Frame(nbAdapters, nbEnabled, nbRows, nbAdapters', nbEnabled', nbRows', r)
  BY <1>0, <1>1, <1>3, RowsKept
<1>6. After(nbAdapters', nbEnabled', nbRows', excused, r, Tail(r.todo))
  BY <1>0, <1>4
<1>7. World(nbRequest', nbAdapters', nbEnabled', nbRows', excused')
  BY <1>0, <1>5, <1>6, GoesOnWorld
<1> QED BY <1>3, <1>7

LEMMA MissingWorld ==
    ASSUME NbInv, NEW q \in NbRequest, Missing(q)
    PROVE  World(nbRequest', nbAdapters', nbEnabled', nbRows', excused') /\ AdaptersOK(nbAdapters', nbEnabled')
<1> DEFINE r == nbRequest[q]
           s == Rebuild(r.old)
           Y == excused \cup (IF r.clean THEN {} ELSE r.names)
<1>0. At(q, "missing") /\ nbRows' = nbRows /\ nbAdapters' = nbAdapters /\ nbEnabled' = nbEnabled
  BY DEF Missing
<1>1. /\ AdaptersOK(nbAdapters, nbEnabled) /\ Own(nbRows, excused, r) /\ Stage(nbAdapters, nbEnabled, nbRows, excused, r)
      /\ Head(r.todo).do = "missing" /\ Arg(q) = Head(r.todo).config /\ Arg(q).name \in r.names /\ RowsOK(nbRows)
      /\ World(nbRequest, nbAdapters, nbEnabled, nbRows, excused) /\ q \in Live(nbRequest) /\ Wellformed(r)
      /\ Alone(nbRows, excused, r) /\ excused \subseteq NbName /\ (r.op = "create" => r.new.id \notin DOMAIN nbRows)
  BY <1>0, Served DEF Own
<1>2. /\ Settled(nbAdapters, nbEnabled, nbRows, Y, r.names) /\ Head(r.todo).config = r.old /\ r.op = "sync" /\ ~r.undoing
      /\ Stage(nbAdapters, nbEnabled, nbRows, excused, Onward(r, s)) /\ s # <<>> /\ s \in Seq(Step)
  <2>1. Own(nbRows, excused, r) /\ Stage(nbAdapters, nbEnabled, nbRows, excused, r) /\ Head(r.todo).do = "missing"
    BY <1>1
  <2> HIDE DEF r
  <2> QED BY <2>1, MissingOwn
<1>3. Frame(nbAdapters, nbEnabled, nbRows, nbAdapters, nbEnabled, nbRows, r)
  BY <1>1, RuntimeKept, RowsKept
<1>4. CASE nbAdapters[Arg(q).name] # NoAdapter
  <2>1. nbRequest' = [nbRequest EXCEPT ![q] = NoNbRequest] /\ excused' = Y
    BY <1>4 DEF Missing, LeavesAlone
  <2>2. Y \subseteq NbName /\ excused \subseteq Y /\ (~r.clean => r.names \subseteq Y)
    BY <1>1, ReqFields
  <2> HIDE DEF Y
  <2>3. Moves(nbAdapters, nbEnabled, nbRows, excused, nbAdapters, nbEnabled, nbRows, Y, r)
    BY <1>3, <2>2 DEF Moves, Frame
  <2>5. ASSUME NEW j \in DOMAIN nbRows, j # r.new.id, nbRows[j].name \in r.names PROVE nbRows[j].name \in Y
    BY <1>1, <1>2, <2>2, <2>5 DEF Alone
  <2>6. Over(nbAdapters, nbEnabled, nbRows, Y, r)
    BY <1>2, <2>2, <2>5 DEF Over, Y
  <2>7. World([nbRequest EXCEPT ![q] = NoNbRequest], nbAdapters, nbEnabled, nbRows, Y)
    BY <1>1, <2>3, <2>6, IsOver
  <2> QED BY <1>0, <1>1, <2>1, <2>7
<1>5. CASE nbAdapters[Arg(q).name] = NoAdapter
  <2>1. Goes(q, s, {})
    BY <1>1, <1>2, <1>5 DEF Missing
  <2> DEFINE p == Onward(r, s)
  <2> HIDE DEF s
  <2>2. nbRequest' = [nbRequest EXCEPT ![q] = p] /\ excused' = excused
    BY <1>2, <2>1, GoesIs
  <2>3. Wellformed(p) /\ Same(r, p) /\ Stage(nbAdapters, nbEnabled, nbRows, excused, p)
    BY <1>1, <1>2, OnwardIs
  <2> HIDE DEF p
  <2>4. World([nbRequest EXCEPT ![q] = p], nbAdapters, nbEnabled, nbRows, excused)
    BY <1>1, <1>3, <2>3, OnWorld
  <2> QED BY <1>0, <1>1, <2>2, <2>4
<1> QED BY <1>4, <1>5

LEMMA FailsIs ==
    ASSUME NEW q, NEW what, Fails(q, what), NEW r, r = nbRequest[q], NEW u, u = UndoOf(r, what)
    PROVE  /\ nbRequest' = [nbRequest EXCEPT ![q] = IF u = <<>> THEN NoNbRequest ELSE Undone(r, u)]
           /\ excused' = FailedX(excused, nbRows, r, what)
<1>1. nbRequest' = [nbRequest EXCEPT ![q] = IF u = <<>> THEN NoNbRequest ELSE Undone(r, u)]
  BY DEF Fails, UndoOf, Undone
<1>2. excused' = FailedX(excused, nbRows, r, what)
  BY DEF Fails, UndoOf, FailedX, Victims, Arg
<1> QED BY <1>1, <1>2

\* A step fails.
LEMMA FailedWorld ==
    ASSUME NbInv, NEW q \in NbRequest, NEW what, At(q, what), Fails(q, what), nbRows' = nbRows,
           Frame(nbAdapters, nbEnabled, nbRows, nbAdapters', nbEnabled', nbRows, nbRequest[q]),
           Failed(nbAdapters', nbEnabled', nbRows, excused, nbRequest[q], what)
    PROVE  World(nbRequest', nbAdapters', nbEnabled', nbRows', excused')
<1> DEFINE r == nbRequest[q]
           u == UndoOf(r, what)
<1>1. World(nbRequest, nbAdapters, nbEnabled, nbRows, excused) /\ q \in Live(nbRequest)
  BY Served
<1> HIDE DEF r, u
<1>2. r = nbRequest[q] /\ u = UndoOf(r, what)
  BY DEF r, u
<1>3. /\ nbRequest' = [nbRequest EXCEPT ![q] = IF u = <<>> THEN NoNbRequest ELSE Undone(r, u)]
      /\ excused' = FailedX(excused, nbRows, r, what)
  BY <1>2, FailsIs
<1>4. /\ Frame(nbAdapters, nbEnabled, nbRows, nbAdapters', nbEnabled', nbRows, r)
      /\ Failed(nbAdapters', nbEnabled', nbRows, excused, r, what)
  BY <1>2
<1>5. World([nbRequest EXCEPT ![q] = IF u = <<>> THEN NoNbRequest ELSE Undone(r, u)],
            nbAdapters', nbEnabled', nbRows, FailedX(excused, nbRows, r, what))
  BY <1>1, <1>2, <1>4, FailsWorld
<1> QED BY <1>3, <1>5

LEMMA InitializeFailsWorld ==
    ASSUME NbInv, NEW q \in NbRequest, InitializeFails(q)
    PROVE  World(nbRequest', nbAdapters', nbEnabled', nbRows', excused') /\ AdaptersOK(nbAdapters', nbEnabled')
<1> DEFINE r == nbRequest[q]
           n == Arg(q).name
<1>0. At(q, "initialize") /\ Fails(q, "initialize") /\ nbRows' = nbRows /\ SetEnabled(n, FALSE)
  BY DEF InitializeFails
<1>1. /\ AdaptersOK(nbAdapters, nbEnabled) /\ Own(nbRows, excused, r) /\ Stage(nbAdapters, nbEnabled, nbRows, excused, r)
      /\ Head(r.todo).do = "initialize" /\ n = Head(r.todo).config.name /\ n \in r.names /\ n \in NbName /\ RowsOK(nbRows)
  BY <1>0, Served DEF Own
<1> HIDE DEF n
<1>3. /\ OnlyOf(nbAdapters, nbEnabled, nbAdapters', nbEnabled', n) /\ nbEnabled'[n] = FALSE
      /\ nbAdapters[n] = NoAdapter => nbAdapters'[n] = NoAdapter
      /\ AdaptersOK(nbAdapters', nbEnabled')
  BY <1>0, <1>1, SetEnabledIs
<1>4. Failed(nbAdapters', nbEnabled', nbRows, excused, r, "initialize")
  BY <1>1, <1>3, InitializeFailsOwn
<1>5. Frame(nbAdapters, nbEnabled, nbRows, nbAdapters', nbEnabled', nbRows, r)
  BY <1>1, <1>3, RowsKept
<1>7. World(nbRequest', nbAdapters', nbEnabled', nbRows', excused')
  BY <1>0, <1>4, <1>5, FailedWorld
<1> QED BY <1>3, <1>7

LEMMA WrittenFrame ==
    ASSUME NEW A, NEW E, NEW R, RowsOK(R), NEW r, NEW c \in Config, c.id = r.new.id,
           \A j \in DOMAIN R : j # c.id => R[j].name # c.name,
           c.name \in r.names \/ (r.new.id \in DOMAIN R /\ c.name = R[r.new.id].name),
           r.op # "create" => r.new.id \in DOMAIN R
    PROVE  Frame(A, E, R, A, E, With(R, c.id, c), r)
<1> DEFINE S == With(R, c.id, c)
<1>1. RowsOK(S)
  BY WithRows
<1>2. DOMAIN S = DOMAIN R \cup {c.id} /\ S[c.id] = c /\ (\A j \in DOMAIN R : j # c.id => S[j] = R[j])
  BY DEF With
<1> HIDE DEF S
<1>3. Frame(A, E, R, A, E, S, r)
  BY <1>1, <1>2 DEF Frame, OnlyRow
<1> QED BY <1>3 DEF S

LEMMA WrittenIs ==
    ASSUME NEW q, NEW c, c = Arg(q)
    PROVE  /\ At(q, "insert") => NbWritten(q) = With(nbRows, c.id, c)
           /\ At(q, "save") => NbWritten(q) = IF c.id \in DOMAIN nbRows THEN With(nbRows, c.id, c) ELSE nbRows
           /\ At(q, "flag") => NbWritten(q) = IF c.id \in DOMAIN nbRows
                                              THEN With(nbRows, c.id, [nbRows[c.id] EXCEPT !.enabled = c.enabled])
                                              ELSE nbRows
           /\ At(q, "delete") => NbWritten(q) = [j \in DOMAIN nbRows \ {c.id} |-> nbRows[j]]
<1>1. At(q, "insert") => NbWritten(q) = With(nbRows, c.id, c)
  BY DEF At, NbWritten, Inserted, Put, With
<1>2. At(q, "save") => NbWritten(q) = IF c.id \in DOMAIN nbRows THEN With(nbRows, c.id, c) ELSE nbRows
  BY DEF At, NbWritten, Saved, There, Put, With
<1>3. At(q, "flag") => NbWritten(q) = IF c.id \in DOMAIN nbRows
                                      THEN With(nbRows, c.id, [nbRows[c.id] EXCEPT !.enabled = c.enabled])
                                      ELSE nbRows
  BY DEF At, NbWritten, Flagged, There, Put, With
<1>4. At(q, "delete") => NbWritten(q) = [j \in DOMAIN nbRows \ {c.id} |-> nbRows[j]]
  BY DEF At, NbWritten, Deleted
<1> QED BY <1>1, <1>2, <1>3, <1>4

LEMMA WriteOwn ==
    ASSUME NbInv, NEW q \in NbRequest, NEW w \in Statement, At(q, w), ~Refused(q), NEW S, S = NbWritten(q),
           NEW r, r = nbRequest[q]
    PROVE  /\ Frame(nbAdapters, nbEnabled, nbRows, nbAdapters, nbEnabled, S, r)
           /\ After(nbAdapters, nbEnabled, S, excused, r, Tail(r.todo))
           /\ r.op = "create" /\ w # "insert" => S = nbRows
           /\ w \in {"insert", "save"} /\ r.clean => \A j \in DOMAIN nbRows : j # r.new.id => nbRows[j].name # r.new.name
<1> DEFINE c == Arg(q)
           R == nbRows
           A == nbAdapters
           E == nbEnabled
           X == excused
<1>1. /\ Own(R, X, r) /\ Stage(A, E, R, X, r) /\ Wellformed(r) /\ RowsOK(R) /\ (r.op = "create" => r.new.id \notin DOMAIN R)
      /\ Head(r.todo).do = w /\ c = Head(r.todo).config /\ c \in Config /\ c.name \in r.names /\ c.id = r.new.id
  BY Served DEF Own
<1>2. c = Arg(q)
  OBVIOUS
<1> HIDE DEF c
<1>3. Frame(A, E, R, A, E, R, r)
  BY <1>1, RuntimeKept, RowsKept
<1>4. CASE w = "insert"
  <2>1. S = With(R, c.id, c)
    BY <1>2, <1>4, WrittenIs
  <2>2. \A j \in DOMAIN R : R[j].name # c.name
    BY <1>2, <1>4 DEF Refused, Taken
  <2>3. c = r.new /\ r.op = "create"
    BY <1>1, <1>4, RestHead
  <2>4. After(A, E, S, X, r, Tail(r.todo))
    BY <1>1, <1>4, <2>1, <2>2, <2>3, InsertOwn
  <2>5. Frame(A, E, R, A, E, S, r)
    BY <1>1, <2>1, <2>2, <2>3, WrittenFrame
  <2> QED BY <1>4, <2>2, <2>3, <2>4, <2>5
<1>5. CASE w = "save"
  <2>1. S = IF c.id \in DOMAIN R THEN With(R, c.id, c) ELSE R
    BY <1>2, <1>5, WrittenIs
  <2>2. c.id \in DOMAIN R => \A j \in DOMAIN R : j # c.id => R[j].name # c.name
    BY <1>2, <1>5 DEF Refused, There
  <2>3. c = r.new /\ r.op = "update" /\ (r.clean => Holds(R, r.old)) /\ r.old.id = r.new.id
    <3>1. Head(r.todo).do \in {"insert", "save"} /\ Head(r.todo).do = "save"
      BY <1>1, <1>5
    <3>2. c = r.new
      BY <1>1, <3>1, RestHead
    <3>3. r.op = "update" /\ (r.clean => Holds(R, r.old) /\ (r.old.name # r.new.name => Off(A, E, r.old.name)))
      BY <1>1, <3>1, RestHead
    <3> QED BY <1>1, <3>2, <3>3, ReqFields
  <2>4. After(A, E, S, X, r, Tail(r.todo))
    BY <1>1, <1>5, <2>1, <2>2, <2>3, SaveOwn
  <2>5. Frame(A, E, R, A, E, S, r)
    <3>1. CASE c.id \in DOMAIN R
      BY <1>1, <2>1, <2>2, <2>3, <3>1, WrittenFrame
    <3>2. CASE c.id \notin DOMAIN R
      BY <1>3, <2>1, <3>2
    <3> QED BY <3>1, <3>2
  <2>6. r.clean => \A j \in DOMAIN R : j # r.new.id => R[j].name # r.new.name
    BY <2>2, <2>3 DEF Holds
  <2> QED BY <1>5, <2>3, <2>4, <2>5, <2>6
<1>6. CASE w = "flag"
  <2>1. S = IF c.id \in DOMAIN R THEN With(R, c.id, [R[c.id] EXCEPT !.enabled = c.enabled]) ELSE R
    BY <1>2, <1>6, WrittenIs
  <2>2. r.op = "toggle"
    BY <1>1, <1>6, FlagHead
  <2>3. After(A, E, S, X, r, Tail(r.todo))
    BY <1>1, <1>6, <2>1, FlagOwn
  <2>4. Frame(A, E, R, A, E, S, r)
    <3>1. CASE c.id \in DOMAIN R
      <4> DEFINE f == [R[c.id] EXCEPT !.enabled = c.enabled]
      <4>1. R[c.id] \in Config /\ R[c.id].id = c.id
        BY <1>1, <3>1 DEF RowsOK
      <4>2. f \in Config /\ f.id = c.id /\ f.name = R[c.id].name
        BY <1>1, <4>1, FlagIs
      <4>3. S = With(R, f.id, f)
        BY <2>1, <3>1, <4>2
      <4> HIDE DEF f
      <4>4. \A j \in DOMAIN R : j # f.id => R[j].name # f.name
        BY <1>1, <3>1, <4>2 DEF RowsOK
      <4> QED BY <1>1, <3>1, <4>2, <4>3, <4>4, WrittenFrame
    <3>2. CASE c.id \notin DOMAIN R
      BY <1>3, <2>1, <3>2
    <3> QED BY <3>1, <3>2
  <2> QED BY <1>6, <2>2, <2>3, <2>4
<1>7. CASE w = "delete"
  <2>1. S = [j \in DOMAIN R \ {c.id} |-> R[j]]
    BY <1>2, <1>7, WrittenIs
  <2>2. r.op = "delete"
    BY <1>1, <1>7, DeleteHead
  <2>3. After(A, E, S, X, r, Tail(r.todo))
    <3>1. S = [j \in DOMAIN R \ {Head(r.todo).config.id} |-> R[j]] /\ Head(r.todo).do = "delete"
      BY <1>1, <1>7, <2>1
    <3> QED BY <1>1, <3>1, DeleteOwn
  <2>4. RowsOK(S)
    BY <1>1, <2>1 DEF RowsOK
  <2>5. Frame(A, E, R, A, E, S, r)
    BY <1>1, <2>1, <2>4 DEF Frame, OnlyRow
  <2> QED BY <1>7, <2>2, <2>3, <2>5
<1> QED BY <1>4, <1>5, <1>6, <1>7 DEF Statement

LEMMA WriteWorld ==
    ASSUME NbInv, NEW q \in NbRequest, Write(q)
    PROVE  World(nbRequest', nbAdapters', nbEnabled', nbRows', excused') /\ AdaptersOK(nbAdapters', nbEnabled')
<1>1. PICK w \in Statement : At(q, w)
  BY DEF Write
<1>2. ~Refused(q) /\ nbRows' = NbWritten(q) /\ GoesOn(q) /\ nbAdapters' = nbAdapters /\ nbEnabled' = nbEnabled
  BY DEF Write
<1> DEFINE r == nbRequest[q]
<1>3. /\ Frame(nbAdapters, nbEnabled, nbRows, nbAdapters, nbEnabled, nbRows', r)
      /\ After(nbAdapters, nbEnabled, nbRows', excused, r, Tail(r.todo))
      /\ r.op = "create" /\ w # "insert" => nbRows' = nbRows
      /\ w \in {"insert", "save"} /\ r.clean => \A j \in DOMAIN nbRows : j # r.new.id => nbRows[j].name # r.new.name
  BY <1>1, <1>2, WriteOwn
<1>4. World(nbRequest', nbAdapters', nbEnabled', nbRows', excused')
  BY <1>1, <1>2, <1>3, GoesOnWorld
<1> QED BY <1>2, <1>4 DEF NbInv

LEMMA WriteFailsWorld ==
    ASSUME NbInv, NEW q \in NbRequest, WriteFails(q)
    PROVE  World(nbRequest', nbAdapters', nbEnabled', nbRows', excused') /\ AdaptersOK(nbAdapters', nbEnabled')
<1> DEFINE r == nbRequest[q]
           R == nbRows
           A == nbAdapters
           E == nbEnabled
           X == excused
<1>1. PICK w \in Statement : /\ At(q, w)
                             /\ IF r.undoing THEN Goes(q, Tail(r.todo), {Arg(q).name}) ELSE Fails(q, w)
  BY DEF WriteFails
<1>2. nbRows' = nbRows /\ nbAdapters' = nbAdapters /\ nbEnabled' = nbEnabled
  BY DEF WriteFails
<1>3. /\ World(nbRequest, A, E, R, X) /\ q \in Live(nbRequest)
      /\ Own(R, X, r) /\ Stage(A, E, R, X, r) /\ Wellformed(r) /\ RowsOK(R) /\ (r.op = "create" => r.new.id \notin DOMAIN R)
      /\ Head(r.todo).do = w /\ Arg(q) = Head(r.todo).config /\ Arg(q).name \in r.names /\ Tail(r.todo) \in Seq(Step)
      /\ Alone(R, X, r)
  BY <1>1, Served DEF Own
<1>4. Frame(A, E, R, A, E, R, r)
  BY <1>3, RuntimeKept, RowsKept
<1>5. CASE r.undoing
  <2> DEFINE p == Onward(r, Tail(r.todo))
             Y == X \cup {Head(r.todo).config.name}
  <2>1. w = "flag"
    <3>1. w \in {"insert", "save"} => ~r.undoing
      BY <1>3, RestHead
    <3>2. w = "delete" => ~r.undoing
      BY <1>3, DeleteHead
    <3> QED BY <1>5, <3>1, <3>2 DEF Statement
  <2>2. Tail(r.todo) # <<>> /\ Stage(A, E, R, Y, p) /\ Y \subseteq NbName
    BY <1>3, <1>5, <2>1, FlagUndoFails
  <2>3. nbRequest' = [nbRequest EXCEPT ![q] = p] /\ excused' = Y
    BY <1>1, <1>3, <1>5, <2>2 DEF Goes, Onward
  <2>4. Wellformed(p) /\ Same(r, p)
    BY <1>3, <2>2, OnwardIs
  <2>5. Moves(A, E, R, X, A, E, R, Y, r)
    BY <1>4, <2>2 DEF Moves, Frame
  <2>6. X \subseteq Y
    OBVIOUS
  <2> HIDE DEF p, Y
  <2>7. Alone(R, Y, p)
    BY <1>3, <1>5, <2>4, <2>6 DEF Alone, Same
  <2>8. Lives(A, E, R, Y, r, p)
    BY <1>3, <2>2, <2>4, <2>7 DEF Lives, Sibling, Same
  <2>9. World([nbRequest EXCEPT ![q] = p], A, E, R, Y)
    BY <1>3, <2>5, <2>8, LivesOn
  <2> QED BY <1>2, <2>3, <2>9 DEF NbInv
<1>6. CASE ~r.undoing
  <2>1. Failed(A, E, R, X, r, w)
    <3>1. w = "insert" => Failed(A, E, R, X, r, "insert")
      BY <1>3, InsertFails
    <3>2. w = "save" => Failed(A, E, R, X, r, "save")
      BY <1>3, SaveFails
    <3>3. w \in {"flag", "delete"} => Failed(A, E, R, X, r, w)
      BY <1>3, <1>6, FirstFails
    <3> QED BY <3>1, <3>2, <3>3 DEF Statement
  <2>2. Fails(q, w)
    BY <1>1, <1>6
  <2>3. World(nbRequest', nbAdapters', nbEnabled', nbRows', excused')
    BY <1>1, <1>2, <1>4, <2>1, <2>2, FailedWorld
  <2> QED BY <1>2, <2>3 DEF NbInv
<1> QED BY <1>5, <1>6

-----------------------------------------------------------------------------
(* A request arrives, and the process starts.                               *)

LEMMA UncleanIs ==
    ASSUME NEW r, Wellformed(r), NEW p, p = [r EXCEPT !.clean = FALSE]
    PROVE  /\ Wellformed(p) /\ ~p.clean /\ p.op = r.op /\ p.old = r.old /\ p.new = r.new /\ p.todo = r.todo
           /\ p.names = r.names /\ p.undoing = r.undoing
<1> DEFINE off == FALSE
<1>1. off \in BOOLEAN /\ p = [r EXCEPT !.clean = off] /\ ~off
  OBVIOUS
<1> HIDE DEF off
<1>2. r \in Req
  BY DEF Wellformed
<1>3. /\ p \in Req /\ p.clean = off /\ p.op = r.op /\ p.old = r.old /\ p.new = r.new /\ p.todo = r.todo
      /\ p.names = r.names /\ p.undoing = r.undoing
  BY <1>1, <1>2 DEF Req
<1>4. Wellformed(p)
  BY <1>3 DEF Wellformed
<1> QED BY <1>1, <1>3, <1>4

\* A request that another overlaps is wherever it was.
LEMMA StageUnclean ==
    ASSUME NEW A, NEW E, NEW R, NEW X, NEW r, Wellformed(r), Stage(A, E, R, X, r), NEW p, ~p.clean,
           p.op = r.op, p.old = r.old, p.new = r.new, p.todo = r.todo, p.names = r.names, p.undoing = r.undoing
    PROVE  Stage(A, E, R, X, p) /\ Alone(R, X, p)
<1>1. Waiting(A, E, R, X, r) => Waiting(A, E, R, X, p)
  BY DEF Waiting
<1>2. Removing(A, E, R, r) => Removing(A, E, R, p)
  BY DEF Removing
<1>3. ASSUME NEW c, NEW rest, Context(A, E, R, X, r, c, rest), Progress(A, E, r, c, rest)
      PROVE  Context(A, E, R, X, p, c, rest) /\ Progress(A, E, p, c, rest)
  <2>1. Context(A, E, R, X, p, c, rest)
    BY <1>3 DEF Context
  <2>2. Progress(A, E, p, c, rest)
    BY <1>3 DEF Progress
  <2> QED BY <2>1, <2>2
<1>4. Stage(A, E, R, X, p)
  BY <1>1, <1>2, <1>3 DEF Stage
<1>5. Alone(R, X, p)
  BY DEF Alone
<1> QED BY <1>4, <1>5

\* Requests Q once t has arrived as q.
Meets(Q, t) == {k \in NbRequest : k \in Live(Q) /\ (Q[k].new.id = t.new.id \/ Q[k].names \cap t.names # {})}
Joined(Q, q, t) ==
    [k \in NbRequest |-> IF k = q THEN t ELSE IF k \in Meets(Q, t) THEN [Q[k] EXCEPT !.clean = FALSE] ELSE Q[k]]

LEMMA ArriveWorld ==
    ASSUME NEW Q, NEW A, NEW E, NEW R, NEW X, World(Q, A, E, R, X), NEW q \in NbRequest, q \notin Live(Q),
           NEW t, Wellformed(t), Stage(A, E, R, X, t), Alone(R, X, t),
           t.new.id \in DOMAIN R => R[t.new.id].name \in t.names,
           t.op = "create" => /\ t.new.id \notin DOMAIN R
                              /\ \A k \in Live(Q) : Q[k].op = "create" => Q[k].new.id # t.new.id,
           t.clean => Meets(Q, t) = {}
    PROVE  World(Joined(Q, q, t), A, E, R, X)
<1> DEFINE O == Meets(Q, t)
           P == Joined(Q, q, t)
<1>1. /\ Requests(Q) /\ Separate(Q) /\ Fresh(Q, R) /\ Covered(Q, R, X) /\ RowsOK(R) /\ X \subseteq NbName
      /\ Stages(Q, A, E, R, X) /\ Outside(Q, A, E, R, X)
  BY DEF World
<1>2. P[q] = t /\ P = [k \in NbRequest |-> P[k]]
  BY DEF Joined
<1>3. \A k \in NbRequest \ {q} : k \notin O => P[k] = Q[k]
  BY DEF Joined
<1>4. \A k \in NbRequest \ {q} : k \in O => P[k] = [Q[k] EXCEPT !.clean = FALSE]
  BY DEF Joined
<1>16. O = {k \in NbRequest : k \in Live(Q) /\ (Q[k].new.id = t.new.id \/ Q[k].names \cap t.names # {})}
  BY DEF Meets
<1> HIDE DEF O, P
<1>5. O \subseteq Live(Q) /\ Live(Q) \subseteq NbRequest
  BY <1>16 DEF Live
<1>6. \A k \in Live(Q) : Wellformed(Q[k])
  BY <1>1, <1>5, LiveIs
<1>7. ASSUME NEW k \in Live(Q)
      PROVE  /\ Wellformed(P[k]) /\ P[k].op = Q[k].op /\ P[k].old = Q[k].old /\ P[k].new = Q[k].new
             /\ P[k].todo = Q[k].todo /\ P[k].names = Q[k].names /\ P[k].undoing = Q[k].undoing
             /\ (k \in O => ~P[k].clean) /\ (k \notin O => P[k] = Q[k]) /\ k # q /\ k \in NbRequest
  <2>1. k # q /\ k \in NbRequest /\ Wellformed(Q[k])
    BY <1>5, <1>6
  <2>2. CASE k \in O
    <3>1. P[k] = [Q[k] EXCEPT !.clean = FALSE]
      BY <1>4, <2>1, <2>2
    <3>2. /\ Wellformed(P[k]) /\ ~P[k].clean /\ P[k].op = Q[k].op /\ P[k].old = Q[k].old /\ P[k].new = Q[k].new
          /\ P[k].todo = Q[k].todo /\ P[k].names = Q[k].names /\ P[k].undoing = Q[k].undoing
      BY <2>1, <3>1, UncleanIs
    <3> QED BY <2>1, <2>2, <3>2
  <2>3. CASE k \notin O
    BY <1>3, <2>1, <2>3
  <2> QED BY <2>2, <2>3
<1>8. Requests(P)
  <2>1. ASSUME NEW k \in NbRequest PROVE P[k] = NoNbRequest \/ Wellformed(P[k])
    <3>1. k \in Live(Q) => Wellformed(P[k])
      BY <1>7
    <3>2. k \notin Live(Q) /\ k # q => P[k] = NoNbRequest
      <4>1. k \notin Live(Q) => Q[k] = NoNbRequest
        BY <1>1, LiveIs DEF Requests
      <4> QED BY <1>3, <1>5, <4>1
    <3> QED BY <1>2, <3>1, <3>2
  <2> QED BY <1>2, <2>1 DEF Requests
<1>9. Live(P) = Live(Q) \cup {q}
  <2>1. q \in Live(P)
    BY <1>2, <1>8, LiveIs
  <2>2. \A k \in Live(Q) : k \in Live(P)
    <3>1. SUFFICES ASSUME NEW k \in Live(Q) PROVE k \in Live(P)
      OBVIOUS
    <3>2. Wellformed(P[k]) /\ k \in NbRequest
      BY <1>7
    <3> QED BY <1>8, <3>2, LiveIs
  <2>3. \A k \in Live(P) \ {q} : k \in Live(Q)
    BY <1>3, <1>5 DEF Live
  <2> QED BY <2>1, <2>2, <2>3
<1>10. Separate(P)
  <2>1. SUFFICES ASSUME NEW m \in Live(P), NEW k \in Live(P), m # k
                 PROVE  /\ P[m].clean => Apart(P[m], P[k])
                        /\ P[m].op = "create" /\ P[k].op = "create" => P[m].new.id # P[k].new.id
    BY DEF Separate
  <2>2. CASE m = q
    <3>1. k \in Live(Q) /\ P[m] = t /\ P[k].new = Q[k].new /\ P[k].names = Q[k].names /\ P[k].op = Q[k].op /\ k \in NbRequest
      BY <1>2, <1>7, <1>9, <2>1, <2>2
    <3>2. t.clean => Q[k].new.id # t.new.id /\ Q[k].names \cap t.names = {}
      BY <1>16, <3>1 DEF O
    <3>3. t.op = "create" /\ Q[k].op = "create" => Q[k].new.id # t.new.id
      BY <3>1
    <3> QED BY <3>1, <3>2, <3>3 DEF Apart
  <2>3. CASE k = q
    <3>1. m \in Live(Q) /\ P[k] = t /\ P[m].new = Q[m].new /\ P[m].names = Q[m].names /\ P[m].op = Q[m].op
      BY <1>2, <1>7, <1>9, <2>1, <2>3
    <3>2. P[m].clean => m \notin O /\ m \in NbRequest
      BY <1>7, <3>1
    <3>3. P[m].clean => Q[m].new.id # t.new.id /\ Q[m].names \cap t.names = {}
      BY <1>16, <3>1, <3>2
    <3>4. t.op = "create" /\ Q[m].op = "create" => Q[m].new.id # t.new.id
      BY <3>1
    <3> QED BY <3>1, <3>3, <3>4 DEF Apart
  <2>4. CASE m # q /\ k # q
    <3>1. m \in Live(Q) /\ k \in Live(Q)
      BY <1>9, <2>4
    <3>2. /\ P[m].new = Q[m].new /\ P[m].names = Q[m].names /\ P[m].op = Q[m].op
          /\ P[k].new = Q[k].new /\ P[k].names = Q[k].names /\ P[k].op = Q[k].op
      BY <1>7, <3>1
    <3>3. P[m].clean => Q[m].clean
      BY <1>7, <3>1
    <3>4. /\ Q[m].clean => Apart(Q[m], Q[k])
          /\ Q[m].op = "create" /\ Q[k].op = "create" => Q[m].new.id # Q[k].new.id
      BY <1>1, <2>1, <3>1 DEF Separate
    <3> QED BY <3>2, <3>3, <3>4 DEF Apart
  <2> QED BY <2>2, <2>3, <2>4
<1>11. Fresh(P, R)
  <2>1. ASSUME NEW m \in Live(P), P[m].op = "create" PROVE P[m].new.id \notin DOMAIN R
    <3>1. m = q => P[m].new.id \notin DOMAIN R
      BY <1>2, <2>1
    <3>2. m \in Live(Q) => P[m].new.id \notin DOMAIN R
      BY <1>1, <1>7, <2>1 DEF Fresh
    <3> QED BY <1>9, <3>1, <3>2
  <2> QED BY <2>1 DEF Fresh
<1>12. ClaimedBy(Q) \subseteq ClaimedBy(P) /\ t.names \subseteq ClaimedBy(P)
  <2>1. \A m \in Live(Q) : Q[m].names \subseteq ClaimedBy(P)
    <3>1. SUFFICES ASSUME NEW m \in Live(Q) PROVE Q[m].names \subseteq ClaimedBy(P)
      OBVIOUS
    <3>2. m \in Live(P) /\ P[m].names = Q[m].names
      BY <1>7, <1>9
    <3> QED BY <3>2 DEF ClaimedBy
  <2>2. ClaimedBy(Q) \subseteq ClaimedBy(P)
    BY <2>1 DEF ClaimedBy
  <2>3. t.names \subseteq ClaimedBy(P)
    BY <1>2, <1>9 DEF ClaimedBy
  <2> QED BY <2>2, <2>3
<1>13. Covered(P, R, X)
  <2>1. ASSUME NEW m \in Live(P), P[m].new.id \in DOMAIN R PROVE R[P[m].new.id].name \in X \cup ClaimedBy(P)
    <3>1. m = q => R[P[m].new.id].name \in ClaimedBy(P)
      BY <1>2, <1>12, <2>1
    <3>2. m \in Live(Q) => R[P[m].new.id].name \in X \cup ClaimedBy(Q)
      BY <1>1, <1>7, <2>1 DEF Covered
    <3> QED BY <1>9, <1>12, <3>1, <3>2
  <2> QED BY <2>1 DEF Covered
<1>14. Stages(P, A, E, R, X)
  <2>1. ASSUME NEW m \in Live(P) PROVE Stage(A, E, R, X, P[m]) /\ Alone(R, X, P[m])
    <3>1. CASE m = q
      BY <1>2, <3>1
    <3>2. CASE m \in Live(Q)
      <4>1. Stage(A, E, R, X, Q[m]) /\ Alone(R, X, Q[m]) /\ Wellformed(Q[m])
        BY <1>1, <1>6, <3>2 DEF Stages
      <4>2. /\ P[m].op = Q[m].op /\ P[m].old = Q[m].old /\ P[m].new = Q[m].new
            /\ P[m].todo = Q[m].todo /\ P[m].names = Q[m].names /\ P[m].undoing = Q[m].undoing
            /\ (m \in O => ~P[m].clean) /\ (m \notin O => P[m] = Q[m])
        BY <1>7, <3>2
      <4>3. CASE m \in O
        BY <4>1, <4>2, <4>3, StageUnclean
      <4> QED BY <4>1, <4>2, <4>3
    <3> QED BY <1>9, <3>1, <3>2
  <2> QED BY <2>1 DEF Stages
<1>15. Outside(P, A, E, R, X)
  BY <1>1, <1>12 DEF Outside, Settled
<1>17. World(P, A, E, R, X)
  BY <1>1, <1>8, <1>10, <1>11, <1>13, <1>14, <1>15 DEF World
<1> QED BY <1>17 DEF P

LEMMA BootWorld ==
    ASSUME NEW R, RowsOK(R), NEW F \in SUBSET NbName, NEW Q, Q = [q \in NbRequest |-> NoNbRequest]
    PROVE  World(Q, Booted(R, F), BootFlags(R), R, F) /\ AdaptersOK(Booted(R, F), BootFlags(R))
<1> DEFINE A == Booted(R, F)
           E == BootFlags(R)
           chosen(n) == CHOOSE c \in {R[i] : i \in DOMAIN R} : c.name = n
           asked(n) == \E i \in DOMAIN R : R[i].name = n /\ R[i].enabled
<1>1. \A n \in NbName : /\ n \notin F /\ asked(n) => A[n] = [version |-> chosen(n).version, started |-> TRUE]
                        /\ ~(n \notin F /\ asked(n)) => A[n] = NoAdapter
  BY DEF Booted
<1>2. \A n \in NbName : E[n] = asked(n)
  BY DEF BootFlags
<1>3. ASSUME NEW i \in DOMAIN R PROVE chosen(R[i].name) = R[i]
  <2>1. \A c \in {R[j] : j \in DOMAIN R} : c.name = R[i].name => c = R[i]
    BY DEF RowsOK
  <2> QED BY <2>1
<1>4. A = [n \in NbName |-> A[n]] /\ E = [n \in NbName |-> E[n]]
  BY DEF Booted, BootFlags
<1>5. \A i \in DOMAIN R : R[i] \in Config /\ R[i].version \in 0 .. MaxRequests /\ R[i].name \in NbName
  BY DEF RowsOK, Config
<1> HIDE DEF A, E, chosen
<1>6. AdaptersOK(A, E)
  <2>1. ASSUME NEW n \in NbName PROVE A[n] \in [version : 0 .. MaxRequests, started : BOOLEAN] \cup {NoAdapter}
    <3>1. CASE n \notin F /\ asked(n)
      <4>1. PICK i \in DOMAIN R : R[i].name = n
        BY <3>1
      <4>2. chosen(n).version \in 0 .. MaxRequests
        BY <1>3, <1>5, <4>1
      <4> DEFINE v == chosen(n).version
                 on == TRUE
      <4>3. A[n] = [version |-> v, started |-> on] /\ v \in 0 .. MaxRequests /\ on \in BOOLEAN
        BY <1>1, <3>1, <4>2
      <4> HIDE DEF v, on
      <4> QED BY <4>3
    <3>2. CASE ~(n \notin F /\ asked(n))
      BY <1>1, <3>2
    <3> QED BY <3>1, <3>2
  <2>2. \A n \in NbName : E[n] \in BOOLEAN
    BY <1>2
  <2>3. A \in [NbName -> [version : 0 .. MaxRequests, started : BOOLEAN] \cup {NoAdapter}]
    BY <1>4, <2>1
  <2>4. E \in [NbName -> BOOLEAN]
    BY <1>4, <2>2
  <2> QED BY <2>3, <2>4 DEF AdaptersOK
<1>7. ASSUME NEW n \in NbName, n \notin F PROVE Right(A, E, R, n)
  <2>1. ASSUME \A j \in Named(R, n) : ~R[j].enabled PROVE Off(A, E, n)
    <3>1. ~asked(n)
      BY <2>1 DEF Named
    <3>2. A[n] = NoAdapter
      BY <1>1, <3>1
    <3>3. E[n] = FALSE
      BY <1>2, <3>1
    <3> QED BY <3>2, <3>3 DEF Off
  <2>2. ASSUME NEW j \in Named(R, n), R[j].enabled PROVE Runs(A, E, R[j])
    <3>1. j \in DOMAIN R /\ R[j].name = n /\ asked(n)
      BY <2>2 DEF Named
    <3>2. A[n] = [version |-> R[j].version, started |-> TRUE]
      BY <1>1, <1>3, <1>7, <3>1
    <3>3. E[n] = TRUE
      BY <1>2, <3>1
    <3> QED BY <2>2, <3>1, <3>2, <3>3 DEF Runs
  <2> QED BY <2>1, <2>2 DEF Right
<1>8. Live(Q) = {} /\ Requests(Q)
  BY DEF Live, Requests, NoNbRequest
<1>9. World(Q, A, E, R, F)
  BY <1>7, <1>8 DEF World, Separate, Fresh, Covered, Stages, Outside, Settled
<1> QED BY <1>6, <1>9 DEF A, E

\* What a request has to do when it arrives.
TodoOf(op, old, new) ==
    CASE op = "create" -> CreateSteps(new)
      [] op = "update" -> UpdateSteps(old, new)
      [] op = "delete" -> DeleteSteps(old)
      [] op = "toggle" -> ToggleSteps(old)
      [] op = "reload" -> Rebuild(old)
      [] op = "sync" -> SyncSteps(old)

LEMMA TodoIs ==
    ASSUME NEW old \in Config, NEW new \in Config
    PROVE  /\ CreateSteps(new) = Rebuilding(new, Then("insert", new, <<>>))
           /\ old.name = new.name => UpdateSteps(old, new) = Rebuilding(new, Then("save", new, <<>>))
           /\ old.name # new.name => UpdateSteps(old, new) = Then("remove", old, Rebuilding(new, Then("save", new, <<>>)))
           /\ DeleteSteps(old) = Then("delete", old, Then("remove", old, <<>>))
           /\ ToggleSteps(old) = Then("flag", Flipped(old), Rebuilding(Flipped(old), <<>>))
           /\ Rebuild(old) = Rebuilding(old, <<>>)
           /\ SyncSteps(old) = Then("missing", old, <<>>)
<1>1. Flipped(old) \in Config
  BY FlippedIs
<1>2. {"insert", "save", "remove", "missing", "delete"} \subseteq Word
  BY DEF Word
<1>3. CreateSteps(new) = Rebuilding(new, Then("insert", new, <<>>))
  <2>1. <<Do("insert", new)>> = Then("insert", new, <<>>) /\ Then("insert", new, <<>>) \in Seq(Step)
    BY <1>2, ThenLast, LastIs
  <2> QED BY <2>1, RebuildIs DEF CreateSteps
<1> DEFINE s == Then("save", new, <<>>)
<1>4. <<Do("save", new)>> = s /\ s \in Seq(Step)
  BY <1>2, ThenLast, LastIs
<1> HIDE DEF s
<1>5. Rebuild(new) \o s = Rebuilding(new, s)
  BY <1>4, RebuildIs
<1>6. old.name = new.name => UpdateSteps(old, new) = Rebuilding(new, s)
  BY <1>4, <1>5 DEF UpdateSteps, Replace
<1>7. old.name # new.name => UpdateSteps(old, new) = Then("remove", old, Rebuilding(new, s))
  <2> DEFINE a == <<Do("remove", old)>>
  <2>1. a \in Seq(Step)
    <3>1. Do("remove", old) \in Step
      BY <1>2, DoTyped
    <3> QED BY <3>1
  <2>2. Rebuild(new) \in Seq(Step)
    BY RebuildAlone
  <2> HIDE DEF a
  <2>3. (a \o Rebuild(new)) \o s = a \o (Rebuild(new) \o s)
    BY <1>4, <2>1, <2>2, StepsAssociate
  <2>4. old.name # new.name => UpdateSteps(old, new) = (a \o Rebuild(new)) \o s
    BY <1>4 DEF UpdateSteps, Replace, a
  <2> QED BY <1>5, <2>3, <2>4 DEF Then, a
<1>8. DeleteSteps(old) = Then("delete", old, Then("remove", old, <<>>))
  <2>1. Do("delete", old) \in Step /\ Do("remove", old) \in Step
    BY <1>2, DoTyped
  <2>2. DeleteSteps(old) = <<Do("delete", old)>> \o <<Do("remove", old)>>
    BY <2>1, Singles DEF DeleteSteps
  <2>3. <<Do("remove", old)>> = Then("remove", old, <<>>)
    BY <1>2, ThenLast
  <2> QED BY <2>2, <2>3 DEF Then
<1>9. ToggleSteps(old) = Then("flag", Flipped(old), Rebuilding(Flipped(old), <<>>))
  <2>1. Rebuild(Flipped(old)) = Rebuilding(Flipped(old), <<>>)
    BY <1>1, RebuildAlone
  <2> QED BY <2>1 DEF ToggleSteps, Then
<1>10. Rebuild(old) = Rebuilding(old, <<>>)
  BY RebuildAlone
<1>11. SyncSteps(old) = Then("missing", old, <<>>)
  BY <1>2, ThenLast DEF SyncSteps
<1> QED BY <1>3, <1>6, <1>7, <1>8, <1>9, <1>10, <1>11 DEF s

LEMMA TodoTyped ==
    ASSUME NEW op \in Operation, NEW old \in Config, NEW new \in Config
    PROVE  TodoOf(op, old, new) \in Seq(Step) /\ TodoOf(op, old, new) # <<>>
<1>1. Flipped(old) \in Config /\ {"insert", "save", "remove", "missing", "delete", "flag"} \subseteq Word
  BY FlippedIs DEF Word
<1>2. op = "create" => TodoOf(op, old, new) = Rebuilding(new, Then("insert", new, <<>>))
  BY TodoIs DEF TodoOf
<1>3. op = "update" /\ old.name = new.name => TodoOf(op, old, new) = Rebuilding(new, Then("save", new, <<>>))
  BY TodoIs DEF TodoOf
<1>4. op = "update" /\ old.name # new.name => TodoOf(op, old, new) = Then("remove", old, Rebuilding(new, Then("save", new, <<>>)))
  BY TodoIs DEF TodoOf
<1>5. op = "delete" => TodoOf(op, old, new) = Then("delete", old, Then("remove", old, <<>>))
  BY TodoIs DEF TodoOf
<1>6. op = "toggle" => TodoOf(op, old, new) = Then("flag", Flipped(old), Rebuilding(Flipped(old), <<>>))
  BY TodoIs DEF TodoOf
<1>7. op = "reload" => TodoOf(op, old, new) = Rebuilding(old, <<>>)
  BY TodoIs DEF TodoOf
<1>8. op = "sync" => TodoOf(op, old, new) = Then("missing", old, <<>>)
  BY TodoIs DEF TodoOf
<1>9. /\ Then("insert", new, <<>>) \in Seq(Step) /\ Then("save", new, <<>>) \in Seq(Step)
      /\ Then("remove", old, <<>>) \in Seq(Step)
      /\ Then("missing", old, <<>>) \in Seq(Step) /\ Then("missing", old, <<>>) # <<>>
  BY <1>1, LastIs
<1>10. /\ Rebuilding(new, Then("insert", new, <<>>)) \in Seq(Step) /\ Rebuilding(new, Then("insert", new, <<>>)) # <<>>
       /\ Rebuilding(new, Then("save", new, <<>>)) \in Seq(Step) /\ Rebuilding(new, Then("save", new, <<>>)) # <<>>
  BY <1>9, RebuildingTyped
<1>11. /\ Then("remove", old, Rebuilding(new, Then("save", new, <<>>))) \in Seq(Step)
       /\ Then("remove", old, Rebuilding(new, Then("save", new, <<>>))) # <<>>
       /\ Then("delete", old, Then("remove", old, <<>>)) \in Seq(Step)
       /\ Then("delete", old, Then("remove", old, <<>>)) # <<>>
  BY <1>1, <1>9, <1>10, ThenIs
<1>12. /\ Then("flag", Flipped(old), Rebuilding(Flipped(old), <<>>)) \in Seq(Step)
       /\ Then("flag", Flipped(old), Rebuilding(Flipped(old), <<>>)) # <<>>
  BY <1>1, ThenRebuilding
<1>13. Rebuilding(old, <<>>) \in Seq(Step) /\ Rebuilding(old, <<>>) # <<>>
  BY RebuildTyped
<1> QED BY <1>2, <1>3, <1>4, <1>5, <1>6, <1>7, <1>8, <1>9, <1>10, <1>11, <1>12, <1>13 DEF Operation

LEMMA FirstStage ==
    ASSUME NEW A, NEW E, NEW R, NEW X, RowsOK(R), NEW t, Wellformed(t), ~t.undoing, t.todo = TodoOf(t.op, t.old, t.new),
           t.op # "create" => Holds(R, t.old), t.clean => Settled(A, E, R, X, t.names)
    PROVE  Stage(A, E, R, X, t) /\ Alone(R, X, t)
<1>1. /\ t.op \in Operation /\ t.old \in Config /\ t.new \in Config /\ t.names = {t.old.name, t.new.name}
      /\ t.old.id = t.new.id /\ (t.op # "update" => t.new = t.old)
  BY ReqFields
<1>2. Alone(R, X, t)
  <2>1. ASSUME NEW j \in DOMAIN R, j # t.new.id, R[j].name \in t.names
        PROVE  t.op \in {"create", "update"} /\ R[j].name = t.new.name /\ (t.op = "update" => R[j].name # t.old.name)
    BY <1>1, <2>1 DEF RowsOK, Holds
  <2> QED BY <2>1 DEF Alone
<1>3. ASSUME NEW c \in {t.old, t.new}, NEW rest \in Rests(t), Context(A, E, R, X, t, c, rest), t.todo = Rebuilding(c, rest)
      PROVE  Stage(A, E, R, X, t)
  BY <1>3, RebuildStage DEF Progress
<1>4. CASE t.op = "create"
  <2>1. t.todo = Rebuilding(t.new, Then("insert", t.new, <<>>))
    BY <1>1, <1>4, TodoIs DEF TodoOf
  <2>2. Context(A, E, R, X, t, t.new, Then("insert", t.new, <<>>))
    BY <1>4 DEF Context
  <2> QED BY <1>2, <1>3, <2>1, <2>2 DEF Rests
<1>5. CASE t.op = "update" /\ t.old.name = t.new.name
  <2>1. t.todo = Rebuilding(t.new, Then("save", t.new, <<>>))
    BY <1>1, <1>5, TodoIs DEF TodoOf
  <2>2. Context(A, E, R, X, t, t.new, Then("save", t.new, <<>>))
    BY <1>5 DEF Context
  <2> QED BY <1>2, <1>3, <2>1, <2>2 DEF Rests
<1>6. CASE t.op = "update" /\ t.old.name # t.new.name
  <2>1. t.todo = Then("remove", t.old, Rebuilding(t.new, Then("save", t.new, <<>>)))
    BY <1>1, <1>6, TodoIs DEF TodoOf
  <2>2. Removing(A, E, R, t)
    BY <1>6, <2>1 DEF Removing
  <2> QED BY <1>2, <2>2 DEF Stage
<1>7. CASE t.op = "delete"
  <2>1. t.todo = Then("delete", t.old, Then("remove", t.old, <<>>))
    BY <1>1, <1>7, TodoIs DEF TodoOf
  <2>2. Waiting(A, E, R, X, t)
    BY <1>7, <2>1 DEF Waiting
  <2> QED BY <1>2, <2>2 DEF Stage
<1>8. CASE t.op = "toggle"
  <2>1. t.todo = Then("flag", Flipped(t.old), Rebuilding(Flipped(t.old), <<>>))
    BY <1>1, <1>8, TodoIs DEF TodoOf
  <2>2. Waiting(A, E, R, X, t)
    BY <1>8, <2>1 DEF Waiting
  <2> QED BY <1>2, <2>2 DEF Stage
<1>9. CASE t.op = "sync"
  <2>1. t.todo = Then("missing", t.old, <<>>)
    BY <1>1, <1>9, TodoIs DEF TodoOf
  <2>2. Waiting(A, E, R, X, t)
    BY <1>9, <2>1 DEF Waiting
  <2> QED BY <1>2, <2>2 DEF Stage
<1>10. CASE t.op = "reload"
  <2>1. t.todo = Rebuilding(t.old, <<>>)
    BY <1>1, <1>10, TodoIs DEF TodoOf
  <2>2. Context(A, E, R, X, t, t.old, <<>>)
    BY <1>10 DEF Context
  <2> QED BY <1>2, <1>3, <2>1, <2>2 DEF Rests
<1> QED BY <1>1, <1>4, <1>5, <1>6, <1>7, <1>8, <1>9, <1>10 DEF Operation

LEMMA FieldsAre ==
    ASSUME NEW a, NEW b, NEW c, NEW d, NEW e, NEW f, NEW g
    PROVE  LET t == [op |-> a, old |-> b, new |-> c, todo |-> d, names |-> e, undoing |-> f, clean |-> g]
           IN  t.op = a /\ t.old = b /\ t.new = c /\ t.todo = d /\ t.names = e /\ t.undoing = f /\ t.clean = g
OBVIOUS

\* A request as it arrives.
Asked(op, old, new, todo, cl) ==
    [op |-> op, old |-> old, new |-> new, todo |-> todo, names |-> {old.name, new.name}, undoing |-> FALSE, clean |-> cl]
LEMMA AskedIs ==
    ASSUME NEW op \in Operation, NEW old \in Config, NEW new \in Config, NEW todo \in Seq(Step), todo # <<>>,
           old.id = new.id, op # "update" => new = old, NEW cl \in BOOLEAN
    PROVE  LET t == Asked(op, old, new, todo, cl)
           IN  /\ Wellformed(t) /\ ~t.undoing /\ t.op = op /\ t.old = old /\ t.new = new /\ t.todo = todo
               /\ t.names = {old.name, new.name} /\ t.clean = cl
<1> DEFINE off == FALSE
           names == {old.name, new.name}
           t == [op |-> op, old |-> old, new |-> new, todo |-> todo, names |-> names, undoing |-> off, clean |-> cl]
<1>1. off \in BOOLEAN /\ ~off /\ names \in SUBSET NbName
  BY DEF Config
<1> HIDE DEF off, names
<1>2. t \in Req
  BY <1>1 DEF Req
<1>3. t.op = op /\ t.old = old /\ t.new = new /\ t.todo = todo /\ t.names = names /\ t.undoing = off /\ t.clean = cl
  BY FieldsAre, Zenon
<1>4. t = Asked(op, old, new, todo, cl)
  BY DEF Asked, off, names
<1> HIDE DEF t
<1>5. Wellformed(t)
  BY <1>2, <1>3 DEF Wellformed, names
<1>6. ~t.undoing /\ t.names = {old.name, new.name}
  BY <1>1, <1>3 DEF names
<1> QED BY <1>3, <1>4, <1>5, <1>6

LEMMA ArrivedWorld ==
    ASSUME NbInv, NEW q \in NbRequest, NEW op \in Operation, NEW old \in Config, NEW new \in Config,
           NEW todo, todo = TodoOf(op, old, new), Arrive(q, op, old, new, todo), old.id = new.id,
           op # "update" => new = old, op # "create" => Holds(nbRows, old),
           op = "create" => /\ new.id \notin DOMAIN nbRows
                            /\ \A p \in NbRequest : Serving(p) => nbRequest[p].op # "create" \/ nbRequest[p].new.id # new.id
    PROVE  World(nbRequest', nbAdapters', nbEnabled', nbRows', excused') /\ AdaptersOK(nbAdapters', nbEnabled')
<1> DEFINE names == {old.name, new.name}
           O == Overlapping(new.id, names)
           cl == (O = {})
           t == Asked(op, old, new, todo, cl)
           Q == nbRequest
           A == nbAdapters
           E == nbEnabled
           R == nbRows
           X == excused
<1>1. World(Q, A, E, R, X) /\ AdaptersOK(A, E) /\ RowsOK(R)
  BY DEF NbInv, World
<1>2. nbRows' = nbRows /\ nbAdapters' = nbAdapters /\ nbEnabled' = nbEnabled /\ excused' = excused /\ ~Serving(q)
  BY DEF Arrive
<1>3. nbRequest' = [k \in NbRequest |-> IF k = q THEN t ELSE IF k \in O THEN [Q[k] EXCEPT !.clean = FALSE] ELSE Q[k]]
  BY DEF Arrive, Asked
<1>4. q \notin Live(Q)
  BY <1>2 DEF Live, Serving
<1>5. O = {k \in NbRequest : k \in Live(Q) /\ (Q[k].new.id = new.id \/ Q[k].names \cap names # {})}
  BY DEF Overlapping, Live, Serving
<1>6. todo \in Seq(Step) /\ todo # <<>>
  BY TodoTyped
<1> HIDE DEF O, names
<1>18. names = {old.name, new.name}
  BY DEF names
<1>7. cl \in BOOLEAN
  OBVIOUS
<1> HIDE DEF cl
<1>8. /\ Wellformed(t) /\ ~t.undoing /\ t.op = op /\ t.old = old /\ t.new = new /\ t.todo = todo
      /\ t.names = {old.name, new.name} /\ t.clean = cl
  BY <1>6, <1>7, AskedIs
<1> HIDE DEF t
<1>9. /\ Wellformed(t) /\ ~t.undoing /\ t.op = op /\ t.old = old /\ t.new = new /\ t.todo = todo /\ t.names = names
      /\ (t.clean => cl)
  BY <1>8, <1>18
<1>10. t.clean => O = {}
  BY <1>9 DEF cl
<1>11. names \subseteq NbName
  BY <1>18 DEF Config
<1>12. t.clean => Settled(A, E, R, X, t.names)
  <2>1. SUFFICES ASSUME t.clean, NEW n \in names PROVE n \in X \/ Right(A, E, R, n)
    BY <1>9 DEF Settled
  <2>2. n \notin ClaimedBy(Q)
    <3>1. ASSUME NEW k \in Live(Q), n \in Q[k].names PROVE FALSE
      <4>1. k \in NbRequest
        BY DEF Live
      <4>2. k \in O
        BY <1>5, <2>1, <3>1, <4>1
      <4> QED BY <1>10, <2>1, <4>2
    <3> QED BY <3>1 DEF ClaimedBy
  <2>3. n \in NbName \ ClaimedBy(Q)
    BY <1>11, <2>2
  <2> QED BY <1>1, <2>3 DEF World, Outside, Settled
<1>13. Stage(A, E, R, X, t) /\ Alone(R, X, t)
  BY <1>1, <1>9, <1>12, FirstStage
<1>14. t.new.id \in DOMAIN R => R[t.new.id].name \in t.names
  BY <1>9, <1>18 DEF Holds
<1>15. t.op = "create" => /\ t.new.id \notin DOMAIN R
                          /\ \A k \in Live(Q) : Q[k].op = "create" => Q[k].new.id # t.new.id
  BY <1>9 DEF Live, Serving
<1>16. O = Meets(Q, t)
  BY <1>5, <1>9 DEF Meets
<1>17. World(nbRequest', A, E, R, X)
  <2>1. World(Q, A, E, R, X) /\ q \notin Live(Q) /\ Wellformed(t) /\ Stage(A, E, R, X, t) /\ Alone(R, X, t)
    BY <1>1, <1>4, <1>9, <1>13
  <2>2. t.clean => Meets(Q, t) = {}
    BY <1>10, <1>16
  <2>3. World(Joined(Q, q, t), A, E, R, X)
    BY <1>14, <1>15, <2>1, <2>2, ArriveWorld
  <2> QED BY <1>3, <1>16, <2>3 DEF Joined
<1> QED BY <1>1, <1>2, <1>17

LEMMA SubmittedIs ==
    ASSUME NEW i \in NbId, NEW n \in NbName, NEW on \in BOOLEAN, nbRequests \in 0 .. MaxRequests, nbRequests < MaxRequests
    PROVE  LET c == Submitted(i, n, on) IN c \in Config /\ c.id = i /\ c.name = n
<1>1. nbRequests + 1 \in 0 .. MaxRequests
  BY NorthboundAssumption
<1> QED BY <1>1 DEF Submitted, Config

-----------------------------------------------------------------------------
(* The adapters that are connected.                                         *)

Registers(Q) == {q \in NbRequest : Q[q].todo # <<>> /\ Head(Q[q].todo).do = "register"}

LEMMA RebuildHead ==
    ASSUME NEW c \in Config
    PROVE  Head(Rebuilding(c, <<>>)).do = "remove" /\ Head(Rebuild(c)).do = "remove"
<1>1. PICK s \in Seq(Step) : s = <<>>
  <2> WITNESS <<>> \in Seq(Step)
  <2> QED OBVIOUS
<1>2. Head(Rebuilding(c, s)).do = "remove"
  BY RebuildingIs
<1>3. Rebuild(c) = Rebuilding(c, <<>>)
  BY RebuildAlone
<1> QED BY <1>1, <1>2, <1>3

LEMMA NextHead ==
    ASSUME NEW A, NEW E, NEW R, NEW X, NEW r, Wellformed(r), Stage(A, E, R, X, r), NEW s, s = Tail(r.todo), s # <<>>
    PROVE  Head(s).do = "register" <=> Head(r.todo).do = "initialize"
<1>1. r.old \in Config /\ r.new \in Config /\ Flipped(r.old) \in Config
  BY ReqFields, FlippedIs
<1>2. /\ Head(Rebuilding(r.old, <<>>)).do = "remove" /\ Head(Rebuilding(Flipped(r.old), <<>>)).do = "remove"
      /\ Head(Then("remove", r.old, <<>>)).do = "remove"
  <2>1. Head(Rebuilding(r.old, <<>>)).do = "remove" /\ Head(Rebuilding(Flipped(r.old), <<>>)).do = "remove"
    BY <1>1, RebuildHead
  <2>2. "remove" \in Word
    BY DEF Word
  <2>3. Head(Then("remove", r.old, <<>>)).do = "remove"
    BY <1>1, <2>2, LastIs
  <2> QED BY <2>1, <2>3
<1>3. Head(Rebuilding(r.new, Then("save", r.new, <<>>))).do = "remove"
  <2>1. Then("save", r.new, <<>>) \in Seq(Step)
    BY <1>1, LastIs DEF Word
  <2> QED BY <1>1, <2>1, RebuildingIs
<1>4. CASE Waiting(A, E, R, X, r)
  BY <1>2, <1>4, WaitingHead
<1>5. CASE Removing(A, E, R, r)
  BY <1>2, <1>3, <1>5, RemovingHead
<1>6. ASSUME NEW c \in {r.old, r.new, Flipped(r.old)}, NEW rest \in Rests(r), Progress(A, E, r, c, rest)
      PROVE  Head(s).do = "register" <=> Head(r.todo).do = "initialize"
  <2>1. c \in Config /\ rest \in Seq(Step) /\ (rest # <<>> => Head(rest).do \in {"insert", "save"})
    BY <1>1, RestsTyped
  <2>2. /\ Head(Initializing(c, rest)).do = "initialize" /\ Head(Registering(c, rest)).do = "register"
        /\ Head(Starting(c, rest)).do = "start" /\ Head(Disabling(c, rest)).do = "disable"
    BY <2>1, InitializingIs, RegisteringIs, StartingIs, DisablingIs
  <2> QED BY <1>6, <2>1, <2>2, ProgressHead
<1> QED BY <1>4, <1>5, <1>6 DEF Stage, Rests

LEMMA UndoHead ==
    ASSUME NEW r, Wellformed(r), NEW what, NEW u, u = UndoOf(r, what), u # <<>>
    PROVE  Head(u).do # "register"
<1>1. r.old \in Config /\ r.new \in Config /\ "remove" \in Word /\ "flag" \in Word
  BY ReqFields DEF Word
<1>2. \/ u = <<Do("remove", r.new)>> \/ u = <<Do("remove", r.new)>> \o Rebuild(r.old)
      \/ u = Rebuild(r.old) \/ u = <<Do("flag", r.old)>> \o Rebuild(r.old)
  BY DEF UndoOf, Undo
<1>8. \A w \in Word, s \in Seq(Step) : Head(Then(w, r.old, s)).do = w /\ Head(Then(w, r.new, s)).do = w
  BY <1>1, ThenIs
<1>3. Rebuild(r.old) \in Seq(Step) /\ Head(Rebuild(r.old)).do = "remove"
  BY <1>1, RebuildAlone, RebuildHead
<1>4. CASE u = <<Do("remove", r.new)>>
  <2>1. <<Do("remove", r.new)>> = Then("remove", r.new, <<>>)
    BY <1>1, ThenLast
  <2>2. Head(Then("remove", r.new, <<>>)).do = "remove"
    BY <1>1, LastIs
  <2> QED BY <1>4, <2>1, <2>2
<1>5. CASE u = <<Do("remove", r.new)>> \o Rebuild(r.old)
  <2>1. u = Then("remove", r.new, Rebuild(r.old))
    BY <1>5 DEF Then
  <2>2. Head(Then("remove", r.new, Rebuild(r.old))).do = "remove"
    BY <1>1, <1>3, <1>8
  <2> QED BY <2>1, <2>2
<1>6. CASE u = Rebuild(r.old)
  BY <1>3, <1>6
<1>7. CASE u = <<Do("flag", r.old)>> \o Rebuild(r.old)
  <2>1. u = Then("flag", r.old, Rebuild(r.old))
    BY <1>7 DEF Then
  <2>2. Head(Then("flag", r.old, Rebuild(r.old))).do = "flag"
    BY <1>1, <1>3, <1>8
  <2> QED BY <2>1, <2>2
<1> QED BY <1>2, <1>4, <1>5, <1>6, <1>7

LEMMA RegistersStep ==
    ASSUME NEW Q, Requests(Q), NEW q \in NbRequest, NEW p
    PROVE  Registers([Q EXCEPT ![q] = p]) =
                IF p.todo # <<>> /\ Head(p.todo).do = "register" THEN Registers(Q) \cup {q} ELSE Registers(Q) \ {q}
<1> DEFINE P == [Q EXCEPT ![q] = p]
<1>1. DOMAIN Q = NbRequest
  <2>1. Q = [k \in NbRequest |-> Q[k]]
    BY DEF Requests
  <2>2. DOMAIN [k \in NbRequest |-> Q[k]] = NbRequest
    OBVIOUS
  <2> QED BY <2>1, <2>2
<1>2. P[q] = p /\ \A k \in NbRequest \ {q} : P[k] = Q[k]
  BY <1>1
<1> HIDE DEF P
<1>3. Registers(P) = IF p.todo # <<>> /\ Head(p.todo).do = "register" THEN Registers(Q) \cup {q} ELSE Registers(Q) \ {q}
  BY <1>2 DEF Registers
<1> QED BY <1>3 DEF P

LEMMA PresentIs ==
    ASSUME NEW A, NEW B, NEW n \in NbName, \A m \in NbName \ {n} : B[m] = A[m]
    PROVE  Present(B) = IF B[n] # NoAdapter THEN Present(A) \cup {n} ELSE Present(A) \ {n}
BY DEF Present

LEMMA Counted ==
    ASSUME NEW A, NEW Q
    PROVE  /\ IsFiniteSet(Present(A)) /\ IsFiniteSet(Registers(Q))
           /\ Cardinality(Present(A)) \in Nat /\ Cardinality(Registers(Q)) \in Nat
<1>1. Present(A) \subseteq NbName /\ Registers(Q) \subseteq NbRequest
  BY DEF Present, Registers
<1>2. IsFiniteSet(Present(A)) /\ IsFiniteSet(Registers(Q))
  BY <1>1, NorthboundAssumption, FS_Subset
<1> QED BY <1>2, FS_CardinalityType

LEMMA CountIs ==
    NoConnectionForgotten <=> connections = Cardinality(Present(nbAdapters)) + Cardinality(Registers(nbRequest))
<1>1. {q \in NbRequest : At(q, "register")} = Registers(nbRequest)
  BY DEF At, Registers
<1> QED BY <1>1 DEF NoConnectionForgotten

LEMMA CountNext ==
    ASSUME connections' = Cardinality(Present(nbAdapters')) + Cardinality(Registers(nbRequest'))
    PROVE  NoConnectionForgotten'
<1>1. {q \in NbRequest : At(q, "register")'} = Registers(nbRequest')
  BY DEF At, Registers
<1> QED BY <1>1 DEF NoConnectionForgotten

LEMMA GoesCount ==
    ASSUME NbInv, NEW q \in NbRequest, NEW what, At(q, what), NEW s, NEW excuses, Goes(q, s, excuses),
           s # <<>> => (Head(s).do = "register" <=> what = "initialize")
    PROVE  /\ q \in Registers(nbRequest) <=> what = "register"
           /\ s # <<>> /\ what # "initialize" => Registers(nbRequest') = Registers(nbRequest) \ {q}
           /\ s # <<>> /\ what = "initialize" => Registers(nbRequest') = Registers(nbRequest) \cup {q}
           /\ s = <<>> => Registers(nbRequest') = Registers(nbRequest) \ {q}
<1>1. Requests(nbRequest) /\ Wellformed(nbRequest[q])
  BY Served DEF NbInv, World
<1>2. nbRequest' = [nbRequest EXCEPT ![q] = IF s # <<>> THEN Onward(nbRequest[q], s) ELSE NoNbRequest]
  BY DEF Goes, Onward
<1>3. q \in Registers(nbRequest) <=> what = "register"
  BY DEF Registers, At
<1>4. CASE s # <<>>
  <2> DEFINE p == Onward(nbRequest[q], s)
  <2>1. p.todo = s
    BY <1>1 DEF Onward, Wellformed, Req
  <2>2. nbRequest' = [nbRequest EXCEPT ![q] = p]
    BY <1>2, <1>4
  <2> HIDE DEF p
  <2>3. Registers(nbRequest') = IF p.todo # <<>> /\ Head(p.todo).do = "register" THEN Registers(nbRequest) \cup {q}
                                ELSE Registers(nbRequest) \ {q}
    BY <1>1, <2>2, RegistersStep
  <2> QED BY <1>3, <1>4, <2>1, <2>3
<1>5. CASE s = <<>>
  <2>1. nbRequest' = [nbRequest EXCEPT ![q] = NoNbRequest] /\ NoNbRequest.todo = <<>>
    BY <1>2, <1>5 DEF NoNbRequest
  <2>2. Registers([nbRequest EXCEPT ![q] = NoNbRequest]) = Registers(nbRequest) \ {q}
    BY <1>1, <2>1, RegistersStep
  <2> QED BY <1>3, <1>5, <2>1, <2>2
<1> QED BY <1>4, <1>5

LEMMA InitializeTail ==
    ASSUME NEW A, NEW E, NEW R, NEW X, NEW r, Wellformed(r), Stage(A, E, R, X, r), Head(r.todo).do = "initialize"
    PROVE  Tail(r.todo) # <<>>
<1>1. PICK c \in {r.old, r.new, Flipped(r.old)} : \E rest \in Rests(r) :
        Context(A, E, R, X, r, c, rest) /\ Progress(A, E, r, c, rest)
  BY RebuildingPicked
<1>2. PICK rest \in Rests(r) : Context(A, E, R, X, r, c, rest) /\ Progress(A, E, r, c, rest)
  BY <1>1
<1>3. c \in Config /\ rest \in Seq(Step)
  BY ReqFields, FlippedIs, RestsTyped
<1>4. Tail(r.todo) = Registering(c, rest)
  BY <1>2, <1>3, ProgressHead
<1> QED BY <1>3, <1>4, RegisteringIs

LEMMA FailsCount ==
    ASSUME NbInv, NEW q \in NbRequest, NEW what, NEW w, At(q, what), what # "register", Fails(q, w)
    PROVE  Registers(nbRequest') = Registers(nbRequest)
<1> DEFINE r == nbRequest[q]
           u == UndoOf(r, w)
           p == IF u = <<>> THEN NoNbRequest ELSE Undone(r, u)
<1>1. Requests(nbRequest) /\ Wellformed(r)
  BY Served DEF NbInv, World
<1>2. q \notin Registers(nbRequest)
  BY DEF Registers, At
<1>3. nbRequest' = [nbRequest EXCEPT ![q] = p]
  <2> HIDE DEF u, r
  <2>1. u = UndoOf(r, w) /\ r = nbRequest[q]
    BY DEF u, r
  <2> QED BY <2>1, FailsIs
<1>4. ~(p.todo # <<>> /\ Head(p.todo).do = "register")
  <2>1. CASE u = <<>>
    BY <2>1 DEF NoNbRequest
  <2>2. CASE u # <<>>
    <3>1. p = Undone(r, u)
      BY <2>2
    <3>2. Undone(r, u).todo = u
      BY <1>1 DEF Undone, Wellformed, Req
    <3>3. Head(u).do # "register"
      BY <1>1, <2>2, UndoHead
    <3> QED BY <3>1, <3>2, <3>3
  <2> QED BY <2>1, <2>2
<1> HIDE DEF p
<1>5. Registers([nbRequest EXCEPT ![q] = p]) = Registers(nbRequest) \ {q}
  BY <1>1, <1>4, RegistersStep
<1> QED BY <1>2, <1>3, <1>5

LEMMA TailCounted ==
    ASSUME NbInv, NEW q \in NbRequest, NEW what, At(q, what), NEW excuses, Goes(q, Tail(nbRequest[q].todo), excuses)
    PROVE  /\ q \in Registers(nbRequest) <=> what = "register"
           /\ Registers(nbRequest') = IF what = "initialize" THEN Registers(nbRequest) \cup {q} ELSE Registers(nbRequest) \ {q}
<1> DEFINE r == nbRequest[q]
           s == Tail(r.todo)
<1>1. Goes(q, s, excuses)
  OBVIOUS
<1>2. /\ Wellformed(r) /\ Stage(nbAdapters, nbEnabled, nbRows, excused, r) /\ Head(r.todo).do = what
  BY Served
<1> HIDE DEF s
<1>3. s # <<>> => (Head(s).do = "register" <=> what = "initialize")
  <2>1. s = Tail(r.todo)
    BY DEF s
  <2> HIDE DEF r
  <2>2. s # <<>> => (Head(s).do = "register" <=> Head(r.todo).do = "initialize")
    BY <1>2, <2>1, NextHead
  <2> QED BY <1>2, <2>2
<1>4. what = "initialize" => s # <<>>
  <2>1. Head(r.todo).do = "initialize" => s # <<>>
    BY <1>2, InitializeTail DEF s
  <2> QED BY <1>2, <2>1
<1> QED BY <1>1, <1>3, <1>4, GoesCount

LEMMA TailCount ==
    ASSUME NbInv, NEW q \in NbRequest, NEW what, At(q, what), GoesOn(q)
    PROVE  /\ q \in Registers(nbRequest) <=> what = "register"
           /\ Registers(nbRequest') = IF what = "initialize" THEN Registers(nbRequest) \cup {q} ELSE Registers(nbRequest) \ {q}
BY TailCounted DEF GoesOn

LEMMA SetEnabledKeeps ==
    ASSUME AdaptersOK(nbAdapters, nbEnabled), NEW n \in NbName, NEW on \in BOOLEAN, SetEnabled(n, on)
    PROVE  Present(nbAdapters') = Present(nbAdapters)
<1>1. /\ OnlyOf(nbAdapters, nbEnabled, nbAdapters', nbEnabled', n)
      /\ nbAdapters[n] = NoAdapter => nbAdapters'[n] = NoAdapter
      /\ nbAdapters[n] # NoAdapter => nbAdapters'[n] # NoAdapter
  BY SetEnabledIs
<1> QED BY <1>1 DEF Present, OnlyOf

\* A step of a request, counted.
LEMMA StepCount ==
    ASSUME NbInv, NEW q \in NbRequest,
           Unregister(q) \/ Disable(q) \/ Initialize(q) \/ InitializeFails(q) \/ Register(q) \/ Start(q)
    PROVE  NoConnectionForgotten'
<1>1. /\ connections = Cardinality(Present(nbAdapters)) + Cardinality(Registers(nbRequest))
      /\ AdaptersOK(nbAdapters, nbEnabled)
  BY CountIs DEF NbInv
<1>2. /\ IsFiniteSet(Present(nbAdapters)) /\ IsFiniteSet(Registers(nbRequest))
      /\ Cardinality(Present(nbAdapters)) \in Nat /\ Cardinality(Registers(nbRequest)) \in Nat
  BY Counted
<1> DEFINE A == nbAdapters
           G == Registers(nbRequest)
           n == Arg(q).name
<1>3. SUFFICES connections' = Cardinality(Present(nbAdapters')) + Cardinality(Registers(nbRequest'))
  BY CountNext
<1>4. CASE Unregister(q)
  <2>1. At(q, "remove") /\ GoesOn(q) /\ nbAdapters' = [A EXCEPT ![n] = NoAdapter]
        /\ connections' = IF A[n] = NoAdapter THEN connections ELSE connections - 1
    BY <1>4 DEF Unregister
  <2>2. n \in NbName
    BY <2>1, Served
  <2>3. Registers(nbRequest') = G
    BY <2>1, TailCount
  <2> HIDE DEF n
  <2>4. nbAdapters'[n] = NoAdapter /\ \A m \in NbName \ {n} : nbAdapters'[m] = A[m]
    BY <1>1, <2>1, <2>2 DEF AdaptersOK
  <2>5. Present(nbAdapters') = Present(A) \ {n}
    BY <2>2, <2>4, PresentIs
  <2>6. Cardinality(Present(A) \ {n}) = IF n \in Present(A) THEN Cardinality(Present(A)) - 1 ELSE Cardinality(Present(A))
    BY <1>2, FS_RemoveElement
  <2>7. n \in Present(A) <=> A[n] # NoAdapter
    BY <2>2 DEF Present
  <2>9. CASE A[n] = NoAdapter
    <3>1. connections' = connections /\ Cardinality(Present(nbAdapters')) = Cardinality(Present(A))
      BY <2>1, <2>5, <2>6, <2>7, <2>9
    <3> QED BY <1>1, <2>3, <3>1
  <2>10. CASE A[n] # NoAdapter
    <3>1. connections' = connections - 1 /\ Cardinality(Present(nbAdapters')) = Cardinality(Present(A)) - 1
      BY <2>1, <2>5, <2>6, <2>7, <2>10
    <3> QED BY <1>1, <1>2, <2>3, <3>1
  <2> QED BY <2>9, <2>10
<1>5. CASE Disable(q)
  <2>1. At(q, "disable") /\ GoesOn(q) /\ SetEnabled(n, FALSE) /\ connections' = connections
    BY <1>5 DEF Disable
  <2>2. n \in NbName
    BY <2>1, Served
  <2>3. Registers(nbRequest') = G
    BY <2>1, TailCount
  <2> HIDE DEF n
  <2>4. Present(nbAdapters') = Present(A)
    BY <1>1, <2>1, <2>2, SetEnabledKeeps
  <2> QED BY <1>1, <2>1, <2>3, <2>4
<1>6. CASE Initialize(q)
  <2>1. At(q, "initialize") /\ GoesOn(q) /\ nbAdapters' = nbAdapters /\ connections' = connections + 1
    BY <1>6 DEF Initialize
  <2>2. Registers(nbRequest') = G \cup {q} /\ q \notin G
    BY <2>1, TailCount
  <2>3. Cardinality(G \cup {q}) = IF q \in G THEN Cardinality(G) ELSE Cardinality(G) + 1
    BY <1>2, FS_AddElement
  <2> QED BY <1>1, <1>2, <2>1, <2>2, <2>3
<1>7. CASE InitializeFails(q)
  <2>1. At(q, "initialize") /\ Fails(q, "initialize") /\ SetEnabled(n, FALSE) /\ connections' = connections
    BY <1>7 DEF InitializeFails
  <2>2. n \in NbName
    BY <2>1, Served
  <2>3. Registers(nbRequest') = G
    BY <2>1, FailsCount
  <2> HIDE DEF n
  <2>4. Present(nbAdapters') = Present(A)
    BY <1>1, <2>1, <2>2, SetEnabledKeeps
  <2> QED BY <1>1, <2>1, <2>3, <2>4
<1>8. CASE Register(q)
  <2> DEFINE a == [version |-> Arg(q).version, started |-> FALSE]
  <2>1. At(q, "register") /\ GoesOn(q) /\ nbAdapters' = [A EXCEPT ![n] = a]
        /\ connections' = IF A[n] = NoAdapter THEN connections ELSE connections - 1
    BY <1>8 DEF Register, RegisterCloses
  <2>2. n \in NbName /\ Arg(q) \in Config
    BY <2>1, Served
  <2>3. Registers(nbRequest') = G \ {q} /\ q \in G
    BY <2>1, TailCount
  <2>8. a # NoAdapter
    <3>1. a \in [version : 0 .. MaxRequests, started : BOOLEAN]
      BY <2>2 DEF Config
    <3> QED BY <3>1, AdapterIs
  <2> HIDE DEF n, a
  <2>4. nbAdapters'[n] # NoAdapter /\ \A m \in NbName \ {n} : nbAdapters'[m] = A[m]
    BY <1>1, <2>1, <2>2, <2>8 DEF AdaptersOK
  <2>5. Present(nbAdapters') = Present(A) \cup {n}
    BY <2>2, <2>4 DEF Present
  <2>6. Cardinality(Present(A) \cup {n}) = IF n \in Present(A) THEN Cardinality(Present(A)) ELSE Cardinality(Present(A)) + 1
    BY <1>2, FS_AddElement
  <2>7. n \in Present(A) <=> A[n] # NoAdapter
    BY <2>2 DEF Present
  <2>9. Cardinality(G \ {q}) = Cardinality(G) - 1
    BY <1>2, <2>3, FS_RemoveElement
  <2>10. Cardinality(Registers(nbRequest')) = Cardinality(G) - 1
    BY <2>3, <2>9
  <2>11. CASE A[n] = NoAdapter
    <3>1. connections' = connections /\ Cardinality(Present(nbAdapters')) = Cardinality(Present(A)) + 1
      BY <2>1, <2>5, <2>6, <2>7, <2>11
    <3> QED BY <1>1, <1>2, <2>10, <3>1
  <2>12. CASE A[n] # NoAdapter
    <3>1. connections' = connections - 1 /\ Cardinality(Present(nbAdapters')) = Cardinality(Present(A))
      BY <2>1, <2>5, <2>6, <2>7, <2>12
    <3> QED BY <1>1, <1>2, <2>10, <3>1
  <2> QED BY <2>11, <2>12
<1>9. CASE Start(q)
  <2>1. At(q, "start") /\ GoesOn(q) /\ SetEnabled(n, TRUE) /\ connections' = connections
    BY <1>9 DEF Start
  <2>2. n \in NbName
    BY <2>1, Served
  <2>3. Registers(nbRequest') = G
    BY <2>1, TailCount
  <2> HIDE DEF n
  <2>4. Present(nbAdapters') = Present(A)
    BY <1>1, <2>1, <2>2, SetEnabledKeeps
  <2> QED BY <1>1, <2>1, <2>3, <2>4
<1> QED BY <1>4, <1>5, <1>6, <1>7, <1>8, <1>9

LEMMA StepCount2 ==
    ASSUME NbInv, NEW q \in NbRequest, Missing(q) \/ Write(q) \/ WriteFails(q)
    PROVE  NoConnectionForgotten'
<1> DEFINE G == Registers(nbRequest)
           r == nbRequest[q]
<1>1. connections = Cardinality(Present(nbAdapters)) + Cardinality(G) /\ Requests(nbRequest)
  BY CountIs DEF NbInv, World
<1>2. nbAdapters' = nbAdapters /\ connections' = connections
  BY DEF Missing, Write, WriteFails
<1>3. SUFFICES Registers(nbRequest') = G
  BY <1>1, <1>2, CountNext
<1>4. CASE Missing(q)
  <2>1. At(q, "missing")
    BY <1>4 DEF Missing
  <2>2. q \notin G
    BY <2>1 DEF Registers, At
  <2>3. CASE LeavesAlone(q)
    <3>1. nbRequest' = [nbRequest EXCEPT ![q] = NoNbRequest] /\ NoNbRequest.todo = <<>>
      BY <2>3 DEF LeavesAlone, NoNbRequest
    <3>2. Registers([nbRequest EXCEPT ![q] = NoNbRequest]) = G \ {q}
      BY <1>1, <3>1, RegistersStep
    <3> QED BY <2>2, <3>1, <3>2
  <2>4. CASE Goes(q, Rebuild(Arg(q)), {})
    <3> DEFINE s == Rebuild(Arg(q))
    <3>1. Head(s).do = "remove"
      BY <2>1, Served, RebuildHead
    <3>2. Goes(q, s, {})
      BY <2>4
    <3> HIDE DEF s
    <3>3. s # <<>> => Registers(nbRequest') = G \ {q}
      BY <2>1, <3>1, <3>2, GoesCount
    <3>4. s = <<>> => Registers(nbRequest') = G \ {q}
      BY <2>1, <3>1, <3>2, GoesCount
    <3> QED BY <2>2, <3>3, <3>4
  <2> QED BY <1>4, <2>3, <2>4 DEF Missing
<1>5. CASE Write(q)
  <2>1. PICK w \in Statement : At(q, w)
    BY <1>5 DEF Write
  <2>2. GoesOn(q) /\ w \notin {"initialize", "register"}
    BY <1>5 DEF Write, Statement
  <2> QED BY <2>1, <2>2, TailCount
<1>6. CASE WriteFails(q)
  <2>1. PICK w \in Statement : /\ At(q, w)
                               /\ IF r.undoing THEN Goes(q, Tail(r.todo), {Arg(q).name}) ELSE Fails(q, w)
    BY <1>6 DEF WriteFails
  <2>2. w \notin {"initialize", "register"}
    BY DEF Statement
  <2>3. CASE r.undoing
    <3>1. Goes(q, Tail(r.todo), {Arg(q).name})
      BY <2>1, <2>3
    <3> QED BY <2>1, <2>2, <3>1, TailCounted
  <2>4. CASE ~r.undoing
    BY <2>1, <2>2, <2>4, FailsCount
  <2> QED BY <2>3, <2>4
<1> QED BY <1>4, <1>5, <1>6

LEMMA TodoHead ==
    ASSUME NEW op \in Operation, NEW old \in Config, NEW new \in Config
    PROVE  Head(TodoOf(op, old, new)).do # "register"
<1>1. Flipped(old) \in Config /\ {"insert", "save", "remove", "missing", "delete", "flag"} \subseteq Word
  BY FlippedIs DEF Word
<1>2. op = "create" => TodoOf(op, old, new) = Rebuilding(new, Then("insert", new, <<>>))
  BY TodoIs DEF TodoOf
<1>3. op = "update" /\ old.name = new.name => TodoOf(op, old, new) = Rebuilding(new, Then("save", new, <<>>))
  BY TodoIs DEF TodoOf
<1>4. op = "update" /\ old.name # new.name => TodoOf(op, old, new) = Then("remove", old, Rebuilding(new, Then("save", new, <<>>)))
  BY TodoIs DEF TodoOf
<1>5. op = "delete" => TodoOf(op, old, new) = Then("delete", old, Then("remove", old, <<>>))
  BY TodoIs DEF TodoOf
<1>6. op = "toggle" => TodoOf(op, old, new) = Then("flag", Flipped(old), Rebuilding(Flipped(old), <<>>))
  BY TodoIs DEF TodoOf
<1>7. op = "reload" => TodoOf(op, old, new) = Rebuilding(old, <<>>)
  BY TodoIs DEF TodoOf
<1>8. op = "sync" => TodoOf(op, old, new) = Then("missing", old, <<>>)
  BY TodoIs DEF TodoOf
<1>9. /\ Then("insert", new, <<>>) \in Seq(Step) /\ Then("save", new, <<>>) \in Seq(Step)
      /\ Then("remove", old, <<>>) \in Seq(Step) /\ Head(Then("missing", old, <<>>)).do = "missing"
  BY <1>1, LastIs
<1>10. /\ Rebuilding(new, Then("save", new, <<>>)) \in Seq(Step) /\ Rebuilding(Flipped(old), <<>>) \in Seq(Step)
       /\ Head(Rebuilding(new, Then("save", new, <<>>))).do = "remove"
       /\ Head(Rebuilding(new, Then("insert", new, <<>>))).do = "remove"
       /\ Head(Rebuilding(old, <<>>)).do = "remove"
  <2>1. Rebuilding(Flipped(old), <<>>) \in Seq(Step)
    BY <1>1, RebuildTyped
  <2>2. Rebuilding(new, Then("save", new, <<>>)) \in Seq(Step)
    BY <1>9, ListsTyped
  <2>3. /\ Head(Rebuilding(new, Then("save", new, <<>>))).do = "remove"
        /\ Head(Rebuilding(new, Then("insert", new, <<>>))).do = "remove"
    BY <1>9, RebuildingIs
  <2>4. Head(Rebuilding(old, <<>>)).do = "remove"
    BY RebuildHead
  <2> QED BY <2>1, <2>2, <2>3, <2>4
<1>11. \A w \in Word, c \in Config, s \in Seq(Step) : Head(Then(w, c, s)).do = w
  BY ThenIs
<1>12. /\ Head(Then("remove", old, Rebuilding(new, Then("save", new, <<>>)))).do = "remove"
       /\ Head(Then("delete", old, Then("remove", old, <<>>))).do = "delete"
       /\ Head(Then("flag", Flipped(old), Rebuilding(Flipped(old), <<>>))).do = "flag"
  BY <1>1, <1>9, <1>10, <1>11
<1> QED BY <1>2, <1>3, <1>4, <1>5, <1>6, <1>7, <1>8, <1>9, <1>10, <1>12 DEF Operation

LEMMA ArrivedCount ==
    ASSUME NbInv, NEW q \in NbRequest, NEW op \in Operation, NEW old \in Config, NEW new \in Config,
           NEW todo, todo = TodoOf(op, old, new), Arrive(q, op, old, new, todo)
    PROVE  NoConnectionForgotten' /\ nbRequests' \in 0 .. MaxRequests
<1> DEFINE O == Overlapping(new.id, {old.name, new.name})
           t == Asked(op, old, new, todo, O = {})
           Q == nbRequest
<1>1. connections = Cardinality(Present(nbAdapters)) + Cardinality(Registers(Q)) /\ Requests(Q) /\ nbRequests \in 0 .. MaxRequests
  BY CountIs DEF NbInv, World
<1>2. /\ nbAdapters' = nbAdapters /\ connections' = connections /\ ~Serving(q)
      /\ nbRequests < MaxRequests /\ nbRequests' = nbRequests + 1
  BY DEF Arrive
<1>3. nbRequest' = [k \in NbRequest |-> IF k = q THEN t ELSE IF k \in O THEN [Q[k] EXCEPT !.clean = FALSE] ELSE Q[k]]
  BY DEF Arrive, Asked
<1>4. t.todo = todo /\ Head(todo).do # "register"
  BY TodoHead DEF Asked
<1>5. \A k \in O : k \in NbRequest /\ Serving(k)
  BY DEF Overlapping
<1> HIDE DEF O, t
<1>6. nbRequest'[q] = t /\ \A k \in NbRequest \ {q} : nbRequest'[k] = IF k \in O THEN [Q[k] EXCEPT !.clean = FALSE] ELSE Q[k]
  BY <1>3
<1>7. \A k \in NbRequest \ {q} : nbRequest'[k].todo = Q[k].todo
  <2>1. ASSUME NEW k \in NbRequest \ {q}, k \in O PROVE nbRequest'[k].todo = Q[k].todo
    <3>1. Wellformed(Q[k])
      <4>1. k \in Live(Q)
        BY <1>5, <2>1 DEF Live, Serving
      <4> QED BY <1>1, <4>1, LiveIs
    <3>2. nbRequest'[k] = [Q[k] EXCEPT !.clean = FALSE]
      BY <1>6, <2>1
    <3> QED BY <3>1, <3>2 DEF Wellformed, Req
  <2>2. ASSUME NEW k \in NbRequest \ {q}, k \notin O PROVE nbRequest'[k].todo = Q[k].todo
    BY <1>6, <2>2
  <2> QED BY <2>1, <2>2
<1>8. q \notin Registers(Q)
  <2>1. q \notin Live(Q)
    BY <1>2 DEF Live, Serving
  <2>2. Q[q] = NoNbRequest
    BY <1>1, <2>1, LiveIs DEF Requests
  <2> QED BY <2>2 DEF Registers, NoNbRequest
<1>9. Registers(nbRequest') = Registers(Q)
  BY <1>4, <1>6, <1>7, <1>8 DEF Registers
<1>10. NoConnectionForgotten'
  BY <1>1, <1>2, <1>9, CountNext
<1>11. nbRequests' \in 0 .. MaxRequests
  BY <1>1, <1>2, NorthboundAssumption
<1> QED BY <1>10, <1>11

LEMMA Arrived ==
    ASSUME NbInv, NEW q \in NbRequest, NEW op \in Operation, NEW old \in Config, NEW new \in Config,
           NEW todo, todo = TodoOf(op, old, new), Arrive(q, op, old, new, todo), old.id = new.id,
           op # "update" => new = old, op # "create" => Holds(nbRows, old),
           op = "create" => /\ new.id \notin DOMAIN nbRows
                            /\ \A p \in NbRequest : Serving(p) => nbRequest[p].op # "create" \/ nbRequest[p].new.id # new.id
    PROVE  NbInv'
<1>1. World(nbRequest', nbAdapters', nbEnabled', nbRows', excused') /\ AdaptersOK(nbAdapters', nbEnabled')
  BY ArrivedWorld
<1>2. NoConnectionForgotten' /\ nbRequests' \in 0 .. MaxRequests
  BY ArrivedCount
<1> QED BY <1>1, <1>2 DEF NbInv

LEMMA CreateArrives ==
    ASSUME NbInv, NEW q \in NbRequest, NEW n \in NbName, NEW on \in BOOLEAN, CreateNorthboundConfig(q, n, on)
    PROVE  NbInv'
<1>1. PICK i \in NbId \ DOMAIN nbRows :
        /\ \A p \in NbRequest : Serving(p) => nbRequest[p].op # "create" \/ nbRequest[p].new.id # i
        /\ Arrive(q, "create", Submitted(i, n, on), Submitted(i, n, on), CreateSteps(Submitted(i, n, on)))
  BY DEF CreateNorthboundConfig
<1> DEFINE c == Submitted(i, n, on)
<1>2. c \in Config /\ c.id = i
  <2>1. nbRequests < MaxRequests /\ nbRequests \in 0 .. MaxRequests
    BY <1>1 DEF Arrive, NbInv
  <2> QED BY <2>1, SubmittedIs
<1> HIDE DEF c
<1>3. Arrive(q, "create", c, c, TodoOf("create", c, c))
  BY <1>1 DEF TodoOf, c
<1>4. "create" \in Operation
  BY DEF Operation
<1> QED BY <1>1, <1>2, <1>3, <1>4, Arrived

LEMMA UpdateArrives ==
    ASSUME NbInv, NEW q \in NbRequest, NEW n \in NbName, NEW on \in BOOLEAN, NEW i \in NbId, UpdateNorthboundConfig(q, i, n, on)
    PROVE  NbInv'
<1> DEFINE c == Submitted(i, n, on)
           old == nbRows[i]
<1>1. i \in DOMAIN nbRows /\ Arrive(q, "update", old, c, UpdateSteps(old, c))
  BY DEF UpdateNorthboundConfig
<1>2. c \in Config /\ c.id = i
  <2>1. nbRequests < MaxRequests /\ nbRequests \in 0 .. MaxRequests
    BY <1>1 DEF Arrive, NbInv
  <2> QED BY <2>1, SubmittedIs
<1>3. old \in Config /\ old.id = i /\ Holds(nbRows, old)
  BY <1>1 DEF NbInv, World, RowsOK, Holds
<1> HIDE DEF c, old
<1>4. Arrive(q, "update", old, c, TodoOf("update", old, c))
  BY <1>1 DEF TodoOf
<1>5. "update" \in Operation
  BY DEF Operation
<1> QED BY <1>2, <1>3, <1>4, <1>5, Arrived

LEMMA OtherArrives ==
    ASSUME NbInv, NEW q \in NbRequest, NEW i \in NbId,
           \/ DeleteNorthboundConfig(q, i) \/ ToggleNorthboundEnable(q, i)
           \/ ReloadNorthboundConfig(q, i) \/ SyncNorthboundDevices(q, i)
    PROVE  NbInv'
<1> DEFINE old == nbRows[i]
<1>1. PICK op \in {"delete", "toggle", "reload", "sync"} : i \in DOMAIN nbRows /\ Arrive(q, op, old, old, TodoOf(op, old, old))
  <2>1. CASE DeleteNorthboundConfig(q, i)
    <3>1. i \in DOMAIN nbRows /\ Arrive(q, "delete", old, old, TodoOf("delete", old, old))
      BY <2>1 DEF DeleteNorthboundConfig, TodoOf
    <3> QED BY <3>1
  <2>2. CASE ToggleNorthboundEnable(q, i)
    <3>1. i \in DOMAIN nbRows /\ Arrive(q, "toggle", old, old, TodoOf("toggle", old, old))
      BY <2>2 DEF ToggleNorthboundEnable, TodoOf
    <3> QED BY <3>1
  <2>3. CASE ReloadNorthboundConfig(q, i)
    <3>1. i \in DOMAIN nbRows /\ Arrive(q, "reload", old, old, TodoOf("reload", old, old))
      BY <2>3 DEF ReloadNorthboundConfig, TodoOf
    <3> QED BY <3>1
  <2>4. CASE SyncNorthboundDevices(q, i)
    <3>1. i \in DOMAIN nbRows /\ Arrive(q, "sync", old, old, TodoOf("sync", old, old))
      BY <2>4 DEF SyncNorthboundDevices, TodoOf
    <3> QED BY <3>1
  <2> QED BY <2>1, <2>2, <2>3, <2>4
<1>2. old \in Config /\ old.id = i /\ Holds(nbRows, old)
  BY <1>1 DEF NbInv, World, RowsOK, Holds
<1> HIDE DEF old
<1>3. op \in Operation /\ op \notin {"create", "update"}
  BY <1>1 DEF Operation
<1> QED BY <1>1, <1>2, <1>3, Arrived

-----------------------------------------------------------------------------
(* The invariant holds.                                                     *)

LEMMA NorthboundInitInv == NorthboundInit => NbInv
<1> SUFFICES ASSUME NorthboundInit PROVE NbInv
  OBVIOUS
<1>1. RowsOK(nbRows)
  BY DEF NorthboundInit, RowsOK
<1>2. nbAdapters = Booted(nbRows, {}) /\ nbEnabled = BootFlags(nbRows) /\ excused = {} /\ nbRequests = 0
      /\ nbRequest = [q \in NbRequest |-> NoNbRequest] /\ connections = Cardinality(Present(nbAdapters))
  BY DEF NorthboundInit
<1>3. PICK F \in SUBSET NbName : F = {}
  OBVIOUS
<1>4. World(nbRequest, Booted(nbRows, F), BootFlags(nbRows), nbRows, F) /\ AdaptersOK(Booted(nbRows, F), BootFlags(nbRows))
  BY <1>1, <1>2, BootWorld
<1>5. Registers(nbRequest) = {}
  BY <1>2 DEF Registers, NoNbRequest
<1>6. NoConnectionForgotten
  BY <1>2, <1>5, Counted, FS_EmptySet, CountIs
<1>7. nbRequests \in 0 .. MaxRequests
  BY <1>2, NorthboundAssumption
<1> QED BY <1>2, <1>3, <1>4, <1>6, <1>7 DEF NbInv

LEMMA RestartInv ==
    ASSUME NbInv, NEW F \in SUBSET NbName, Restart(F)
    PROVE  NbInv'
<1>1. RowsOK(nbRows) /\ nbRequests \in 0 .. MaxRequests
  BY DEF NbInv, World
<1>2. /\ nbAdapters' = Booted(nbRows, F) /\ nbEnabled' = BootFlags(nbRows) /\ nbRows' = nbRows /\ excused' = F
      /\ connections' = Cardinality(Present(Booted(nbRows, F))) /\ nbRequests' = nbRequests
      /\ nbRequest' = [q \in NbRequest |-> NoNbRequest]
  BY DEF Restart
<1>3. World(nbRequest', Booted(nbRows, F), BootFlags(nbRows), nbRows, F) /\ AdaptersOK(Booted(nbRows, F), BootFlags(nbRows))
  BY <1>1, <1>2, BootWorld
<1>4. Registers(nbRequest') = {}
  BY <1>2 DEF Registers, NoNbRequest
<1>5. Cardinality(Present(nbAdapters')) \in Nat /\ Cardinality(Registers(nbRequest')) = 0
  BY <1>4, Counted, FS_EmptySet
<1>6. connections' = Cardinality(Present(nbAdapters')) + Cardinality(Registers(nbRequest'))
  BY <1>2, <1>5
<1>7. NoConnectionForgotten'
  BY <1>6, CountNext
<1> QED BY <1>1, <1>2, <1>3, <1>7 DEF NbInv

LEMMA ServedInv ==
    ASSUME NbInv, NEW q \in NbRequest,
           \/ Unregister(q) \/ Disable(q) \/ Initialize(q) \/ InitializeFails(q) \/ Register(q)
           \/ Start(q) \/ Missing(q) \/ Write(q) \/ WriteFails(q)
    PROVE  NbInv'
<1>1. World(nbRequest', nbAdapters', nbEnabled', nbRows', excused') /\ AdaptersOK(nbAdapters', nbEnabled')
  <2>1. CASE Unregister(q)
    BY <2>1, UnregisterWorld
  <2>2. CASE Disable(q)
    BY <2>2, DisableWorld
  <2>3. CASE Initialize(q)
    BY <2>3, InitializeWorld
  <2>4. CASE InitializeFails(q)
    BY <2>4, InitializeFailsWorld
  <2>5. CASE Register(q)
    BY <2>5, RegisterWorld
  <2>6. CASE Start(q)
    BY <2>6, StartWorld
  <2>7. CASE Missing(q)
    BY <2>7, MissingWorld
  <2>8. CASE Write(q)
    BY <2>8, WriteWorld
  <2>9. CASE WriteFails(q)
    BY <2>9, WriteFailsWorld
  <2> QED BY <2>1, <2>2, <2>3, <2>4, <2>5, <2>6, <2>7, <2>8, <2>9
<1>2. NoConnectionForgotten'
  BY StepCount, StepCount2
<1>3. nbRequests' = nbRequests
  BY DEF Unregister, Disable, Initialize, InitializeFails, Register, Start, Missing, Write, WriteFails
<1> QED BY <1>1, <1>2, <1>3 DEF NbInv

LEMMA NorthboundNextInv == NbInv /\ [NorthboundNext]_NorthboundVars => NbInv'
<1> SUFFICES ASSUME NbInv, [NorthboundNext]_NorthboundVars PROVE NbInv'
  OBVIOUS
<1>1. CASE UNCHANGED NorthboundVars
  <2>1. /\ nbRequest' = nbRequest /\ nbAdapters' = nbAdapters /\ nbEnabled' = nbEnabled /\ nbRows' = nbRows
        /\ excused' = excused /\ connections' = connections /\ nbRequests' = nbRequests
    BY <1>1 DEF NorthboundVars
  <2>2. NoConnectionForgotten'
    BY <2>1, CountIs, CountNext DEF NbInv
  <2> QED BY <2>1, <2>2 DEF NbInv
<1>2. ASSUME NEW q \in NbRequest, NEW n \in NbName, NEW on \in BOOLEAN, CreateNorthboundConfig(q, n, on) PROVE NbInv'
  BY <1>2, CreateArrives
<1>3. ASSUME NEW q \in NbRequest, NEW n \in NbName, NEW on \in BOOLEAN, NEW i \in NbId, UpdateNorthboundConfig(q, i, n, on)
      PROVE  NbInv'
  BY <1>3, UpdateArrives
<1>4. ASSUME NEW q \in NbRequest, NEW i \in NbId,
             \/ DeleteNorthboundConfig(q, i) \/ ToggleNorthboundEnable(q, i)
             \/ ReloadNorthboundConfig(q, i) \/ SyncNorthboundDevices(q, i)
      PROVE  NbInv'
  BY <1>4, OtherArrives
<1>5. ASSUME NEW q \in NbRequest,
             \/ Unregister(q) \/ Disable(q) \/ Initialize(q) \/ InitializeFails(q) \/ Register(q)
             \/ Start(q) \/ Missing(q) \/ Write(q) \/ WriteFails(q)
      PROVE  NbInv'
  BY <1>5, ServedInv
<1>6. ASSUME NEW F \in SUBSET NbName, Restart(F) PROVE NbInv'
  BY <1>6, RestartInv
<1> QED BY <1>1, <1>2, <1>3, <1>4, <1>5, <1>6 DEF NorthboundNext

LEMMA NorthboundTypes == NbInv => NorthboundTypeOK
<1> SUFFICES ASSUME NbInv PROVE NorthboundTypeOK
  OBVIOUS
<1>1. /\ Requests(nbRequest) /\ RowsOK(nbRows) /\ excused \subseteq NbName /\ AdaptersOK(nbAdapters, nbEnabled)
  BY DEF NbInv, World
<1>2. DOMAIN nbRows \subseteq NbId /\ \A i \in DOMAIN nbRows : nbRows[i] \in Config /\ nbRows[i].id = i
  BY <1>1 DEF RowsOK
<1>3. nbAdapters \in [NbName -> [version : -1 .. MaxRequests, started : BOOLEAN]] /\ nbEnabled \in [NbName -> BOOLEAN]
  <2>1. NoAdapter \in [version : -1 .. MaxRequests, started : BOOLEAN]
    BY NorthboundAssumption DEF NoAdapter
  <2>2. [version : 0 .. MaxRequests, started : BOOLEAN] \subseteq [version : -1 .. MaxRequests, started : BOOLEAN]
    OBVIOUS
  <2> QED BY <1>1, <2>1, <2>2 DEF AdaptersOK
<1>4. ASSUME NEW q \in NbRequest, Serving(q)
      PROVE  /\ nbRequest[q].op \in Operation /\ nbRequest[q].old \in Config /\ nbRequest[q].new \in Config
             /\ nbRequest[q].todo # <<>>
  <2>1. Wellformed(nbRequest[q])
    <3>1. q \in Live(nbRequest)
      BY <1>4 DEF Live, Serving
    <3> QED BY <1>1, <3>1, LiveIs
  <2> QED BY <2>1, ReqFields
<1>5. connections \in Nat
  BY CountIs, Counted DEF NbInv
<1> QED BY <1>1, <1>2, <1>3, <1>4, <1>5 DEF NorthboundTypeOK

LEMMA NorthboundFollows == NbInv => RuntimeFollowsDB
<1> SUFFICES ASSUME NbInv, \A q \in NbRequest : ~Serving(q), NEW n \in NbName \ excused,
                    NEW rows, rows = {nbRows[i] : i \in {j \in DOMAIN nbRows : nbRows[j].name = n /\ nbRows[j].enabled}}
             PROVE  IF rows = {} THEN nbAdapters[n] = NoAdapter /\ ~nbEnabled[n]
                    ELSE /\ nbEnabled[n]
                         /\ \A c \in rows : nbAdapters[n] = [version |-> c.version, started |-> TRUE]
  BY DEF RuntimeFollowsDB
<1>1. ClaimedBy(nbRequest) = {}
  BY DEF ClaimedBy, Live, Serving
<1>2. Right(nbAdapters, nbEnabled, nbRows, n)
  BY <1>1 DEF NbInv, World, Outside, Settled
<1>3. ASSUME rows = {} PROVE nbAdapters[n] = NoAdapter /\ nbEnabled[n] = FALSE
  <2>1. \A j \in Named(nbRows, n) : ~nbRows[j].enabled
    BY <1>3 DEF Named
  <2> QED BY <1>2, <2>1 DEF Right, Off
<1>4. ASSUME NEW c \in rows PROVE nbEnabled[n] = TRUE /\ nbAdapters[n] = [version |-> c.version, started |-> TRUE]
  <2>1. PICK j \in DOMAIN nbRows : c = nbRows[j] /\ nbRows[j].name = n /\ nbRows[j].enabled
    BY <1>4
  <2>2. Runs(nbAdapters, nbEnabled, c)
    BY <1>2, <2>1 DEF Right, Named
  <2> QED BY <2>1, <2>2 DEF Runs
<1> QED BY <1>3, <1>4

\* Proved for any number of configurations, requests, faults and restarts: the
\* manager's types, that the adapters which run between requests are those the
\* table asks for (but for the excused names), and that an adapter which has
\* connected is registered or about to be, whatever interleaving, rollback or
\* restart led there.  NbInv says of each request under way where it is and
\* what its adapters and its row are by then.
THEOREM AdaptersFollowInvariant == NorthboundSpec => []AdaptersFollow
<1>1. NbInv => AdaptersFollow
  BY NorthboundTypes, NorthboundFollows DEF NbInv, AdaptersFollow
<1> QED BY <1>1, NorthboundInitInv, NorthboundNextInv, PTL DEF NorthboundSpec

=============================================================================

--------------------------- MODULE RuntimeConfig ---------------------------
(***************************************************************************)
(* Changing the running gateway's settings:                                *)
(* internal/service/gateway_runtime_apply.go and gateway_runtime_change.go, *)
(* called by the handler of httpapi/gateway_runtime_write.go, with         *)
(* SetRuntimeIntervals, notifyIntervalChange and the ticker worker of the  *)
(* collector, the executor's SetTimeouts and SetRetries and the adapters'  *)
(* SetReconnectInterval; and app/routes_api_deps.go, where a request about *)
(* northbound configurations makes an adapter anew.                        *)
(*                                                                         *)
(* The collector runs.  Two requests may be under way at once over the one *)
(* configuration record, which no lock protects.  The eleven settings are  *)
(* three: an interval of the collector, the reconnect interval of an       *)
(* adapter, the executor's settings.                                       *)
(***************************************************************************)
EXTENDS Naturals, Sequences

CONSTANTS
    RtRequest,     \* handlers at work at once
    RtValue,       \* values of a setting
    Initially,     \* the value all of them start with
    BuiltIn,       \* defaultReconnectInterval, which a new adapter starts with
    MaxRtRequests, \* bound: requests
    MaxRebuilds    \* bound: times the adapter is made anew

ASSUME RuntimeConfigAssumption ==
    {MaxRtRequests, MaxRebuilds} \subseteq Nat /\ {Initially, BuiltIn} \subseteq RtValue

\* The order in which a request's settings are checked, and applied.
Checked == <<"interval", "reconnect", "driver">>
Setting == {Checked[i] : i \in DOMAIN Checked}

VARIABLES
    appConfig,     \* [Setting -> RtValue]: the configuration record
    applied,       \* [Setting -> RtValue]: what collector, adapters and executor were given
    resetChan,     \* the reset channel, of one place
    ticker,        \* the interval the worker's ticker runs at
    rt,            \* [RtRequest -> [pc, n, want, read, changed, alone]]
    untidy,        \* requests overlapped, or a refused one left a change, and none has applied all since
    anew,          \* the adapter was given no interval since it was made
    replaced,      \* requests about to give one to an adapter that was replaced
    rtRequests, rebuilds

adapterVars == <<anew, replaced, rebuilds>>
RuntimeConfigVars == <<appConfig, applied, resetChan, ticker, rt, untidy, adapterVars, rtRequests>>

\* Of each setting: not in the request, not acceptable, or a new value.
Asks == [Setting -> RtValue \cup {"absent", "invalid"}]
NoRequest == [pc |-> "idle", n |-> 1, want |-> [s \in Setting |-> "absent"], read |-> Initially,
              changed |-> FALSE, alone |-> TRUE]

\* What a setting was before anybody changed it.  The start hands the reconnect
\* interval to MQTT adapters; the others keep their own.
Started(s, new) == IF s = "reconnect" /\ new THEN BuiltIn ELSE Initially

RuntimeConfigInit ==
    /\ anew \in BOOLEAN /\ replaced = {} /\ rebuilds = 0
    /\ appConfig = [s \in Setting |-> Initially] /\ applied = [s \in Setting |-> Started(s, anew)]
    /\ resetChan = <<>> /\ ticker = Initially
    /\ rt = [q \in RtRequest |-> NoRequest] /\ untidy = FALSE /\ rtRequests = 0

UnderWay == {q \in RtRequest : rt[q].pc # "idle"}
RtGoes(q, pc) == rt' = [rt EXCEPT ![q].pc = pc]
RtEnds(q) == rt' = [rt EXCEPT ![q] = NoRequest]

-----------------------------------------------------------------------------
(* ApplyRuntimeConfig.                                                      *)

UpdateRuntimeConfig(q) ==
    /\ rt[q].pc = "idle" /\ rtRequests < MaxRtRequests /\ rtRequests' = rtRequests + 1
    /\ \E w \in Asks :
         rt' = [p \in RtRequest |->
                  IF p = q THEN [NoRequest EXCEPT !.pc = "assign", !.want = w, !.alone = UnderWay = {}]
                  ELSE [rt[p] EXCEPT !.alone = p \notin UnderWay]]
    /\ untidy' = (untidy \/ UnderWay # {})
    /\ UNCHANGED <<appConfig, applied, resetChan, ticker, adapterVars>>

\* The settings are checked and assigned one after the other; a bad one ends
\* the request and leaves those before it assigned.
AssignSetting(q) ==
    /\ rt[q].pc = "assign"
    /\ LET s == Checked[rt[q].n]  v == rt[q].want[s]
           next == IF rt[q].n = Len(Checked) THEN "read_interval" ELSE "assign"
       IN  \/ /\ v = "invalid" /\ RtEnds(q) /\ UNCHANGED appConfig
              /\ untidy' = (untidy \/ rt[q].changed)
           \/ /\ v # "invalid" /\ UNCHANGED untidy
              /\ appConfig' = IF v = "absent" THEN appConfig ELSE [appConfig EXCEPT ![s] = v]
              /\ rt' = [rt EXCEPT ![q].pc = next, ![q].n = @ + 1, ![q].want[s] = "absent",
                                  ![q].changed = @ \/ v \notin {"absent", appConfig[s]}]
    /\ UNCHANGED <<applied, resetChan, ticker, rtRequests, adapterVars>>

\* A setting is read from the record and then handed over, under a lock of
\* the part that takes it.
Read(q, from, s, to) ==
    /\ rt[q].pc = from
    /\ rt' = [rt EXCEPT ![q].pc = to, ![q].read = appConfig[s]]
    /\ UNCHANGED <<appConfig, applied, resetChan, ticker, untidy, rtRequests, adapterVars>>

HandOver(q, from, s, to) ==
    /\ rt[q].pc = from /\ RtGoes(q, to)
    /\ applied' = [applied EXCEPT ![s] = rt[q].read]
    /\ UNCHANGED <<appConfig, resetChan, ticker, untidy, rtRequests, adapterVars>>

ApplyCollectorRuntime(q) == Read(q, "read_interval", "interval", "set_interval")
SetRuntimeIntervals(q) == HandOver(q, "set_interval", "interval", "notify")

\* notifyIntervalChange: three selects, none of which blocks.
Notify(q) ==
    /\ rt[q].pc = "notify"
    /\ IF resetChan = <<>> THEN resetChan' = <<rt[q].read>> /\ RtGoes(q, "read_driver")
       ELSE UNCHANGED resetChan /\ RtGoes(q, "drain")
    /\ UNCHANGED <<appConfig, applied, ticker, untidy, rtRequests, adapterVars>>

Drain(q) ==
    /\ rt[q].pc = "drain" /\ resetChan' = <<>> /\ RtGoes(q, "again")
    /\ UNCHANGED <<appConfig, applied, ticker, untidy, rtRequests, adapterVars>>

Refilled(v) == IF resetChan = <<>> THEN <<v>> ELSE resetChan
NotifyAgain(q) ==
    /\ rt[q].pc = "again" /\ resetChan' = Refilled(rt[q].read) /\ RtGoes(q, "read_driver")
    /\ UNCHANGED <<appConfig, applied, ticker, untidy, rtRequests, adapterVars>>

ApplyDriverRuntime(q) == Read(q, "read_driver", "driver", "set_driver")
SetTimeoutsAndRetries(q) == HandOver(q, "set_driver", "driver", "read_reconnect")

\* The adapter is looked up and the setting read; an adapter that is replaced
\* before it is handed over is given it for nothing.
ApplyNorthboundRuntime(q) == Read(q, "read_reconnect", "reconnect", "set_reconnect")
SetReconnectInterval(q) ==
    /\ rt[q].pc = "set_reconnect" /\ RtGoes(q, "audit") /\ replaced' = replaced \ {q}
    /\ IF q \in replaced THEN UNCHANGED <<applied, anew>>
       ELSE applied' = [applied EXCEPT !["reconnect"] = rt[q].read] /\ anew' = FALSE
    /\ UNCHANGED <<appConfig, resetChan, ticker, untidy, rtRequests, rebuilds>>

\* A northbound configuration is created, updated, switched or reloaded, and
\* its adapter made anew, with the interval every adapter is made with.
RebuildAdapter ==
    /\ rebuilds < MaxRebuilds /\ rebuilds' = rebuilds + 1
    /\ anew' = TRUE /\ applied' = [applied EXCEPT !["reconnect"] = BuiltIn]
    /\ replaced' = {q \in RtRequest : rt[q].pc = "set_reconnect"}
    /\ UNCHANGED <<appConfig, resetChan, ticker, rt, untidy, rtRequests>>

\* The handler records the changes it made, an error is ignored, and answers.
RecordRuntimeConfigAudit(q) ==
    /\ rt[q].pc = "audit" /\ RtEnds(q)
    /\ untidy' = (untidy /\ ~rt[q].alone)
    /\ UNCHANGED <<appConfig, applied, resetChan, ticker, rtRequests, adapterVars>>

\* The ticker worker.
\* Wrong variant: the interval is taken, and the ticker is not reset to it.
TickerNotReset ==
    /\ resetChan # <<>> /\ resetChan' = <<>>
    /\ UNCHANGED <<appConfig, applied, ticker, rt, untidy, rtRequests, adapterVars>>
ResetTicker ==
    /\ resetChan # <<>> /\ ticker' = Head(resetChan) /\ resetChan' = <<>>
    /\ UNCHANGED <<appConfig, applied, rt, untidy, rtRequests, adapterVars>>

RuntimeConfigNext ==
    \/ ResetTicker \/ RebuildAdapter
    \/ \E q \in RtRequest :
         \/ UpdateRuntimeConfig(q) \/ AssignSetting(q)
         \/ ApplyCollectorRuntime(q) \/ SetRuntimeIntervals(q) \/ Notify(q) \/ Drain(q) \/ NotifyAgain(q)
         \/ ApplyDriverRuntime(q) \/ SetTimeoutsAndRetries(q)
         \/ ApplyNorthboundRuntime(q) \/ SetReconnectInterval(q) \/ RecordRuntimeConfigAudit(q)

RuntimeConfigSpec == RuntimeConfigInit /\ [][RuntimeConfigNext]_RuntimeConfigVars

-----------------------------------------------------------------------------
\* The interval the ticker runs at once the worker has looked.
TickerTo == IF resetChan = <<>> THEN ticker ELSE Head(resetChan)

\* With no request under way every part runs with what the record says, the
\* ticker of the collector too, however slow its worker is.  Overlapping
\* requests and refused ones may leave it otherwise; the next request that
\* runs alone and is accepted puts everything right, whatever it asks for.  An
\* adapter made anew runs with the built-in interval, until a request that
\* found it hands the record's over.
SettingsFollow ==
    UnderWay = {} /\ ~untidy =>
        /\ \A s \in Setting \ {"reconnect"} : applied[s] = appConfig[s]
        /\ applied["reconnect"] = IF anew THEN BuiltIn ELSE appConfig["reconnect"]
        /\ TickerTo = applied["interval"]
=============================================================================

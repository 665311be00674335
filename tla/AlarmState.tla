----------------------------- MODULE AlarmState -----------------------------
(***************************************************************************)
(* How often an alarm is repeated: internal/collector/alarm_state.go and   *)
(* checkThresholds of threshold_check.go.                                  *)
(*                                                                         *)
(* Times are kept as ages, in ticks of the clock, and saturate: what       *)
(* matters of a moment is how long ago it was.  A check takes the time     *)
(* once, before it resolves the repeat interval, and may finish ticks      *)
(* later.  The interval is cached in two atomics that are loaded, stored   *)
(* and reset one after the other.                                          *)
(***************************************************************************)
EXTENDS Integers

CONSTANTS
    AlarmDevice, AlarmRule,
    Checker,              \* collections that evaluate their rules
    Interval,             \* repeat intervals that can be configured
    DefaultInterval,      \* defaultAlarmRepeatInterval
    Window,               \* alarmRepeatIntervalRefreshWindow
    DefaultTTL, MaxTTL, TTLFactor,
    PruneEvery,           \* alarmStatePruneEveryCalls
    MaxLag,               \* bound: ticks a check takes
    MaxChanges,           \* bound: changes of the repeat interval
    MaxReadFaults         \* bound: reads of the interval that fail

ASSUME AlarmStateAssumption ==
    /\ Interval \subseteq Nat \ {0} /\ DefaultInterval \in Interval
    /\ {Window, PruneEvery, TTLFactor} \subseteq Nat \ {0}
    /\ {DefaultTTL, MaxTTL, MaxLag, MaxChanges, MaxReadFaults} \subseteq Nat
    /\ DefaultTTL <= MaxTTL

Never  == -1
\* No age beyond this one makes a difference.
MaxAge == CHOOSE n \in Interval \cup {MaxTTL} : \A m \in Interval \cup {MaxTTL} : m <= n
Oldest == MaxAge + MaxLag + 1
Key    == AlarmDevice \X AlarmRule

VARIABLES
    configured,    \* gateway_config.alarm_repeat_interval_seconds
    valueNS,       \* the cached interval; 0: none
    expiresIn,     \* ticks until expiresAtNS, down to -MaxLag
    change,        \* how far the request that changes the interval is
    byID,          \* alarmStates.byID: the age of LastTriggered, or Never
    fired,         \* the age of the last alarm of a key, or Never: not pruned
    alarmChecks,   \* alarmStateCheckCounter, modulo PruneEvery
    checker,       \* the check each Checker is at
    emitted,       \* the alarms the last step emitted: the gap to the one before, as
                   \* the check sees it and by the clock, and the interval
    changes, readFaults

AlarmStateVars == <<configured, valueNS, expiresIn, change, byID, fired, alarmChecks,
                    checker, emitted, changes, readFaults>>

NoAlarmCheck == [pc |-> "idle", dev |-> "none", lag |-> 0, repeat |-> 0]

AlarmStateInit ==
    /\ configured = DefaultInterval /\ valueNS = 0 /\ expiresIn = -MaxLag /\ change = "idle"
    /\ byID = [k \in Key |-> Never] /\ fired = [k \in Key |-> Never]
    /\ alarmChecks = 0 /\ checker = [c \in Checker |-> NoAlarmCheck]
    /\ emitted = {} /\ changes = 0 /\ readFaults = 0

-----------------------------------------------------------------------------
(* resolveAlarmRepeatInterval, as the first half of a check.                *)

Goes(c, pc, n) == checker' = [checker EXCEPT ![c] = [@ EXCEPT !.pc = pc, !.repeat = n]]

\* checkThresholds has its rules: the time is taken and valueNS loaded.
LoadValue(c, d) ==
    /\ checker[c].pc = "idle"
    /\ checker' = [checker EXCEPT ![c] = [pc |-> "loaded", dev |-> d, lag |-> 0, repeat |-> valueNS]]
    /\ emitted' = {}
    /\ UNCHANGED <<configured, valueNS, expiresIn, change, byID, fired, alarmChecks, changes, readFaults>>

\* nowNS < expiresAtNS, of a moment taken lag ticks ago.
\* Wrong variant: an interval that is used is kept for another window.
RenewedBy(c) == expiresIn' = IF expiresIn + checker[c].lag > 0 THEN Window ELSE expiresIn
CachedBy(c) == UNCHANGED expiresIn

LoadExpiry(c) ==
    /\ checker[c].pc = "loaded"
    /\ IF checker[c].repeat > 0 /\ expiresIn + checker[c].lag > 0
       THEN Goes(c, "resolved", checker[c].repeat)
       ELSE Goes(c, "query", 0)
    /\ CachedBy(c) /\ emitted' = {}
    /\ UNCHANGED <<configured, valueNS, change, byID, fired, alarmChecks, changes, readFaults>>

\* GetAlarmRepeatIntervalSeconds, or the default if it fails.
IntervalRead(ok) == IF ok THEN configured ELSE DefaultInterval

QueryInterval(c) ==
    /\ checker[c].pc = "query"
    /\ \E ok \in BOOLEAN :
        /\ readFaults' = IF ok THEN readFaults ELSE readFaults + 1
        /\ readFaults' <= MaxReadFaults
        /\ Goes(c, "storeValue", IntervalRead(ok))
    /\ emitted' = {}
    /\ UNCHANGED <<configured, valueNS, expiresIn, change, byID, fired, alarmChecks, changes>>

StoreValue(c) ==
    /\ checker[c].pc = "storeValue"
    /\ valueNS' = checker[c].repeat
    /\ Goes(c, "storeExpiry", checker[c].repeat) /\ emitted' = {}
    /\ UNCHANGED <<configured, expiresIn, change, byID, fired, alarmChecks, changes, readFaults>>

StoreExpiry(c) ==
    /\ checker[c].pc = "storeExpiry"
    /\ expiresIn' = Window - checker[c].lag
    /\ Goes(c, "resolved", checker[c].repeat) /\ emitted' = {}
    /\ UNCHANGED <<configured, valueNS, change, byID, fired, alarmChecks, changes, readFaults>>

-----------------------------------------------------------------------------
(* The rules are evaluated.                                                 *)

\* resolveAlarmStateTTL.
TTL(repeat) ==
    LET wanted == IF TTLFactor * repeat > DefaultTTL THEN TTLFactor * repeat ELSE DefaultTTL
    IN  IF wanted > MaxTTL THEN MaxTTL ELSE wanted

\* now.Sub(LastTriggered), for a check that took its time lag ticks ago.
Gap(age, lag) == age - lag

\* pruneAlarmStatesLocked, every PruneEvery checks.
Kept(c) ==
    [k \in Key |-> IF /\ (alarmChecks + 1) % PruneEvery = 0 /\ byID[k] # Never
                      /\ Gap(byID[k], checker[c].lag) > TTL(checker[c].repeat)
                   THEN Never ELSE byID[k]]

\* shouldEmitAlarmForIDKey.
Emits(c, k) ==
    Kept(c)[k] = Never \/ Gap(Kept(c)[k], checker[c].lag) >= checker[c].repeat

\* Wrong variant: an alarm that is repeated does not restart its interval.
TriggeredFirst(c, E) == [k \in Key |-> IF k \in E /\ Kept(c)[k] = Never THEN checker[c].lag ELSE Kept(c)[k]]
Triggered(c, E) == [k \in Key |-> IF k \in E THEN checker[c].lag ELSE Kept(c)[k]]

\* Values match the rules M of the device, of those that are not shielded.
\* An alarm counts as triggered before it is logged and sent northbound: no
\* failure of either takes that back.
Evaluate(c, M) ==
    /\ checker[c].pc = "resolved"
    /\ LET E == {k \in {checker[c].dev} \X M : Emits(c, k)}
       IN  /\ byID' = Triggered(c, E)
           /\ fired' = [k \in Key |-> IF k \in E THEN checker[c].lag ELSE fired[k]]
           /\ emitted' = {[gap |-> Gap(fired[k], checker[c].lag), age |-> fired[k],
                            repeat |-> checker[c].repeat] : k \in {e \in E : fired[e] # Never}}
    /\ alarmChecks' = (alarmChecks + 1) % PruneEvery
    /\ checker' = [checker EXCEPT ![c] = NoAlarmCheck]
    /\ UNCHANGED <<configured, valueNS, expiresIn, change, changes, readFaults>>

\* clearAlarmStateForDevice: the device's collection task is removed.
ClearAlarmState(d) ==
    /\ byID' = [k \in Key |-> IF k[1] = d THEN Never ELSE byID[k]]
    /\ fired' = [k \in Key |-> IF k[1] = d THEN Never ELSE fired[k]]
    /\ emitted' = {}
    /\ UNCHANGED <<configured, valueNS, expiresIn, change, alarmChecks, checker, changes, readFaults>>

-----------------------------------------------------------------------------
(* UpdateAlarmRepeatInterval, and the passing of time.                      *)

ChangeInterval(n) ==
    /\ change = "idle" /\ changes < MaxChanges /\ changes' = changes + 1
    /\ configured' = n /\ change' = "value" /\ emitted' = {}
    /\ UNCHANGED <<valueNS, expiresIn, byID, fired, alarmChecks, checker, readFaults>>

ResetValue ==
    /\ change = "value" /\ change' = "expiry" /\ valueNS' = 0 /\ emitted' = {}
    /\ UNCHANGED <<configured, expiresIn, byID, fired, alarmChecks, checker, changes, readFaults>>

ResetExpiry ==
    /\ change = "expiry" /\ change' = "idle" /\ expiresIn' = -MaxLag /\ emitted' = {}
    /\ UNCHANGED <<configured, valueNS, byID, fired, alarmChecks, checker, changes, readFaults>>

Older(age) == IF age = Never \/ age = Oldest THEN age ELSE age + 1

AlarmTick ==
    /\ \A c \in Checker : checker[c].pc # "idle" => checker[c].lag < MaxLag
    /\ checker' = [c \in Checker |-> IF checker[c].pc = "idle" THEN checker[c]
                                     ELSE [checker[c] EXCEPT !.lag = @ + 1]]
    /\ expiresIn' = IF expiresIn > -MaxLag THEN expiresIn - 1 ELSE expiresIn
    /\ byID' = [k \in Key |-> Older(byID[k])] /\ fired' = [k \in Key |-> Older(fired[k])]
    /\ emitted' = {}
    /\ UNCHANGED <<configured, valueNS, change, alarmChecks, changes, readFaults>>

AlarmCheckStep(c) ==
    \/ LoadExpiry(c) \/ QueryInterval(c) \/ StoreValue(c) \/ StoreExpiry(c)
    \/ \E M \in SUBSET AlarmRule : Evaluate(c, M)

AlarmStateNext ==
    \/ \E c \in Checker : AlarmCheckStep(c) \/ \E d \in AlarmDevice : LoadValue(c, d)
    \/ \E d \in AlarmDevice : ClearAlarmState(d)
    \/ \E n \in Interval : ChangeInterval(n)
    \/ ResetValue \/ ResetExpiry \/ AlarmTick

\* A check and a request that have begun go on, and time passes.
AlarmStateFairness ==
    /\ WF_AlarmStateVars(AlarmTick) /\ WF_AlarmStateVars(ResetValue \/ ResetExpiry)
    /\ \A c \in Checker : WF_AlarmStateVars(AlarmCheckStep(c))

AlarmStateSpec == AlarmStateInit /\ [][AlarmStateNext]_AlarmStateVars /\ AlarmStateFairness

-----------------------------------------------------------------------------
AlarmStateTypeOK ==
    /\ configured \in Interval /\ valueNS \in Interval \cup {0} /\ expiresIn \in -MaxLag .. Window
    /\ change \in {"idle", "value", "expiry"}
    /\ byID \in [Key -> -1 .. Oldest] /\ fired \in [Key -> -1 .. Oldest]
    /\ alarmChecks \in 0 .. PruneEvery - 1
    /\ \A c \in Checker :
        /\ checker[c].pc \in {"idle", "loaded", "query", "storeValue", "storeExpiry", "resolved"}
        /\ checker[c].dev \in AlarmDevice \cup {"none"}
        /\ checker[c].lag \in 0 .. MaxLag /\ checker[c].repeat \in Interval \cup {0}
    /\ \A e \in emitted : e.repeat \in Interval
    /\ changes \in 0 .. MaxChanges /\ readFaults \in 0 .. MaxReadFaults

\* However checks of a device overlap and whatever is pruned meanwhile, an
\* alarm is not repeated before the repeat interval its check resolved is
\* over, as the check counts it, or before its state may be pruned, by the
\* clock, when that is sooner.
AlarmsSpaced == \A e \in emitted : e.gap >= e.repeat \/ e.age > DefaultTTL

\* A change of the repeat interval is adopted by every later check: an older
\* value that a check stores after InvalidateAlarmRepeatIntervalCache expires.
IntervalAdopted == <>[](\A c \in Checker : checker[c].pc = "resolved" => checker[c].repeat = configured)

\* The states of the alarms are well formed, and alarms are far enough apart.
AlarmsSound == AlarmStateTypeOK /\ AlarmsSpaced
=============================================================================

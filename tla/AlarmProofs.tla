---------------------------- MODULE AlarmProofs ----------------------------
(***************************************************************************)
(* Proofs about modules AlarmState, ThresholdCache, FieldLookup and        *)
(* CollectBatch, which share no state: what a reading is compared with,    *)
(* what it raises and how it is written, for any devices, rules, names,    *)
(* checks and requests, and any repeat intervals with an upper bound.      *)
(***************************************************************************)
EXTENDS ThresholdCache, AlarmState, FieldLookup, CollectBatch,
        FiniteSetTheorems, WellFoundedInduction, TLAPS

-----------------------------------------------------------------------------
(* The repetition of alarms.                                                *)

\* A bounded set of numbers has a greatest.
LEMMA Greatest ==
    ASSUME NEW S, NEW b \in Nat, S \subseteq 0 .. b, S # {}
    PROVE  \E n \in S : \A m \in S : m <= n
<1> DEFINE U == {n \in Nat : \A m \in S : m <= n}
<1>1. b \in U /\ U \subseteq Nat
  OBVIOUS
<1>2. PICK u \in U : \A v \in U : ~(<<v, u>> \in OpToRel(<, Nat))
  BY <1>1, NatLessThanWellFounded, WFMin
<1>3. \A v \in U : ~(v < u)
  BY <1>1, <1>2 DEF OpToRel
<1>4. u \in S
  <2> SUFFICES ASSUME u \notin S PROVE FALSE
    OBVIOUS
  <2>1. \A m \in S : m \in Nat /\ m < u
    OBVIOUS
  <2>2. PICK n \in S : TRUE
    OBVIOUS
  <2>3. u \in Nat /\ n \in Nat /\ n < u
    BY <2>1
  <2>4. u - 1 \in Nat /\ \A m \in S : m <= u - 1
    BY <2>1, <2>3
  <2>5. u - 1 \in U /\ u - 1 < u
    BY <2>4
  <2> QED BY <1>3, <2>5
<1> QED BY <1>4

\* A repeat interval is an int of seconds: there is a longest one.
IntervalsBounded == \E b \in Nat : Interval \subseteq 0 .. b

LEMMA Times ==
    ASSUME IntervalsBounded
    PROVE  /\ Oldest \in Nat /\ MaxLag \in Nat /\ MaxLag <= Oldest
           /\ Interval \subseteq Nat \ {0} /\ DefaultInterval \in Interval
           /\ Window \in Nat \ {0} /\ PruneEvery \in Nat \ {0} /\ TTLFactor \in Nat \ {0}
           /\ DefaultTTL \in Nat /\ MaxTTL \in Nat /\ DefaultTTL <= MaxTTL
           /\ MaxChanges \in Nat /\ MaxReadFaults \in Nat
<1> DEFINE S == Interval \cup {MaxTTL}
<1>0. PICK b \in Nat : Interval \subseteq 0 .. b
  BY DEF IntervalsBounded
<1> DEFINE c == IF b < MaxTTL THEN MaxTTL ELSE b
<1>1. MaxTTL \in Nat /\ MaxLag \in Nat
  BY AlarmStateAssumption
<1>2. c \in Nat /\ S \subseteq 0 .. c /\ S # {}
  BY <1>0, <1>1
<1> HIDE DEF c, S
<1>3. \E n \in S : \A m \in S : m <= n
  BY <1>2, Greatest
<1>4. MaxAge \in S
  BY <1>3 DEF MaxAge, S
<1>5. MaxAge \in Nat
  BY <1>2, <1>4
<1>6. Oldest \in Nat /\ MaxLag <= Oldest
  BY <1>1, <1>5 DEF Oldest
<1> QED BY <1>1, <1>6, AlarmStateAssumption

\* A check has a device and, once it has resolved it, an interval to use.
Checking ==
    /\ checker \in [Checker -> [pc : {"idle", "loaded", "query", "storeValue", "storeExpiry", "resolved"},
                                dev : AlarmDevice \cup {"none"}, lag : 0 .. MaxLag,
                                repeat : Interval \cup {0}]]
    /\ \A c \in Checker : checker[c].pc \in {"storeValue", "storeExpiry", "resolved"}
                             => checker[c].repeat \in Interval
    /\ \A c \in Checker : checker[c].pc # "idle" => checker[c].dev \in AlarmDevice

Ages == byID \in [Key -> -1 .. Oldest] /\ fired \in [Key -> -1 .. Oldest]

Counted ==
    /\ configured \in Interval /\ valueNS \in Interval \cup {0} /\ expiresIn \in -MaxLag .. Window
    /\ change \in {"idle", "value", "expiry"} /\ alarmChecks \in 0 .. PruneEvery - 1
    /\ changes \in 0 .. MaxChanges /\ readFaults \in 0 .. MaxReadFaults
    /\ \A e \in emitted : e.repeat \in Interval

\* A key's state is its last alarm, unless that was old enough to be pruned.
StateIsAlarm == \A k \in Key : byID[k] = fired[k] \/ (byID[k] = Never /\ fired[k] > DefaultTTL)

\* The inductive invariant.
AlarmInv == Checking /\ Ages /\ Counted /\ StateIsAlarm /\ AlarmsSpaced

LEMMA AlarmInvOK == AlarmInv => AlarmsSound
BY DEF AlarmInv, Checking, Ages, Counted, AlarmsSound, AlarmStateTypeOK

LEMMA AlarmInit ==
    ASSUME IntervalsBounded, AlarmStateInit
    PROVE  AlarmInv
<1>1. Checking
  BY Times DEF AlarmStateInit, Checking, NoAlarmCheck
<1>2. Ages /\ StateIsAlarm
  BY Times DEF AlarmStateInit, Ages, StateIsAlarm, Never
<1>3. Counted /\ AlarmsSpaced
  BY Times DEF AlarmStateInit, Counted, AlarmsSpaced
<1> QED BY <1>1, <1>2, <1>3 DEF AlarmInv

\* A step of a check before it evaluates, or of a change of the interval.
Resolving ==
    \/ \E c \in Checker : \/ LoadExpiry(c) \/ QueryInterval(c) \/ StoreValue(c) \/ StoreExpiry(c)
                          \/ \E d \in AlarmDevice : LoadValue(c, d)
    \/ \E n \in Interval : ChangeInterval(n)
    \/ ResetValue \/ ResetExpiry

LEMMA ResolvingStep ==
    ASSUME IntervalsBounded, AlarmInv, Resolving
    PROVE  AlarmInv'
<1>0. Checking /\ Ages /\ Counted /\ StateIsAlarm
  BY DEF AlarmInv
<1>1. byID' = byID /\ fired' = fired /\ emitted' = {}
  BY DEF Resolving, LoadExpiry, QueryInterval, StoreValue, StoreExpiry, LoadValue, ChangeInterval,
         ResetValue, ResetExpiry
<1>2. Ages' /\ StateIsAlarm' /\ AlarmsSpaced'
  BY <1>0, <1>1 DEF Ages, StateIsAlarm, AlarmsSpaced
<1>3. CASE \E n \in Interval : ChangeInterval(n)
  BY <1>0, <1>1, <1>2, <1>3, Times DEF ChangeInterval, Counted, Checking, AlarmInv
<1>4. CASE ResetValue \/ ResetExpiry
  BY <1>0, <1>1, <1>2, <1>4, Times DEF ResetValue, ResetExpiry, Counted, Checking, AlarmInv
<1>5. ASSUME NEW c \in Checker, \E d \in AlarmDevice : LoadValue(c, d) PROVE AlarmInv'
  <2>1. Checking'
    BY <1>0, <1>5, Times DEF LoadValue, Counted, Checking
  <2>2. Counted'
    BY <1>0, <1>1, <1>5 DEF LoadValue, Counted
  <2> QED BY <1>2, <2>1, <2>2 DEF AlarmInv
<1>6. ASSUME NEW c \in Checker, LoadExpiry(c) PROVE AlarmInv'
  <2>1. Checking'
    <3>0. checker[c].repeat \in Interval \cup {0} /\ (checker[c].repeat > 0 => checker[c].repeat \in Interval)
      BY <1>0, Times DEF Checking
    <3>1. CASE Goes(c, "resolved", checker[c].repeat) /\ checker[c].repeat > 0
      BY <1>0, <1>6, <3>0, <3>1 DEF LoadExpiry, Goes, Checking
    <3>2. CASE Goes(c, "query", 0)
      BY <1>0, <1>6, <3>2 DEF LoadExpiry, Goes, Checking
    <3> QED BY <1>6, <3>1, <3>2 DEF LoadExpiry
  <2>2. Counted'
    BY <1>0, <1>1, <1>6 DEF LoadExpiry, CachedBy, Counted
  <2> QED BY <1>2, <2>1, <2>2 DEF AlarmInv
<1>7. ASSUME NEW c \in Checker, QueryInterval(c) PROVE AlarmInv'
  <2>0. checker[c].pc = "query"
    BY <1>7 DEF QueryInterval
  <2>1. PICK ok \in BOOLEAN : /\ readFaults' = IF ok THEN readFaults ELSE readFaults + 1
                              /\ readFaults' <= MaxReadFaults
                              /\ Goes(c, "storeValue", IntervalRead(ok))
    BY <1>7 DEF QueryInterval
  <2>2. IntervalRead(ok) \in Interval
    BY <1>0, Times DEF IntervalRead, Counted
  <2>3. Checking'
    BY <1>0, <2>0, <2>1, <2>2 DEF Goes, Checking
  <2>4. readFaults' \in 0 .. MaxReadFaults
    BY <1>0, <2>1, Times DEF Counted
  <2>5. Counted'
    BY <1>0, <1>1, <1>7, <2>4 DEF QueryInterval, Counted
  <2> QED BY <1>2, <2>3, <2>5 DEF AlarmInv
<1>8. ASSUME NEW c \in Checker, StoreValue(c) PROVE AlarmInv'
  <2>1. Checking'
    BY <1>0, <1>8 DEF StoreValue, Goes, Checking
  <2>2. Counted'
    BY <1>0, <1>1, <1>8 DEF StoreValue, Counted, Checking
  <2> QED BY <1>2, <2>1, <2>2 DEF AlarmInv
<1>9. ASSUME NEW c \in Checker, StoreExpiry(c) PROVE AlarmInv'
  <2>1. Checking'
    BY <1>0, <1>9 DEF StoreExpiry, Goes, Checking
  <2>2. checker[c].lag \in 0 .. MaxLag
    BY <1>0 DEF Checking
  <2>3. expiresIn' \in -MaxLag .. Window
    BY <1>9, <2>2, Times DEF StoreExpiry
  <2>4. Counted'
    BY <1>0, <1>1, <1>9, <2>3 DEF StoreExpiry, Counted
  <2> QED BY <1>2, <2>1, <2>4 DEF AlarmInv
<1> QED BY <1>3, <1>4, <1>5, <1>6, <1>7, <1>8, <1>9 DEF Resolving

\* A state is kept until the default life of a state is over.
LEMMA LongLife ==
    ASSUME IntervalsBounded, NEW r \in Interval
    PROVE  TTL(r) \in Nat /\ TTL(r) >= DefaultTTL
<1>1. r \in Nat /\ TTLFactor * r \in Nat
  BY Times
<1> QED BY <1>1, Times DEF TTL

LEMMA EvaluateStep ==
    ASSUME IntervalsBounded, AlarmInv,
           NEW c \in Checker, NEW M \in SUBSET AlarmRule, Evaluate(c, M)
    PROVE  AlarmInv'
<1> DEFINE lag == checker[c].lag
           r == checker[c].repeat
           K == Kept(c)
           E == {k \in {checker[c].dev} \X M : Emits(c, k)}
<1>0. /\ Checking /\ Ages /\ Counted /\ StateIsAlarm /\ r \in Interval /\ lag \in 0 .. MaxLag
      /\ checker[c].pc = "resolved"
  BY DEF AlarmInv, Checking, Evaluate
<1>1. /\ byID' = [k \in Key |-> IF k \in E THEN lag ELSE K[k]]
      /\ fired' = [k \in Key |-> IF k \in E THEN lag ELSE fired[k]]
      /\ emitted' = {[gap |-> Gap(fired[k], lag), age |-> fired[k], repeat |-> r] :
                       k \in {e \in E : fired[e] # Never}}
      /\ alarmChecks' = (alarmChecks + 1) % PruneEvery
      /\ checker' = [checker EXCEPT ![c] = NoAlarmCheck]
      /\ UNCHANGED <<configured, valueNS, expiresIn, change, changes, readFaults>>
  BY DEF Evaluate, Triggered
<1>2. ASSUME NEW k \in Key
      PROVE  /\ K[k] \in -1 .. Oldest
             /\ K[k] = fired[k] \/ (K[k] = Never /\ fired[k] > DefaultTTL)
  <2>1. K[k] = byID[k] \/ (K[k] = Never /\ byID[k] # Never /\ byID[k] - lag > TTL(r))
    BY DEF Kept, Gap
  <2>2. byID[k] \in -1 .. Oldest /\ fired[k] \in -1 .. Oldest /\ Never \in -1 .. Oldest
    BY <1>0, Times DEF Ages, Never
  <2>3. byID[k] = fired[k] \/ (byID[k] = Never /\ fired[k] > DefaultTTL)
    BY <1>0 DEF StateIsAlarm
  <2>4. TTL(r) \in Nat /\ TTL(r) >= DefaultTTL /\ DefaultTTL \in Nat
    BY <1>0, LongLife, Times
  <2> HIDE DEF K
  <2>5. CASE K[k] = byID[k]
    BY <2>2, <2>3, <2>5
  <2>6. CASE K[k] = Never /\ byID[k] # Never /\ byID[k] - lag > TTL(r)
    BY <1>0, <2>2, <2>3, <2>4, <2>6, Times
  <2> QED BY <2>1, <2>5, <2>6
<1>3. ASSUME NEW k \in E, k \in Key PROVE K[k] = Never \/ K[k] - lag >= r
  BY DEF Emits, Gap
<1> HIDE DEF K, E
<1>4. Ages'
  <2>1. lag \in -1 .. Oldest
    BY <1>0, Times
  <2> QED BY <1>0, <1>1, <1>2, <2>1 DEF Ages
<1>5. StateIsAlarm'
  BY <1>1, <1>2 DEF StateIsAlarm
<1>6. AlarmsSpaced'
  <2> SUFFICES ASSUME NEW k \in E, fired[k] # Never, NEW e,
                      e = [gap |-> Gap(fired[k], lag), age |-> fired[k], repeat |-> r]
               PROVE  e.gap >= e.repeat \/ e.age > DefaultTTL
    BY <1>1 DEF AlarmsSpaced
  <2>1. e.gap = fired[k] - lag /\ e.age = fired[k] /\ e.repeat = r
    BY DEF Gap
  <2>2. k \in Key
    <3>1. checker[c].dev \in AlarmDevice
      BY <1>0 DEF Checking
    <3> QED BY <3>1 DEF E, Key
  <2> QED BY <1>2, <1>3, <2>1, <2>2
<1>7. Checking'
  BY <1>0, <1>1, Times DEF Checking, NoAlarmCheck
<1>8. Counted'
  <2>1. \A e \in emitted' : e.repeat \in Interval
    BY <1>0, <1>1
  <2>2. alarmChecks' \in 0 .. PruneEvery - 1
    BY <1>0, <1>1, Times DEF Counted
  <2> QED BY <1>0, <1>1, <2>1, <2>2 DEF Counted
<1> QED BY <1>4, <1>5, <1>6, <1>7, <1>8 DEF AlarmInv

LEMMA ClearStep ==
    ASSUME IntervalsBounded, AlarmInv, NEW d \in AlarmDevice, ClearAlarmState(d)
    PROVE  AlarmInv'
<1>0. Checking /\ Ages /\ Counted /\ StateIsAlarm
  BY DEF AlarmInv
<1>1. Never \in -1 .. Oldest
  BY Times DEF Never
<1>2. Ages'
  BY <1>0, <1>1 DEF ClearAlarmState, Ages
<1>3. StateIsAlarm'
  BY <1>0 DEF ClearAlarmState, StateIsAlarm
<1>4. Checking' /\ Counted' /\ AlarmsSpaced'
  BY <1>0 DEF ClearAlarmState, Checking, Counted, AlarmsSpaced
<1> QED BY <1>2, <1>3, <1>4 DEF AlarmInv

LEMMA TickStep ==
    ASSUME IntervalsBounded, AlarmInv, AlarmTick
    PROVE  AlarmInv'
<1>0. Checking /\ Ages /\ Counted /\ StateIsAlarm
  BY DEF AlarmInv
<1>1. ASSUME NEW age \in -1 .. Oldest
      PROVE  /\ Older(age) \in -1 .. Oldest /\ Older(age) >= age
             /\ (Older(age) = Never <=> age = Never)
  BY Times DEF Older, Never
<1>2. Ages'
  BY <1>0, <1>1 DEF AlarmTick, Ages
<1>3. StateIsAlarm'
  <2> SUFFICES ASSUME NEW k \in Key
               PROVE  byID'[k] = fired'[k] \/ (byID'[k] = Never /\ fired'[k] > DefaultTTL)
    BY DEF StateIsAlarm
  <2>1. byID'[k] = Older(byID[k]) /\ fired'[k] = Older(fired[k])
    BY DEF AlarmTick
  <2>2. byID[k] \in -1 .. Oldest /\ fired[k] \in -1 .. Oldest
    BY <1>0 DEF Ages
  <2>3. byID[k] = fired[k] \/ (byID[k] = Never /\ fired[k] > DefaultTTL)
    BY <1>0 DEF StateIsAlarm
  <2>4. /\ Older(fired[k]) \in -1 .. Oldest /\ Older(fired[k]) >= fired[k]
        /\ (Older(byID[k]) = Never <=> byID[k] = Never)
    BY <1>1, <2>2
  <2> QED BY <2>1, <2>2, <2>3, <2>4, Times
<1>4. Checking'
  <2>1. ASSUME NEW c \in Checker
        PROVE  /\ checker'[c].dev = checker[c].dev
               /\ checker'[c] \in [pc : {"idle", "loaded", "query", "storeValue", "storeExpiry", "resolved"},
                                   dev : AlarmDevice \cup {"none"}, lag : 0 .. MaxLag,
                                   repeat : Interval \cup {0}]
               /\ checker'[c].pc = checker[c].pc /\ checker'[c].repeat = checker[c].repeat
    <3>1. checker'[c] = checker[c] \/ (/\ checker'[c] = [checker[c] EXCEPT !.lag = checker[c].lag + 1]
                                       /\ checker[c].lag < MaxLag)
      BY DEF AlarmTick
    <3>2. checker[c].lag < MaxLag /\ checker[c].lag \in 0 .. MaxLag => checker[c].lag + 1 \in 0 .. MaxLag
      BY Times
    <3> QED BY <1>0, <3>1, <3>2 DEF Checking
  <2>2. DOMAIN checker' = Checker /\ checker' = [c \in Checker |-> checker'[c]]
    BY DEF AlarmTick
  <2> QED BY <1>0, <2>1, <2>2 DEF Checking
<1>5. Counted' /\ AlarmsSpaced'
  <2>1. expiresIn' \in -MaxLag .. Window
    BY <1>0, Times DEF AlarmTick, Counted
  <2>2. emitted' = {}
    BY DEF AlarmTick
  <2> QED BY <1>0, <2>1, <2>2 DEF AlarmTick, Counted, AlarmsSpaced
<1> QED BY <1>2, <1>3, <1>4, <1>5 DEF AlarmInv

LEMMA AlarmInvStep ==
    ASSUME IntervalsBounded
    PROVE  AlarmInv /\ [AlarmStateNext]_AlarmStateVars => AlarmInv'
<1> SUFFICES ASSUME AlarmInv, [AlarmStateNext]_AlarmStateVars PROVE AlarmInv'
  OBVIOUS
<1>1. CASE Resolving
  BY <1>1, ResolvingStep
<1>2. CASE \E c \in Checker : \E M \in SUBSET AlarmRule : Evaluate(c, M)
  BY <1>2, EvaluateStep
<1>3. CASE \E d \in AlarmDevice : ClearAlarmState(d)
  BY <1>3, ClearStep
<1>4. CASE AlarmTick
  BY <1>4, TickStep
<1>5. CASE UNCHANGED AlarmStateVars
  BY <1>5 DEF AlarmStateVars, AlarmInv, Checking, Ages, Counted, StateIsAlarm, AlarmsSpaced
<1> QED BY <1>1, <1>2, <1>3, <1>4, <1>5 DEF AlarmStateNext, AlarmCheckStep, Resolving

\* However checks overlap, whatever is pruned and however the repeat interval
\* changes meanwhile, no alarm of a rule is repeated before the interval its
\* check resolved is over or its state was old enough to be pruned.
THEOREM AlarmsNotRepeated ==
    ASSUME IntervalsBounded
    PROVE  AlarmStateSpec => []AlarmsSound
<1>1. AlarmStateInit => AlarmInv
  BY AlarmInit
<1>2. AlarmInv /\ [AlarmStateNext]_AlarmStateVars => AlarmInv'
  BY AlarmInvStep
<1>3. AlarmInv => AlarmsSound
  BY AlarmInvOK
<1> QED BY <1>1, <1>2, <1>3, PTL DEF AlarmStateSpec

-----------------------------------------------------------------------------
(* The cache of rules.                                                      *)

\* The devices an edit has still to drop.
Dropped(a) == {edit[a].drop[i] : i \in DOMAIN edit[a].drop}

LEMMA ListedIs ==
    ASSUME NEW D \in SUBSET Device, NEW x, D = {} \/ D = {x}
    PROVE  Listed(D) \in Seq(Device) /\ \A d \in D : Listed(D) = <<d>>
<1>1. CASE D = {}
  BY <1>1 DEF Listed
<1>2. CASE D = {x}
  <2>1. (CHOOSE d \in D : TRUE) = x /\ D # {} /\ x \in Device
    BY <1>2
  <2> QED BY <1>2, <2>1 DEF Listed
<1> QED BY <1>1, <1>2

\* What an edit drops: the devices of the row before and after, if it loaded
\* the one before.
LEMMA DropsIs ==
    ASSUME NEW new \in SUBSET Device, NEW old \in SUBSET Device,
           NEW x, new = {} \/ new = {x}, NEW y, old = {} \/ old = {y}
    PROVE  LET q == Drops(new, old)
           IN  q \in Seq(Device) /\ \A d \in new \cup old : \E i \in DOMAIN q : q[i] = d
<1> DEFINE p == Listed(new)
           r == Listed(old \ new)
           q == p \o r
<1>0. q = Drops(new, old)
  BY DEF Drops
<1>1. p \in Seq(Device) /\ \A d \in new : p = <<d>>
  BY ListedIs
<1>2. old \ new = {} \/ old \ new = {y}
  OBVIOUS
<1>3. r \in Seq(Device) /\ \A d \in old \ new : r = <<d>>
  BY <1>2, ListedIs
<1> HIDE DEF p, r
<1>4. q \in Seq(Device) /\ Len(q) = Len(p) + Len(r) /\ DOMAIN q = 1 .. Len(q)
  BY <1>1, <1>3
<1>5. ASSUME NEW d \in new PROVE \E i \in DOMAIN q : q[i] = d
  <2>1. p = <<d>>
    BY <1>1
  <2>2. Len(p) = 1 /\ p[1] = d /\ Len(r) \in Nat
    BY <1>3, <2>1
  <2>3. 1 \in DOMAIN q /\ q[1] = p[1]
    BY <1>1, <1>3, <1>4, <2>2
  <2> QED BY <2>2, <2>3
<1>6. ASSUME NEW d \in old \ new PROVE \E i \in DOMAIN q : q[i] = d
  <2>1. r = <<d>>
    BY <1>3
  <2>2. Len(r) = 1 /\ r[1] = d /\ Len(p) \in Nat
    BY <1>1, <2>1
  <2>3. Len(p) + 1 \in DOMAIN q /\ q[Len(p) + 1] = r[1]
    BY <1>1, <1>3, <1>4, <2>2
  <2> QED BY <2>2, <2>3
<1> HIDE DEF q
<1> QED BY <1>0, <1>4, <1>5, <1>6

TablesOK ==
    /\ devices \subseteq Device /\ raced \subseteq Device
    /\ DOMAIN thresholds \subseteq Threshold
    /\ \A t \in DOMAIN thresholds : thresholds[t] \in [dev : Device, level : Level]
    /\ cached \in [Device -> SUBSET (Threshold \X Level)]
    /\ aged \in BOOLEAN /\ running \in BOOLEAN
    /\ edits \in 0 .. MaxEdits /\ cacheFaults \in 0 .. MaxCacheFaults

RefreshOK ==
    refresh \in [Refresher -> [pc : {"idle", "wait", "gone", "devices", "thresholds", "install"},
                               devs : SUBSET Device, rows : SUBSET (Threshold \X Device \X Level)]]

ChecksOK ==
    /\ check \in [Check -> [pc : {"idle", "refresh", "again", "load", "put"}, dev : Device \cup {"none"},
                            rows : SUBSET (Threshold \X Level)]]
    /\ \A c \in Check : check[c].pc # "idle" => check[c].dev \in Device
    /\ \A c \in Check : refresh[c].pc # "idle" => check[c].pc = "refresh"

\* What an edit has loaded is one device or none, and it drops entries only
\* when its row is written.
EditsOK ==
    /\ edit \in [Admin -> [pc : Threshold \cup {"idle", "drop"}, old : SUBSET Device, drop : Seq(Device)]]
    /\ \A a \in Admin : edit[a].pc # "drop" => edit[a].drop = <<>>
    /\ \A a \in Admin : \E x : edit[a].old = {} \/ edit[a].old = {x}

\* The inductive invariant.
RulesInv == TablesOK /\ RefreshOK /\ ChecksOK /\ EditsOK /\ StaleOnlyByRace

LEMMA RulesBounds ==
    /\ MaxEdits \in Nat /\ MaxCacheFaults \in Nat /\ "loop" \notin Check /\ "loop" \in Refresher
    /\ Check \subseteq Refresher /\ \A t \in Threshold : t # "idle" /\ t # "drop"
BY ThresholdCacheAssumption DEF Refresher

LEMMA RulesIn ==
    ASSUME TablesOK
    PROVE  /\ \A d : Rules(d) \in SUBSET (Threshold \X Level)
           /\ Rows \in SUBSET (Threshold \X Device \X Level)
<1>1. \A t \in DOMAIN thresholds : t \in Threshold /\ thresholds[t].dev \in Device /\ thresholds[t].level \in Level
  BY DEF TablesOK
<1> QED BY <1>1 DEF Rules, Rows

LEMMA RulesInit == ThresholdCacheInit => RulesInv
<1> SUFFICES ASSUME ThresholdCacheInit PROVE RulesInv
  OBVIOUS
<1>1. TablesOK
  <2>1. PICK D \in SUBSET Threshold : thresholds \in [D -> [dev : Device, level : Level]]
    BY DEF ThresholdCacheInit
  <2>2. DOMAIN thresholds \subseteq Threshold
        /\ \A t \in DOMAIN thresholds : thresholds[t] \in [dev : Device, level : Level]
    BY <2>1
  <2>3. 0 \in 0 .. MaxEdits /\ 0 \in 0 .. MaxCacheFaults
    BY RulesBounds
  <2> QED BY <2>2, <2>3 DEF ThresholdCacheInit, TablesOK
<1>2. RefreshOK
  BY DEF ThresholdCacheInit, RefreshOK, NoRefresh
<1>3. ChecksOK
  BY RulesBounds DEF ThresholdCacheInit, ChecksOK, NoCheck, NoRefresh
<1>4. EditsOK
  <2>1. \A a \in Admin : edit[a] = NoEdit
    BY DEF ThresholdCacheInit
  <2>2. /\ NoEdit \in [pc : Threshold \cup {"idle", "drop"}, old : SUBSET Device, drop : Seq(Device)]
        /\ NoEdit.pc = "idle" /\ NoEdit.drop = <<>> /\ NoEdit.old = {}
    BY DEF NoEdit
  <2> QED BY <2>1, <2>2 DEF ThresholdCacheInit, EditsOK
<1>5. StaleOnlyByRace
  BY DEF ThresholdCacheInit, StaleOnlyByRace
<1> QED BY <1>1, <1>2, <1>3, <1>4, <1>5 DEF RulesInv

LEMMA RulesInvOK == RulesInv => RulesSound
<1> SUFFICES ASSUME RulesInv PROVE RulesSound
  OBVIOUS
<1>1. ThresholdCacheTypeOK
  <2>1. ASSUME NEW p \in Refresher
        PROVE  /\ refresh[p].pc \in {"idle", "wait", "gone", "devices", "thresholds", "install"}
               /\ refresh[p].devs \subseteq Device /\ refresh[p].rows \subseteq Threshold \X Device \X Level
    BY DEF RulesInv, RefreshOK
  <2>2. ASSUME NEW c \in Check
        PROVE  /\ check[c].pc \in {"idle", "refresh", "again", "load", "put"}
               /\ check[c].rows \subseteq Threshold \X Level
    BY DEF RulesInv, ChecksOK
  <2>3. ASSUME NEW a \in Admin
        PROVE  /\ edit[a].pc \in Threshold \cup {"idle", "drop"}
               /\ edit[a].old \subseteq Device /\ edit[a].drop \in Seq(Device)
    BY DEF RulesInv, EditsOK
  <2> QED BY <2>1, <2>2, <2>3 DEF RulesInv, TablesOK, ThresholdCacheTypeOK
<1> QED BY <1>1 DEF RulesInv, RulesSound

-----------------------------------------------------------------------------
(* Steps that change neither an entry nor a rule nor an edit.               *)

LEMMA StillStale ==
    ASSUME StaleOnlyByRace, UNCHANGED <<thresholds, cached, raced, edit>>
    PROVE  StaleOnlyByRace'
BY DEF StaleOnlyByRace, Rules

LEMMA LoopStep ==
    ASSUME RulesInv,
           \/ StartThresholdCache \/ StopThresholdCache \/ RefreshTick \/ RefreshLoopStops \/ Age
           \/ \E p \in Refresher : ReadDevices(p) \/ ReadThresholds(p)
    PROVE  RulesInv'
<1>0. TablesOK /\ RefreshOK /\ ChecksOK /\ EditsOK /\ StaleOnlyByRace
  BY DEF RulesInv
<1>1. /\ UNCHANGED <<tables, cached, check, edit, edits, cacheFaults, raced>>
      /\ running' \in BOOLEAN /\ aged' \in BOOLEAN
  BY <1>0 DEF StartThresholdCache, StopThresholdCache, RefreshTick, RefreshLoopStops, Age,
              ReadDevices, ReadThresholds, TablesOK
<1>2. TablesOK' /\ EditsOK'
  BY <1>0, <1>1 DEF TablesOK, EditsOK, tables
<1>3. StaleOnlyByRace'
  BY <1>0, <1>1, StillStale DEF tables
<1>4. RefreshOK' /\ ChecksOK'
  <2>1. CASE StopThresholdCache \/ Age
    BY <1>0, <1>1, <2>1 DEF StopThresholdCache, Age, RefreshOK, ChecksOK
  <2>2. CASE StartThresholdCache \/ RefreshTick \/ RefreshLoopStops
    <3>1. RefreshOK'
      BY <1>0, <2>2, RulesBounds DEF StartThresholdCache, RefreshTick, RefreshLoopStops, RefreshOK
    <3>2. \A c \in Check : refresh'[c] = refresh[c]
      BY <1>0, <2>2, RulesBounds DEF StartThresholdCache, RefreshTick, RefreshLoopStops, RefreshOK
    <3> QED BY <1>0, <1>1, <3>1, <3>2 DEF ChecksOK
  <2>3. ASSUME NEW p \in Refresher, ReadDevices(p) PROVE RefreshOK' /\ ChecksOK'
    <3>1. RefreshOK'
      BY <1>0, <2>3 DEF ReadDevices, RefreshOK, TablesOK
    <3>2. \A c \in Check : refresh'[c].pc # "idle" => refresh[c].pc # "idle"
      BY <1>0, <2>3, RulesBounds DEF ReadDevices, RefreshOK
    <3> QED BY <1>0, <1>1, <3>1, <3>2 DEF ChecksOK
  <2>4. ASSUME NEW p \in Refresher, ReadThresholds(p) PROVE RefreshOK' /\ ChecksOK'
    <3>0. Rows \in SUBSET (Threshold \X Device \X Level)
      BY <1>0, RulesIn
    <3>1. RefreshOK'
      <4> DEFINE T == SUBSET (Threshold \X Device \X Level)
                 e == [refresh[p] EXCEPT !.pc = "install", !.rows = Rows]
      <4>1. Rows \in T /\ refresh' = [refresh EXCEPT ![p] = e]
        BY <2>4, <3>0 DEF ReadThresholds
      <4> HIDE DEF T
      <4>2. e \in [pc : {"idle", "wait", "gone", "devices", "thresholds", "install"},
                   devs : SUBSET Device, rows : T]
        BY <1>0, <4>1 DEF RefreshOK, T
      <4> HIDE DEF e
      <4> QED BY <1>0, <4>1, <4>2 DEF RefreshOK, T
    <3>2. \A c \in Check : refresh'[c].pc # "idle" => refresh[c].pc # "idle"
      BY <1>0, <2>4, RulesBounds DEF ReadThresholds, RefreshOK
    <3> QED BY <1>0, <1>1, <3>1, <3>2 DEF ChecksOK
  <2> QED BY <2>1, <2>2, <2>3, <2>4
<1> QED BY <1>2, <1>3, <1>4 DEF RulesInv

\* A refresh is over, whatever it has done to the cache.
LEMMA OverStep ==
    ASSUME RefreshOK, ChecksOK, NEW p \in Refresher, RefreshOver(p), refresh[p].pc # "idle"
    PROVE  RefreshOK' /\ ChecksOK'
<1>1. RefreshOK'
  BY DEF RefreshOver, NoRefresh, RefreshOK
<1>2. CASE p \in Check
  <2>1. check[p].pc = "refresh" /\ check[p].dev \in Device
    BY <1>2 DEF ChecksOK
  <2>2. check' = [check EXCEPT ![p].pc = "again"]
    BY <1>2 DEF RefreshOver
  <2>3. refresh'[p].pc = "idle" /\ \A c \in Check : c # p => refresh'[c] = refresh[c]
    BY <1>2, RulesBounds DEF RefreshOver, RefreshOK, NoRefresh
  <2> QED BY <1>1, <2>1, <2>2, <2>3 DEF ChecksOK
<1>3. CASE p \notin Check
  <2>1. check' = check /\ \A c \in Check : refresh'[c] = refresh[c]
    BY <1>3, RulesBounds DEF RefreshOver, RefreshOK
  <2> QED BY <1>1, <2>1 DEF ChecksOK
<1> QED BY <1>2, <1>3

LEMMA FailsStep == ASSUME RulesInv, NEW p \in Refresher, RefreshFails(p) PROVE RulesInv'
<1>0. TablesOK /\ RefreshOK /\ ChecksOK /\ EditsOK /\ StaleOnlyByRace
  BY DEF RulesInv
<1>1. RefreshOK' /\ ChecksOK'
  BY <1>0, OverStep DEF RefreshFails
<1>2. TablesOK'
  BY <1>0, RulesBounds DEF RefreshFails, CacheFault, TablesOK, tables
<1>3. EditsOK' /\ StaleOnlyByRace'
  BY <1>0, StillStale DEF RefreshFails, EditsOK, tables
<1> QED BY <1>1, <1>2, <1>3 DEF RulesInv

LEMMA InstallStep == ASSUME RulesInv, NEW p \in Refresher, Install(p) PROVE RulesInv'
<1>0. TablesOK /\ RefreshOK /\ ChecksOK /\ EditsOK /\ StaleOnlyByRace
  BY DEF RulesInv
<1>1. RefreshOK' /\ ChecksOK'
  BY <1>0, OverStep DEF Install
<1>2. ASSUME NEW d \in Device PROVE Loaded(p, d) \in SUBSET (Threshold \X Level)
  <2>1. \A r \in refresh[p].rows : r[1] \in Threshold /\ r[3] \in Level
    BY <1>0 DEF RefreshOK
  <2> QED BY <2>1 DEF Loaded
<1>3. TablesOK'
  BY <1>0, <1>2 DEF Install, TablesOK, tables
<1>4. StaleOnlyByRace'
  <2>1. \A d \in Device : Rules(d)' = Rules(d)
    BY DEF Install, Rules, tables
  <2>2. \A d \in Device : cached'[d] = Loaded(p, d)
    BY DEF Install
  <2>3. raced' = {d \in Device : Loaded(p, d) \notin {{}, Rules(d)}}
    BY DEF Install
  <2> QED BY <2>1, <2>2, <2>3 DEF StaleOnlyByRace
<1>5. EditsOK'
  BY <1>0 DEF Install, EditsOK
<1> QED BY <1>1, <1>3, <1>4, <1>5 DEF RulesInv

-----------------------------------------------------------------------------
(* Steps of a check.                                                        *)

LEMMA LookStep ==
    ASSUME RulesInv, NEW c \in Check,
           LookAgain(c) \/ LoadDevice(c) \/ LoadDeviceFails(c) \/ \E d \in devices : BeginCheck(c, d)
    PROVE  RulesInv'
<1>0. TablesOK /\ RefreshOK /\ ChecksOK /\ EditsOK /\ StaleOnlyByRace
  BY DEF RulesInv
<1>1. UNCHANGED <<tables, cached, aged, running, edit, edits, raced>>
  BY DEF LookAgain, LoadDevice, LoadDeviceFails, BeginCheck
<1>2. EditsOK' /\ StaleOnlyByRace'
  BY <1>0, <1>1, StillStale DEF EditsOK, tables
<1>3. TablesOK'
  <2>1. cacheFaults' \in 0 .. MaxCacheFaults
    BY <1>0, RulesBounds DEF LookAgain, LoadDevice, LoadDeviceFails, BeginCheck, CacheFault, TablesOK
  <2> QED BY <1>0, <1>1, <2>1 DEF TablesOK, tables
<1>4. CASE LookAgain(c) \/ LoadDevice(c) \/ LoadDeviceFails(c)
  <2>1. refresh' = refresh /\ check[c].pc \in {"again", "load"}
    BY <1>4 DEF LookAgain, LoadDevice, LoadDeviceFails
  <2>2. refresh[c].pc = "idle" /\ check[c].dev \in Device
    BY <1>0, <2>1 DEF ChecksOK
  <2>3. /\ check' = [check EXCEPT ![c] = check'[c]]
        /\ \/ check'[c] = NoCheck
           \/ check'[c] = [pc |-> "load", dev |-> check[c].dev, rows |-> {}]
           \/ check'[c] = [check[c] EXCEPT !.pc = "put", !.rows = Rules(check[c].dev)]
    BY <1>0, <1>4 DEF LookAgain, LoadDevice, LoadDeviceFails, Found, ChecksOK
  <2>4. /\ check'[c] \in [pc : {"idle", "refresh", "again", "load", "put"}, dev : Device \cup {"none"},
                          rows : SUBSET (Threshold \X Level)]
        /\ check'[c].pc # "idle" => check'[c].dev \in Device
    <3>1. Rules(check[c].dev) \in SUBSET (Threshold \X Level)
      BY <1>0, RulesIn
    <3>2. check[c] \in [pc : {"idle", "refresh", "again", "load", "put"}, dev : Device \cup {"none"},
                        rows : SUBSET (Threshold \X Level)]
      BY <1>0 DEF ChecksOK
    <3>3. CASE check'[c] = NoCheck
      BY <3>3 DEF NoCheck
    <3>4. CASE check'[c] = [pc |-> "load", dev |-> check[c].dev, rows |-> {}]
      BY <2>2, <3>4
    <3>5. CASE check'[c] = [check[c] EXCEPT !.pc = "put", !.rows = Rules(check[c].dev)]
      <4> DEFINE R == Rules(check[c].dev)
      <4> HIDE DEF R
      <4> QED BY <2>2, <3>1, <3>2, <3>5 DEF R
    <3> QED BY <2>3, <3>3, <3>4, <3>5
  <2>5. ChecksOK'
    BY <1>0, <2>1, <2>2, <2>3, <2>4 DEF ChecksOK
  <2> QED BY <1>0, <1>2, <1>3, <2>1, <2>5 DEF RefreshOK, RulesInv
<1>5. ASSUME NEW d \in devices, BeginCheck(c, d) PROVE RulesInv'
  <2>0. d \in Device /\ check[c].pc = "idle" /\ refresh[c].pc = "idle"
    BY <1>0, <1>5 DEF BeginCheck, TablesOK, ChecksOK
  <2>1. CASE aged
    <3>1. /\ check' = [check EXCEPT ![c] = [pc |-> "refresh", dev |-> d, rows |-> {}]]
          /\ refresh' = [refresh EXCEPT ![c].pc = "devices"]
      BY <1>5, <2>1 DEF BeginCheck
    <3>2. RefreshOK'
      BY <1>0, <3>1, RulesBounds DEF RefreshOK
    <3>3. \A e \in Check : e # c => refresh'[e] = refresh[e]
      BY <1>0, <3>1, RulesBounds DEF RefreshOK
    <3>4. ChecksOK'
      BY <1>0, <2>0, <3>1, <3>3 DEF ChecksOK
    <3> QED BY <1>2, <1>3, <3>2, <3>4 DEF RulesInv
  <2>2. CASE ~aged
    <3>1. /\ refresh' = refresh
          /\ check' = [check EXCEPT ![c] = [pc |-> "load", dev |-> d, rows |-> {}]]
             \/ check' = [check EXCEPT ![c] = NoCheck]
      BY <1>5, <2>2 DEF BeginCheck, Found
    <3>2. ChecksOK'
      BY <1>0, <2>0, <3>1 DEF ChecksOK, NoCheck
    <3> QED BY <1>0, <1>2, <1>3, <3>1, <3>2 DEF RefreshOK, RulesInv
  <2> QED BY <2>1, <2>2
<1> QED BY <1>4, <1>5

LEMMA PutStep == ASSUME RulesInv, NEW c \in Check, PutDevice(c) PROVE RulesInv'
<1>0. TablesOK /\ RefreshOK /\ ChecksOK /\ EditsOK /\ StaleOnlyByRace
  BY DEF RulesInv
<1>1. check[c].pc = "put" /\ check[c].dev \in Device /\ check[c].rows \in SUBSET (Threshold \X Level)
  BY <1>0 DEF PutDevice, ChecksOK
<1>2. refresh[c].pc = "idle"
  BY <1>0, <1>1 DEF ChecksOK
<1>3. ChecksOK' /\ RefreshOK' /\ EditsOK'
  <2>1. ChecksOK'
    BY <1>0, <1>2 DEF PutDevice, ChecksOK, NoCheck
  <2> QED BY <1>0, <2>1 DEF PutDevice, RefreshOK, EditsOK
<1>4. TablesOK'
  <2>1. raced' \subseteq Device
    BY <1>0, <1>1 DEF PutDevice, TablesOK
  <2>2. cached' \in [Device -> SUBSET (Threshold \X Level)]
    BY <1>0, <1>1 DEF PutDevice, TablesOK
  <2> QED BY <1>0, <2>1, <2>2 DEF PutDevice, TablesOK, tables
<1>5. StaleOnlyByRace'
  <2> SUFFICES ASSUME NEW d \in Device, cached'[d] \notin {{}, Rules(d)}, d \notin raced'
               PROVE  \E a \in Admin : \E i \in DOMAIN edit[a].drop : edit[a].drop[i] = d
    BY DEF StaleOnlyByRace, PutDevice, Rules, tables
  <2>1. CASE d = check[c].dev
    <3>1. cached'[d] = check[c].rows
      BY <1>0, <2>1 DEF PutDevice, TablesOK
    <3> QED BY <2>1, <3>1 DEF PutDevice
  <2>2. CASE d # check[c].dev
    <3>1. cached'[d] = cached[d] /\ d \notin raced
      BY <1>0, <2>2 DEF PutDevice, TablesOK
    <3> QED BY <1>0, <3>1 DEF StaleOnlyByRace
  <2> QED BY <2>1, <2>2
<1> QED BY <1>3, <1>4, <1>5 DEF RulesInv

-----------------------------------------------------------------------------
(* Steps of an edit.                                                        *)

\* An edit still has to drop the entry of d.
Waits(d) == \E a \in Admin : \E i \in DOMAIN edit[a].drop : edit[a].drop[i] = d

LEMMA SameRules ==
    ASSUME NEW d,
           \A t : /\ t \in DOMAIN thresholds' /\ thresholds'[t].dev = d
                       <=> t \in DOMAIN thresholds /\ thresholds[t].dev = d
                  /\ t \in DOMAIN thresholds /\ thresholds[t].dev = d
                       => thresholds'[t].level = thresholds[t].level
    PROVE  Rules(d)' = Rules(d)
<1> DEFINE U == {u \in DOMAIN thresholds : thresholds[u].dev = d}
<1>1. {u \in DOMAIN thresholds' : thresholds'[u].dev = d} = U
  OBVIOUS
<1>2. Rules(d)' = {<<t, thresholds'[t].level>> : t \in U}
  BY <1>1 DEF Rules
<1>3. Rules(d) = {<<t, thresholds[t].level>> : t \in U}
  BY DEF Rules
<1>4. \A t \in U : thresholds'[t].level = thresholds[t].level
  OBVIOUS
<1> HIDE DEF U
<1> QED BY <1>2, <1>3, <1>4

\* The edit of an administrator that had none to drop: the others still wait.
LEMMA WaitsKept ==
    ASSUME EditsOK, NEW a \in Admin, edit[a].pc # "drop", NEW e, edit' = [edit EXCEPT ![a] = e],
           NEW d, Waits(d) \/ \E i \in DOMAIN e.drop : e.drop[i] = d
    PROVE  Waits(d)'
<1>1. edit'[a] = e /\ \A x \in Admin : x # a => edit'[x] = edit[x]
  BY DEF EditsOK
<1>2. CASE \E i \in DOMAIN e.drop : e.drop[i] = d
  <2>1. \E i \in DOMAIN edit'[a].drop : edit'[a].drop[i] = d
    BY <1>1, <1>2
  <2> QED BY <2>1 DEF Waits
<1>3. CASE Waits(d)
  <2>1. PICK x \in Admin : \E i \in DOMAIN edit[x].drop : edit[x].drop[i] = d
    BY <1>3 DEF Waits
  <2>2. x # a
    BY <2>1 DEF EditsOK
  <2>3. \E i \in DOMAIN edit'[x].drop : edit'[x].drop[i] = d
    BY <1>1, <2>1, <2>2
  <2> QED BY <2>3 DEF Waits
<1> QED BY <1>2, <1>3

\* An edit changes only rules of devices it will drop or that are raced.
LEMMA EditStale ==
    ASSUME StaleOnlyByRace, EditsOK, NEW a \in Admin, edit[a].pc # "drop",
           NEW e, edit' = [edit EXCEPT ![a] = e], cached' = cached, raced \subseteq raced',
           \A d \in Device : \/ Rules(d)' = Rules(d) \/ d \in raced'
                             \/ \E i \in DOMAIN e.drop : e.drop[i] = d
    PROVE  StaleOnlyByRace'
<1> SUFFICES ASSUME NEW d \in Device, cached'[d] \notin {{}, Rules(d)'}, d \notin raced'
             PROVE  Waits(d)'
  BY DEF StaleOnlyByRace, Waits
<1>1. CASE \E i \in DOMAIN e.drop : e.drop[i] = d
  BY <1>1, WaitsKept
<1>2. CASE Rules(d)' = Rules(d)
  <2>1. cached[d] \notin {{}, Rules(d)} /\ d \notin raced
    BY <1>2
  <2>2. Waits(d)
    BY <2>1 DEF StaleOnlyByRace, Waits
  <2> QED BY <2>2, WaitsKept
<1> QED BY <1>1, <1>2

\* What an edit may be at next.
EditRec(e) ==
    /\ e \in [pc : Threshold \cup {"idle", "drop"}, old : SUBSET Device, drop : Seq(Device)]
    /\ e.pc # "drop" => e.drop = <<>>
    /\ \E x : e.old = {} \/ e.old = {x}

LEMMA EditMoves ==
    ASSUME EditsOK, NEW a \in Admin, NEW e, EditRec(e), edit' = [edit EXCEPT ![a] = e]
    PROVE  EditsOK'
<1>1. edit'[a] = e /\ \A x \in Admin : x # a => edit'[x] = edit[x]
  BY DEF EditsOK
<1>2. edit' \in [Admin -> [pc : Threshold \cup {"idle", "drop"}, old : SUBSET Device, drop : Seq(Device)]]
  BY DEF EditsOK, EditRec
<1>3. ASSUME NEW x \in Admin
      PROVE  (edit'[x].pc # "drop" => edit'[x].drop = <<>>) /\ \E y : edit'[x].old = {} \/ edit'[x].old = {y}
  <2>1. CASE x = a
    BY <1>1, <2>1 DEF EditRec
  <2>2. CASE x # a
    <3>1. edit'[x] = edit[x]
      BY <1>1, <2>2
    <3> QED BY <3>1 DEF EditsOK
  <2> QED BY <2>1, <2>2
<1> QED BY <1>2, <1>3 DEF EditsOK

\* An edit that has written its row.
LEMMA DropRec ==
    ASSUME NEW new \in SUBSET Device, NEW old \in SUBSET Device,
           NEW x, new = {} \/ new = {x}, NEW y, old = {} \/ old = {y},
           NEW e, e = [pc |-> "drop", old |-> {}, drop |-> Drops(new, old)]
    PROVE  EditRec(e) /\ \A d \in new \cup old : \E i \in DOMAIN e.drop : e.drop[i] = d
<1> DEFINE q == Drops(new, old)
<1>1. q \in Seq(Device) /\ \A d \in new \cup old : \E i \in DOMAIN q : q[i] = d
  BY DropsIs
<1> HIDE DEF q
<1>2. e = [pc |-> "drop", old |-> {}, drop |-> q]
  BY DEF q
<1>3. e.drop = q /\ e.pc = "drop" /\ e.old = {}
  BY <1>2
<1>4. EditRec(e)
  BY <1>1, <1>2, <1>3 DEF EditRec
<1> QED BY <1>1, <1>3, <1>4

LEMMA OldDevice ==
    ASSUME TablesOK, NEW t
    PROVE  DevOf(t) \in SUBSET Device /\ \E x : DevOf(t) = {} \/ DevOf(t) = {x}
<1>1. t \in DOMAIN thresholds => thresholds[t].dev \in Device
  BY DEF TablesOK
<1> QED BY <1>1 DEF DevOf

LEMMA CreateStep ==
    ASSUME RulesInv, NEW a \in Admin, NEW t \in Threshold, NEW d \in Device, NEW l \in Level,
           CreateThreshold(a, t, d, l)
    PROVE  RulesInv'
<1> DEFINE e == [pc |-> "drop", old |-> {}, drop |-> Drops({d}, {})]
<1>0. /\ TablesOK /\ RefreshOK /\ ChecksOK /\ EditsOK /\ StaleOnlyByRace
      /\ edit[a].pc = "idle" /\ edits < MaxEdits /\ edits' = edits + 1
      /\ t \notin DOMAIN thresholds
      /\ thresholds' = RowAdded(t, d, l) /\ edit' = [edit EXCEPT ![a] = e]
      /\ UNCHANGED <<devices, cached, aged, running, refresh, check, cacheFaults, raced>>
  BY DEF RulesInv, CreateThreshold
<1>1. EditRec(e) /\ \E i \in DOMAIN e.drop : e.drop[i] = d
  <2> DEFINE new == {d}
             old == {}
  <2>1. new \in SUBSET Device /\ old \in SUBSET Device /\ new = {d} /\ old = {}
    OBVIOUS
  <2>2. e = [pc |-> "drop", old |-> {}, drop |-> Drops(new, old)]
    OBVIOUS
  <2> HIDE DEF new, old, e
  <2>3. EditRec(e)
    BY <2>1, <2>2, DropRec
  <2>4. \A x \in new \cup old : \E i \in DOMAIN e.drop : e.drop[i] = x
    BY <2>1, <2>2, DropRec
  <2> QED BY <2>1, <2>3, <2>4
<1> HIDE DEF e
<1>2. EditsOK'
  BY <1>0, <1>1, EditMoves
<1>3. /\ DOMAIN thresholds' = DOMAIN thresholds \cup {t} /\ thresholds'[t] = [dev |-> d, level |-> l]
      /\ \A u \in DOMAIN thresholds : thresholds'[u] = thresholds[u]
  BY <1>0 DEF RowAdded
<1>4. TablesOK'
  <2>1. \A u \in DOMAIN thresholds' : thresholds'[u] \in [dev : Device, level : Level]
    BY <1>0, <1>3 DEF TablesOK
  <2>2. edits' \in 0 .. MaxEdits
    BY <1>0, RulesBounds DEF TablesOK
  <2> QED BY <1>0, <1>3, <2>1, <2>2 DEF TablesOK
<1>5. ASSUME NEW x \in Device, x # d PROVE Rules(x)' = Rules(x)
  BY <1>0, <1>3, <1>5, SameRules
<1>6. StaleOnlyByRace'
  BY <1>0, <1>1, <1>5, EditStale
<1>7. RefreshOK' /\ ChecksOK'
  BY <1>0 DEF RefreshOK, ChecksOK
<1> QED BY <1>2, <1>4, <1>6, <1>7 DEF RulesInv

LEMMA LoadOldStep ==
    ASSUME RulesInv, NEW a \in Admin, NEW t \in Threshold, LoadOld(a, t)
    PROVE  RulesInv'
<1>0. /\ TablesOK /\ RefreshOK /\ ChecksOK /\ EditsOK /\ StaleOnlyByRace /\ edit[a].pc = "idle"
      /\ UNCHANGED <<tables, cached, aged, running, refresh, check, edits, raced>>
  BY DEF RulesInv, LoadOld
<1>1. PICK D : /\ D = DevOf(t) \/ D = {}
               /\ edit' = [edit EXCEPT ![a] = [pc |-> t, old |-> D, drop |-> <<>>]]
               /\ UNCHANGED cacheFaults \/ CacheFault
  BY DEF LoadOld
<1> DEFINE e == [pc |-> t, old |-> D, drop |-> <<>>]
<1>2. EditRec(e) /\ e.drop = <<>>
  <2>1. D \in SUBSET Device /\ \E x : D = {} \/ D = {x}
    BY <1>0, <1>1, OldDevice
  <2>2. <<>> \in Seq(Device) /\ t \in Threshold
    OBVIOUS
  <2> QED BY <2>1, <2>2 DEF EditRec
<1>3. edit' = [edit EXCEPT ![a] = e]
  BY <1>1
<1> HIDE DEF e
<1>4. EditsOK'
  BY <1>0, <1>2, <1>3, EditMoves
<1>5. \A d \in Device : Rules(d)' = Rules(d)
  BY <1>0 DEF Rules, tables
<1>6. StaleOnlyByRace'
  BY <1>0, <1>3, <1>5, EditStale
<1>7. TablesOK'
  BY <1>0, <1>1, RulesBounds DEF TablesOK, tables, CacheFault
<1>8. RefreshOK' /\ ChecksOK'
  BY <1>0 DEF RefreshOK, ChecksOK
<1> QED BY <1>4, <1>6, <1>7, <1>8 DEF RulesInv

LEMMA UpdateStep ==
    ASSUME RulesInv, NEW a \in Admin, NEW t \in Threshold, NEW d \in Device, NEW l \in Level,
           UpdateThreshold(a, t, d, l)
    PROVE  RulesInv'
<1> DEFINE old == edit[a].old
           e == [pc |-> "drop", old |-> {}, drop |-> Drops({d}, old)]
<1>0. /\ TablesOK /\ RefreshOK /\ ChecksOK /\ EditsOK /\ StaleOnlyByRace
      /\ edit[a].pc = t /\ edits < MaxEdits /\ edits' = edits + 1
      /\ thresholds' = [u \in DOMAIN thresholds |->
                          IF u = t THEN [dev |-> d, level |-> l] ELSE thresholds[u]]
      /\ raced' = raced \cup (DevOf(t) \ old) /\ edit' = [edit EXCEPT ![a] = e]
      /\ UNCHANGED <<devices, cached, aged, running, refresh, check, cacheFaults>>
  BY DEF RulesInv, UpdateThreshold, Overlap
<1>1. EditRec(e) /\ \A x \in {d} \cup old : \E i \in DOMAIN e.drop : e.drop[i] = x
  <2>1. old \in SUBSET Device /\ \E y : old = {} \/ old = {y}
    BY <1>0 DEF EditsOK
  <2>2. PICK y : old = {} \/ old = {y}
    BY <2>1
  <2> DEFINE new == {d}
  <2>3. new \in SUBSET Device /\ new = {d} /\ (new = {} \/ new = {d}) /\ e = [pc |-> "drop", old |-> {}, drop |-> Drops(new, old)]
    OBVIOUS
  <2> HIDE DEF old, new, e
  <2>4. EditRec(e)
    BY <2>1, <2>2, <2>3, DropRec
  <2>5. ASSUME NEW x \in new \cup old PROVE \E i \in DOMAIN e.drop : e.drop[i] = x
    BY <2>1, <2>2, <2>3, DropRec
  <2> QED BY <2>3, <2>4, <2>5
<1> HIDE DEF e, old
<1>2. EditsOK' /\ edit[a].pc # "drop"
  BY <1>0, <1>1, EditMoves, RulesBounds
<1>3. TablesOK'
  <2>1. edits' \in 0 .. MaxEdits
    BY <1>0, RulesBounds DEF TablesOK
  <2>2. raced' \subseteq Device
    BY <1>0, OldDevice DEF TablesOK
  <2>3. DOMAIN thresholds' \subseteq Threshold
        /\ \A u \in DOMAIN thresholds' : thresholds'[u] \in [dev : Device, level : Level]
    BY <1>0 DEF TablesOK
  <2> QED BY <1>0, <2>1, <2>2, <2>3 DEF TablesOK
<1>4. ASSUME NEW x \in Device, x # d, x \notin DevOf(t) PROVE Rules(x)' = Rules(x)
  BY <1>0, <1>4, SameRules DEF DevOf
<1>5. ASSUME NEW x \in Device
      PROVE  Rules(x)' = Rules(x) \/ x \in raced' \/ \E i \in DOMAIN e.drop : e.drop[i] = x
  BY <1>0, <1>1, <1>4
<1>6. StaleOnlyByRace'
  BY <1>0, <1>2, <1>5, EditStale
<1>7. RefreshOK' /\ ChecksOK'
  BY <1>0 DEF RefreshOK, ChecksOK
<1> QED BY <1>2, <1>3, <1>6, <1>7 DEF RulesInv

LEMMA DeleteStep ==
    ASSUME RulesInv, NEW a \in Admin, NEW t \in Threshold, DeleteThreshold(a, t)
    PROVE  RulesInv'
<1> DEFINE old == edit[a].old
           e == [pc |-> "drop", old |-> {}, drop |-> Drops({}, old)]
<1>0. /\ TablesOK /\ RefreshOK /\ ChecksOK /\ EditsOK /\ StaleOnlyByRace
      /\ edit[a].pc = t /\ edits < MaxEdits /\ edits' = edits + 1
      /\ thresholds' = [u \in DOMAIN thresholds \ {t} |-> thresholds[u]]
      /\ raced' = raced \cup (DevOf(t) \ old) /\ edit' = [edit EXCEPT ![a] = e]
      /\ UNCHANGED <<devices, cached, aged, running, refresh, check, cacheFaults>>
  BY DEF RulesInv, DeleteThreshold, Overlap
<1>1. EditRec(e) /\ \A x \in old : \E i \in DOMAIN e.drop : e.drop[i] = x
  <2>1. old \in SUBSET Device /\ \E y : old = {} \/ old = {y}
    BY <1>0 DEF EditsOK
  <2>2. PICK y : old = {} \/ old = {y}
    BY <2>1
  <2> HIDE DEF old
  <2>3. {} \in SUBSET Device
    OBVIOUS
  <2>4. EditRec(e) /\ \A x \in {} \cup old : \E i \in DOMAIN e.drop : e.drop[i] = x
    BY <2>1, <2>2, <2>3, DropRec
  <2> QED BY <2>4
<1> HIDE DEF e, old
<1>2. EditsOK' /\ edit[a].pc # "drop"
  BY <1>0, <1>1, EditMoves, RulesBounds
<1>3. TablesOK'
  <2>1. edits' \in 0 .. MaxEdits
    BY <1>0, RulesBounds DEF TablesOK
  <2>2. raced' \subseteq Device
    BY <1>0, OldDevice DEF TablesOK
  <2> QED BY <1>0, <2>1, <2>2 DEF TablesOK
<1>4. ASSUME NEW x \in Device, x \notin DevOf(t) PROVE Rules(x)' = Rules(x)
  BY <1>0, <1>4, SameRules DEF DevOf
<1>5. ASSUME NEW x \in Device
      PROVE  Rules(x)' = Rules(x) \/ x \in raced' \/ \E i \in DOMAIN e.drop : e.drop[i] = x
  BY <1>0, <1>1, <1>4
<1>6. StaleOnlyByRace'
  BY <1>0, <1>2, <1>5, EditStale
<1>7. RefreshOK' /\ ChecksOK'
  BY <1>0 DEF RefreshOK, ChecksOK
<1> QED BY <1>2, <1>3, <1>6, <1>7 DEF RulesInv

\* An edit ends without having dropped anything more.
LEMMA EndStep ==
    ASSUME RulesInv, NEW a \in Admin, EditFails(a) \/ EditEnds(a)
    PROVE  RulesInv'
<1>0. /\ TablesOK /\ RefreshOK /\ ChecksOK /\ EditsOK /\ StaleOnlyByRace
      /\ edit' = [edit EXCEPT ![a] = NoEdit]
      /\ (UNCHANGED cacheFaults \/ CacheFault)
      /\ UNCHANGED <<tables, cached, aged, running, refresh, check, edits, raced>>
  BY DEF RulesInv, EditFails, EditEnds
<1>1. edit[a].drop = <<>>
  BY <1>0, RulesBounds DEF EditFails, EditEnds, EditsOK
<1>2. EditRec(NoEdit)
  BY DEF EditRec, NoEdit
<1>3. EditsOK'
  BY <1>0, <1>2, EditMoves
<1>4. StaleOnlyByRace'
  <2> SUFFICES ASSUME NEW d \in Device, cached[d] \notin {{}, Rules(d)}, d \notin raced
               PROVE  Waits(d)'
    BY <1>0 DEF StaleOnlyByRace, Waits, Rules, tables
  <2>1. PICK x \in Admin : \E i \in DOMAIN edit[x].drop : edit[x].drop[i] = d
    BY <1>0 DEF StaleOnlyByRace
  <2>2. x # a
    BY <1>1, <2>1
  <2>3. edit'[x] = edit[x]
    BY <1>0, <2>2 DEF EditsOK
  <2>4. \E i \in DOMAIN edit'[x].drop : edit'[x].drop[i] = d
    BY <2>1, <2>3
  <2> QED BY <2>4 DEF Waits
<1>5. TablesOK'
  BY <1>0, RulesBounds DEF TablesOK, tables, CacheFault
<1>6. RefreshOK' /\ ChecksOK'
  BY <1>0 DEF RefreshOK, ChecksOK
<1> QED BY <1>3, <1>4, <1>5, <1>6 DEF RulesInv

LEMMA InvalidateStep ==
    ASSUME RulesInv, NEW a \in Admin, InvalidateDeviceCache(a)
    PROVE  RulesInv'
<1> DEFINE q == edit[a].drop
           h == Head(q)
<1>0. /\ TablesOK /\ RefreshOK /\ ChecksOK /\ EditsOK /\ StaleOnlyByRace
      /\ q # <<>> /\ q \in Seq(Device) /\ edit[a].pc = "drop"
  BY DEF RulesInv, InvalidateDeviceCache, EditsOK
<1>1. /\ h \in Device /\ q[1] = h /\ Tail(q) \in Seq(Device) /\ Len(q) \in Nat \ {0} /\ DOMAIN q = 1 .. Len(q)
      /\ DOMAIN Tail(q) = 1 .. Len(q) - 1 /\ \A i \in 1 .. Len(q) - 1 : Tail(q)[i] = q[i + 1]
  BY <1>0
<1> DEFINE e == IF Tail(q) = <<>> THEN NoEdit ELSE [pc |-> "drop", old |-> edit[a].old, drop |-> Tail(q)]
<1>2. /\ cached' = [cached EXCEPT ![h] = {}] /\ raced' = raced \ {h}
      /\ UNCHANGED <<tables, aged, running, refresh, check, edits, cacheFaults>>
  BY DEF InvalidateDeviceCache
<1>3. edit' = [edit EXCEPT ![a] = e]
  <2>1. edit[a] = [pc |-> "drop", old |-> edit[a].old, drop |-> q]
    BY <1>0 DEF EditsOK
  <2>2. ASSUME NEW r, NEW o, NEW p, NEW t, r = [pc |-> "drop", old |-> o, drop |-> p]
        PROVE  [r EXCEPT !.drop = t] = [pc |-> "drop", old |-> o, drop |-> t]
    <3>1. [[pc |-> "drop", old |-> o, drop |-> p] EXCEPT !.drop = t] = [pc |-> "drop", old |-> o, drop |-> t]
      OBVIOUS
    <3> QED BY <3>1, <2>2, Zenon
  <2>3. [edit[a] EXCEPT !.drop = Tail(q)] = [pc |-> "drop", old |-> edit[a].old, drop |-> Tail(q)]
    <3> DEFINE o == edit[a].old
               t == Tail(q)
               r == edit[a]
    <3>1. r = [pc |-> "drop", old |-> o, drop |-> q]
      BY <2>1
    <3> HIDE DEF o, t, r, q
    <3>2. [r EXCEPT !.drop = t] = [pc |-> "drop", old |-> o, drop |-> t]
      BY <2>2, <3>1
    <3> QED BY <3>2 DEF o, t, r
  <2> QED BY <2>3 DEF InvalidateDeviceCache
<1>4. EditRec(e) /\ e.drop = Tail(q)
  <2>1. CASE Tail(q) = <<>>
    BY <2>1 DEF EditRec, NoEdit
  <2>2. CASE Tail(q) # <<>>
    <3>1. edit[a].old \in SUBSET Device /\ \E x : edit[a].old = {} \/ edit[a].old = {x}
      BY <1>0 DEF EditsOK
    <3>2. e.pc = "drop" /\ e.old = edit[a].old /\ e.drop = Tail(q)
          /\ e = [pc |-> "drop", old |-> edit[a].old, drop |-> Tail(q)]
      BY <2>2
    <3> HIDE DEF e
    <3> QED BY <1>1, <3>1, <3>2 DEF EditRec
  <2> QED BY <2>1, <2>2
<1>5. DOMAIN edit = Admin
  BY <1>0 DEF EditsOK
<1> HIDE DEF e, q, h
<1>6. EditsOK'
  BY <1>0, <1>3, <1>4, EditMoves
<1>7. TablesOK'
  <2>1. cached' \in [Device -> SUBSET (Threshold \X Level)]
    BY <1>0, <1>2 DEF TablesOK
  <2> QED BY <1>0, <1>2, <2>1 DEF TablesOK, tables
<1>8. RefreshOK' /\ ChecksOK'
  BY <1>0, <1>2 DEF RefreshOK, ChecksOK
<1>9. StaleOnlyByRace'
  <2> SUFFICES ASSUME NEW d \in Device, cached'[d] \notin {{}, Rules(d)}, d \notin raced'
               PROVE  Waits(d)'
    BY <1>2 DEF StaleOnlyByRace, Waits, Rules, tables
  <2>1. d # h
    BY <1>0, <1>2 DEF TablesOK
  <2>2. cached[d] \notin {{}, Rules(d)} /\ d \notin raced
    BY <1>0, <1>2, <2>1 DEF TablesOK
  <2>3. PICK x \in Admin : \E i \in DOMAIN edit[x].drop : edit[x].drop[i] = d
    BY <1>0, <2>2 DEF StaleOnlyByRace
  <2>4. CASE x # a
    <3>1. edit'[x] = edit[x]
      BY <1>3, <1>5, <2>4
    <3>2. \E i \in DOMAIN edit'[x].drop : edit'[x].drop[i] = d
      BY <2>3, <3>1
    <3> QED BY <3>2 DEF Waits
  <2>5. CASE x = a
    <3>1. PICK i \in DOMAIN q : q[i] = d
      BY <2>3, <2>5 DEF q
    <3>2. i # 1 /\ i \in 1 .. Len(q)
      BY <1>1, <2>1, <3>1
    <3>3. i - 1 \in 1 .. Len(q) - 1 /\ (i - 1) + 1 = i
      BY <1>1, <3>2
    <3>4. i - 1 \in DOMAIN Tail(q) /\ Tail(q)[i - 1] = d
      BY <1>1, <3>1, <3>3
    <3>5. edit'[a].drop = Tail(q)
      BY <1>3, <1>4, <1>5
    <3>6. \E j \in DOMAIN edit'[a].drop : edit'[a].drop[j] = d
      BY <3>4, <3>5
    <3> QED BY <3>6 DEF Waits
  <2> QED BY <2>4, <2>5
<1> QED BY <1>6, <1>7, <1>8, <1>9 DEF RulesInv

LEMMA DeleteDeviceStep ==
    ASSUME RulesInv, NEW d \in Device, DeleteDevice(d)
    PROVE  RulesInv'
<1>0. /\ TablesOK /\ RefreshOK /\ ChecksOK /\ EditsOK /\ StaleOnlyByRace
      /\ edits < MaxEdits /\ edits' = edits + 1 /\ devices' = devices \ {d} /\ raced' = raced \cup {d}
      /\ UNCHANGED <<cached, aged, running, refresh, check, edit, cacheFaults>>
  BY DEF RulesInv, DeleteDevice
<1>1. \/ thresholds' = thresholds
      \/ thresholds' = [t \in {u \in DOMAIN thresholds : thresholds[u].dev # d} |-> thresholds[t]]
  BY DEF DeleteDevice
<1>2. TablesOK'
  <2>1. edits' \in 0 .. MaxEdits
    BY <1>0, RulesBounds DEF TablesOK
  <2>2. DOMAIN thresholds' \subseteq Threshold
        /\ \A t \in DOMAIN thresholds' : thresholds'[t] \in [dev : Device, level : Level]
    BY <1>0, <1>1 DEF TablesOK
  <2> QED BY <1>0, <2>1, <2>2 DEF TablesOK
<1>3. ASSUME NEW x \in Device, x # d PROVE Rules(x)' = Rules(x)
  <2>1. \A t : /\ t \in DOMAIN thresholds' /\ thresholds'[t].dev = x
                     <=> t \in DOMAIN thresholds /\ thresholds[t].dev = x
               /\ t \in DOMAIN thresholds /\ thresholds[t].dev = x
                     => thresholds'[t].level = thresholds[t].level
    BY <1>1, <1>3
  <2> QED BY <2>1, SameRules
<1>4. StaleOnlyByRace'
  BY <1>0, <1>3 DEF StaleOnlyByRace
<1>5. RefreshOK' /\ ChecksOK' /\ EditsOK'
  BY <1>0 DEF RefreshOK, ChecksOK, EditsOK
<1> QED BY <1>2, <1>4, <1>5 DEF RulesInv

LEMMA RulesInvStep == RulesInv /\ [ThresholdCacheNext]_ThresholdCacheVars => RulesInv'
<1> SUFFICES ASSUME RulesInv, [ThresholdCacheNext]_ThresholdCacheVars PROVE RulesInv'
  OBVIOUS
<1>1. CASE \/ StartThresholdCache \/ StopThresholdCache \/ RefreshTick \/ RefreshLoopStops \/ Age
           \/ \E p \in Refresher : ReadDevices(p) \/ ReadThresholds(p)
  BY <1>1, LoopStep
<1>2. CASE \E p \in Refresher : RefreshFails(p)
  BY <1>2, FailsStep
<1>3. CASE \E p \in Refresher : Install(p)
  BY <1>3, InstallStep
<1>4. CASE \E c \in Check : LookAgain(c) \/ LoadDevice(c) \/ LoadDeviceFails(c) \/ \E d \in devices : BeginCheck(c, d)
  BY <1>4, LookStep
<1>5. CASE \E c \in Check : PutDevice(c)
  BY <1>5, PutStep
<1>6. CASE \E a \in Admin : EditEnds(a) \/ EditFails(a)
  BY <1>6, EndStep
<1>7. CASE \E a \in Admin : InvalidateDeviceCache(a)
  BY <1>7, InvalidateStep
<1>8. CASE \E a \in Admin, t \in Threshold : LoadOld(a, t)
  BY <1>8, LoadOldStep
<1>9. CASE \E a \in Admin, t \in Threshold : DeleteThreshold(a, t)
  BY <1>9, DeleteStep
<1>10. CASE \E a \in Admin, t \in Threshold, d \in Device, l \in Level : CreateThreshold(a, t, d, l)
  BY <1>10, CreateStep
<1>11. CASE \E a \in Admin, t \in Threshold, d \in Device, l \in Level : UpdateThreshold(a, t, d, l)
  BY <1>11, UpdateStep
<1>12. CASE \E d \in Device : DeleteDevice(d)
  BY <1>12, DeleteDeviceStep
<1>13. CASE UNCHANGED ThresholdCacheVars
  <2>1. StaleOnlyByRace'
    BY <1>13, StillStale DEF ThresholdCacheVars, tables, RulesInv
  <2>2. TablesOK' /\ RefreshOK' /\ ChecksOK' /\ EditsOK'
    BY <1>13 DEF ThresholdCacheVars, tables, RulesInv, TablesOK, RefreshOK, ChecksOK, EditsOK
  <2> QED BY <2>1, <2>2 DEF RulesInv
<1> QED BY <1>1, <1>2, <1>3, <1>4, <1>5, <1>6, <1>7, <1>8, <1>9, <1>10, <1>11, <1>12, <1>13
        DEF ThresholdCacheNext, RefreshStep, CheckStep, Dropping

\* Whatever fills, edits and failing statements overlap, an entry of the cache
\* says what the database says, unless an edit that has written its row has
\* still to drop the entry, or a fill or another edit overlapped.
THEOREM RulesKept == ThresholdCacheSpec => []RulesSound
<1>1. ThresholdCacheInit => RulesInv
  BY RulesInit
<1>2. RulesInv /\ [ThresholdCacheNext]_ThresholdCacheVars => RulesInv'
  BY RulesInvStep
<1>3. RulesInv => RulesSound
  BY RulesInvOK
<1> QED BY <1>1, <1>2, <1>3, PTL DEF ThresholdCacheSpec

-----------------------------------------------------------------------------
(* FieldLookup: what the maps of a check hold.                              *)

\* No two names of the reading differ only in case.
Distinct == \A m, n \in Reported : Lower[m] = Lower[n] => m = n
Same(n, m) == Lower[n] = Lower[m]

\* What is remembered under a name is a number the reading has for it, and the
\* one the name stands for; a name known as invalid stands for no number.
Remembered ==
    /\ \A m \in DOMAIN parsed : m \in LookupName /\ parsed[m] \in ValuesOf(m) /\ Numeric(parsed[m])
    /\ Distinct => \A m \in DOMAIN parsed : parsed[m] \in Reference(m)
    /\ Distinct => \A m \in invalid : Reference(m) = {None}
Built(maps, F) == \E f \in Lowered(F) : maps = {f}
MapsBuilt ==
    /\ normalized = NotBuilt \/ Built(normalized, raw)
    /\ pointNorm = NotBuilt \/ Built(pointNorm, PointRaw)

\* The inductive invariant.
LookupInv == MapsBuilt /\ Remembered /\ LookupSound

\* Names that differ only in case stand for the same.
LEMMA SameStandsForSame ==
    ASSUME NEW n, NEW m, Same(n, m)
    PROVE  ValuesOf(n) = ValuesOf(m) /\ Reference(n) = Reference(m)
BY DEF Same, ValuesOf, Reference

LEMMA LowerIsSame == ASSUME NEW n \in LookupName PROVE Lower[n] \in LookupName /\ Same(Lower[n], n)
BY FieldLookupAssumption DEF Same

\* A map by lower-case name answers with a value of one of its names.
LEMMA InLowerIs ==
    ASSUME NEW n \in LookupName, NEW F, NEW maps, Built(maps, F)
    PROVE  \/ InLower(n, maps) = <<>> /\ \A x \in DOMAIN F : ~Same(x, n)
           \/ \E x \in DOMAIN F : Same(x, n) /\ InLower(n, maps) = <<[key |-> Lower[n], val |-> F[x]]>>
<1>1. PICK f \in Lowered(F) : maps = {f}
  BY DEF Built
<1>2. (CHOOSE g \in maps : TRUE) = f
  BY <1>1
<1> DEFINE low == {Lower[x] : x \in DOMAIN F}
<1>3. DOMAIN f = low /\ \A m \in low : \E x \in DOMAIN F : Lower[x] = m /\ f[m] = F[x]
  BY DEF Lowered
<1>4. CASE Lower[n] \in low
  <2>1. PICK x \in DOMAIN F : Lower[x] = Lower[n] /\ f[Lower[n]] = F[x]
    BY <1>3, <1>4
  <2>2. InLower(n, maps) = <<[key |-> Lower[n], val |-> f[Lower[n]]]>>
    BY <1>1, <1>2, <1>3, <1>4 DEF InLower
  <2> QED BY <2>1, <2>2 DEF Same
<1>5. CASE Lower[n] \notin low
  BY <1>1, <1>3, <1>5 DEF InLower, Same
<1> QED BY <1>4, <1>5

\* At most two candidates: the first numeric one is found.
Candidate(s, n, F) ==
    \A i \in DOMAIN s : /\ s[i].key \in {n, Lower[n]}
                        /\ \E x \in DOMAIN F : Same(x, n) /\ s[i].val = F[x]
LEMMA NoneNumeric ==
    ASSUME NEW s, DOMAIN s \subseteq {1, 2}, 2 \in DOMAIN s => 1 \in DOMAIN s, FirstNumeric(s) = {}
    PROVE  \A i \in DOMAIN s : ~Numeric(s[i].val)
<1>1. \A i \in DOMAIN s : Numeric(s[i].val) => \E k \in 1 .. i - 1 : Numeric(s[k].val)
  BY DEF FirstNumeric
<1>2. 1 \in DOMAIN s => ~Numeric(s[1].val)
  BY <1>1
<1>3. 2 \in DOMAIN s => ~Numeric(s[2].val)
  <2> SUFFICES ASSUME 2 \in DOMAIN s, Numeric(s[2].val) PROVE FALSE
    OBVIOUS
  <2>1. PICK k \in 1 .. 1 : Numeric(s[k].val)
    BY <1>1
  <2>2. k = 1
    OBVIOUS
  <2> QED BY <1>2, <2>1, <2>2
<1> QED BY <1>2, <1>3

\* The points that may answer for n.
LEMMA PointsAre ==
    ASSUME NEW n \in LookupName, NEW P, P = Points(n), Built(pointNorm', PointRaw)
    PROVE  /\ DOMAIN P \subseteq {1, 2} /\ (2 \in DOMAIN P => 1 \in DOMAIN P)
           /\ Candidate(P, n, PointRaw)
           /\ DOMAIN P = {} => \A x \in DOMAIN PointRaw : ~Same(x, n)
           /\ n \in DOMAIN PointRaw => 1 \in DOMAIN P /\ P[1].val = PointRaw[n]
<1> DEFINE F == PointRaw
           maps == pointNorm'
           e == [key |-> n, val |-> F[n]]
           exact == IF n \in DOMAIN F THEN <<e>> ELSE <<>>
<1>1. P = exact \o InLower(n, maps)
  BY DEF Points
<1>0. Built(maps, F)
  OBVIOUS
<1> HIDE DEF F, maps
<1>2. \/ InLower(n, maps) = <<>> /\ \A x \in DOMAIN F : ~Same(x, n)
      \/ \E x \in DOMAIN F : Same(x, n) /\ InLower(n, maps) = <<[key |-> Lower[n], val |-> F[x]]>>
  BY <1>0, InLowerIs
<1>3. Same(n, n)
  BY DEF Same
<1>4. CASE InLower(n, maps) = <<>> /\ \A x \in DOMAIN F : ~Same(x, n)
  <2>1. n \notin DOMAIN F
    BY <1>3, <1>4
  <2>2. P = <<>>
    BY <1>1, <1>4, <2>1
  <2> QED BY <1>4, <2>1, <2>2 DEF Candidate, F
<1>5. ASSUME NEW x \in DOMAIN F, Same(x, n), InLower(n, maps) = <<[key |-> Lower[n], val |-> F[x]]>>
      PROVE  /\ DOMAIN P \subseteq {1, 2} /\ (2 \in DOMAIN P => 1 \in DOMAIN P)
             /\ Candidate(P, n, F)
             /\ DOMAIN P # {}
             /\ n \in DOMAIN F => 1 \in DOMAIN P /\ P[1].val = F[n]
  <2> DEFINE l == [key |-> Lower[n], val |-> F[x]]
  <2>1. CASE n \in DOMAIN F
    <3> HIDE DEF e, l
    <3>1. P = <<e>> \o <<l>>
      BY <1>1, <1>5, <2>1 DEF l
    <3>2. DOMAIN P = {1, 2} /\ P[1] = e /\ P[2] = l
      <4> DEFINE S == {e, l}
      <4>1. <<e>> \in Seq(S) /\ <<l>> \in Seq(S) /\ Len(<<e>>) = 1 /\ Len(<<l>>) = 1
        OBVIOUS
      <4> QED BY <3>1, <4>1
    <3> QED BY <1>3, <1>5, <2>1, <3>2 DEF Candidate, e, l
  <2>2. CASE n \notin DOMAIN F
    <3> HIDE DEF l
    <3>1. P = <<l>>
      BY <1>1, <1>5, <2>2 DEF l
    <3>2. DOMAIN P = {1} /\ P[1] = l
      BY <3>1
    <3> QED BY <1>5, <2>2, <3>2 DEF Candidate, l
  <2> QED BY <2>1, <2>2
<1> QED BY <1>2, <1>4, <1>5 DEF F

\* If no point of n is a number, none is whose name differs only in case.
LEMMA NoPointNumeric ==
    ASSUME NEW n \in LookupName, Built(pointNorm', PointRaw), FirstNumeric(Points(n)) = {}, Distinct,
           NEW y \in DOMAIN PointRaw, Same(y, n)
    PROVE  ~Numeric(PointRaw[y])
<1> SUFFICES ASSUME NEW P, P = Points(n) PROVE ~Numeric(PointRaw[y])
  OBVIOUS
<1>1. /\ DOMAIN P \subseteq {1, 2} /\ (2 \in DOMAIN P => 1 \in DOMAIN P)
      /\ Candidate(P, n, PointRaw)
      /\ DOMAIN P = {} => \A x \in DOMAIN PointRaw : ~Same(x, n)
  BY PointsAre
<1>2. FirstNumeric(P) = {}
  OBVIOUS
<1>3. \A i \in DOMAIN P : ~Numeric(P[i].val)
  BY <1>1, <1>2, NoneNumeric
<1>4. PICK i \in DOMAIN P : TRUE
  BY <1>1
<1>5. PICK x \in DOMAIN PointRaw : Same(x, n) /\ P[i].val = PointRaw[x]
  BY <1>1, <1>4 DEF Candidate
<1>6. x = y
  BY <1>5 DEF Distinct, Reported, Same
<1> QED BY <1>3, <1>5, <1>6

\* What may answer for n when no point of it is a number: a field, or nothing.
LEMMA RawAre ==
    ASSUME NEW n \in LookupName, Built(pointNorm', PointRaw), FirstNumeric(Points(n)) = {},
           n \in DOMAIN raw \/ Built(normalized', raw), NEW R, R = RawValue(n)
    PROVE  \/ \E x \in DOMAIN raw, k \in {n, Lower[n]} : Same(x, n) /\ R = <<[key |-> k, val |-> raw[x]]>>
           \/ /\ \A x \in DOMAIN raw : ~Same(x, n)
              /\ \A i \in DOMAIN R : ~Numeric(R[i].val) /\ R[i].key \in {n, Lower[n]}
<1>0. Same(n, n)
  BY DEF Same
<1> SUFFICES ASSUME NEW P, P = Points(n)
             PROVE  \/ \E x \in DOMAIN raw, k \in {n, Lower[n]} : Same(x, n) /\ R = <<[key |-> k, val |-> raw[x]]>>
                    \/ /\ \A x \in DOMAIN raw : ~Same(x, n)
                       /\ \A i \in DOMAIN R : ~Numeric(R[i].val) /\ R[i].key \in {n, Lower[n]}
  OBVIOUS
<1>1. /\ DOMAIN P \subseteq {1, 2} /\ (2 \in DOMAIN P => 1 \in DOMAIN P)
      /\ Candidate(P, n, PointRaw)
      /\ n \in DOMAIN PointRaw => 1 \in DOMAIN P /\ P[1].val = PointRaw[n]
  BY PointsAre
<1>2. FirstNumeric(P) = {}
  OBVIOUS
<1>3. \A i \in DOMAIN P : ~Numeric(P[i].val)
  BY <1>1, <1>2, NoneNumeric
<1>4. \A i \in DOMAIN P : P[i].key \in {n, Lower[n]}
  BY <1>1 DEF Candidate
<1>5. CASE n \in DOMAIN raw
  <2>1. R = <<[key |-> n, val |-> raw[n]]>>
    BY <1>5 DEF RawValue
  <2> QED BY <1>0, <1>5, <2>1
<1>6. CASE n \notin DOMAIN raw
  <2> DEFINE maps == normalized'
             F == raw
  <2>1. Built(maps, F)
    BY <1>6
  <2>2. R = IF InLower(n, maps) # <<>> THEN InLower(n, maps)
            ELSE IF n \in DOMAIN PointRaw THEN <<[key |-> n, val |-> PointRaw[n]]>> ELSE P
    BY <1>6 DEF RawValue
  <2> HIDE DEF maps, F
  <2>3. \/ InLower(n, maps) = <<>> /\ \A x \in DOMAIN F : ~Same(x, n)
        \/ \E x \in DOMAIN F : Same(x, n) /\ InLower(n, maps) = <<[key |-> Lower[n], val |-> F[x]]>>
    BY <2>1, InLowerIs
  <2>4. CASE InLower(n, maps) = <<>> /\ \A x \in DOMAIN F : ~Same(x, n)
    <3>1. CASE n \in DOMAIN PointRaw
      <4> DEFINE e == [key |-> n, val |-> PointRaw[n]]
      <4>1. R = <<e>>
        BY <2>2, <2>4, <3>1
      <4>2. ~Numeric(PointRaw[n])
        BY <1>1, <1>3, <3>1
      <4>3. e.key = n /\ e.val = PointRaw[n]
        OBVIOUS
      <4> HIDE DEF e
      <4>4. \A i \in DOMAIN R : R[i] = e
        BY <4>1
      <4> QED BY <2>4, <4>2, <4>3, <4>4 DEF F
    <3>2. CASE n \notin DOMAIN PointRaw
      <4>1. R = P
        BY <2>2, <2>4, <3>2
      <4> QED BY <1>3, <1>4, <2>4, <4>1 DEF F
    <3> QED BY <3>1, <3>2
  <2>5. ASSUME NEW x \in DOMAIN F, Same(x, n), InLower(n, maps) = <<[key |-> Lower[n], val |-> F[x]]>>
        PROVE  \E z \in DOMAIN raw, k \in {n, Lower[n]} : Same(z, n) /\ R = <<[key |-> k, val |-> raw[z]]>>
    <3> DEFINE l == [key |-> Lower[n], val |-> F[x]]
    <3>1. InLower(n, maps) = <<l>>
      BY <2>5
    <3> HIDE DEF l
    <3>2. <<l>> # <<>>
      OBVIOUS
    <3>3. R = <<l>>
      BY <2>2, <3>1, <3>2
    <3> QED BY <2>5, <3>3 DEF F, l
  <2> QED BY <2>3, <2>4, <2>5
<1> QED BY <1>5, <1>6

\* Of one candidate.
LEMMA OneNumeric ==
    ASSUME NEW e
    PROVE  FirstNumeric(<<e>>) = IF Numeric(e.val) THEN {e} ELSE {}
<1> DEFINE s == <<e>>
<1>1. DOMAIN s = {1} /\ s[1] = e /\ 1 .. 0 = {}
  OBVIOUS
<1> HIDE DEF s
<1>2. \A k \in 1 .. 1 - 1 : ~Numeric(s[k].val)
  BY <1>1
<1>3. {j \in DOMAIN s : Numeric(s[j].val) /\ \A k \in 1 .. j - 1 : ~Numeric(s[k].val)}
        = IF Numeric(e.val) THEN {1} ELSE {}
  BY <1>1, <1>2
<1>4. FirstNumeric(s) = IF Numeric(e.val) THEN {e} ELSE {}
  <2>1. CASE Numeric(e.val)
    BY <1>1, <1>3, <2>1 DEF FirstNumeric
  <2>2. CASE ~Numeric(e.val)
    BY <1>3, <2>2 DEF FirstNumeric
  <2> QED BY <2>1, <2>2
<1> QED BY <1>4 DEF s

\* How an answer comes about: nothing stands for n, or the number v does,
\* which may be remembered under n or its lower case.
NothingFound(n) ==
    /\ Answers(n, None) /\ UNCHANGED parsed
    /\ invalid \subseteq invalid' /\ invalid' \ invalid \subseteq {n, Lower[n]}
    /\ Distinct => Reference(n) = {None}
FoundValue(n, v) ==
    /\ Answers(n, v) /\ Numeric(v) /\ v \in ValuesOf(n) /\ (Distinct => v \in Reference(n))
    /\ \/ UNCHANGED parsed
       \/ \E key \in {n, Lower[n]} : Remember(key, v)
    /\ UNCHANGED invalid

LEMMA NoneIsNoNumber == ~Numeric(None)
BY DEF Numeric, None

LEMMA AnswerInv ==
    ASSUME Remembered, NEW n \in LookupName, UNCHANGED <<raw, rawPoints>>,
           NothingFound(n) \/ \E v : FoundValue(n, v)
    PROVE  Remembered' /\ LookupSound'
<1>1. Same(Lower[n], n) /\ Same(n, n) /\ Lower[n] \in LookupName
  BY LowerIsSame DEF Same
<1>2. /\ PointRaw' = PointRaw /\ (Distinct' <=> Distinct)
      /\ \A m : ValuesOf(m)' = ValuesOf(m) /\ Reference(m)' = Reference(m)
  BY DEF PointRaw, Distinct, Reported, ValuesOf, Reference
<1>3. \A k \in {n, Lower[n]} : ValuesOf(k) = ValuesOf(n) /\ Reference(k) = Reference(n) /\ k \in LookupName
  BY <1>1, SameStandsForSame
<1>4. /\ \A m \in DOMAIN parsed : m \in LookupName /\ parsed[m] \in ValuesOf(m) /\ Numeric(parsed[m])
      /\ Distinct => \A m \in DOMAIN parsed : parsed[m] \in Reference(m)
      /\ Distinct => \A m \in invalid : Reference(m) = {None}
  BY DEF Remembered
<1>5. CASE NothingFound(n)
  <2>1. answer' = [name |-> n, val |-> None] /\ parsed' = parsed
    BY <1>5 DEF NothingFound, Answers
  <2>2. Distinct => \A m \in invalid' : Reference(m) = {None}
    BY <1>3, <1>4, <1>5 DEF NothingFound
  <2>3. Remembered'
    BY <1>2, <1>4, <2>1, <2>2 DEF Remembered
  <2>4. answer'.name = n /\ answer'.val = None /\ (Distinct => Reference(n) = {None})
    BY <1>5, <2>1 DEF NothingFound
  <2>5. AnswerFromReading'
    BY <2>4 DEF AnswerFromReading, None
  <2>6. CacheTransparent'
    BY <1>2, <2>4 DEF CacheTransparent, Distinct
  <2> QED BY <2>3, <2>5, <2>6 DEF LookupSound
<1>6. ASSUME NEW v, FoundValue(n, v) PROVE Remembered' /\ LookupSound'
  <2>1. answer'.name = n /\ answer'.val = v /\ Numeric(v) /\ v \in ValuesOf(n) /\ (Distinct => v \in Reference(n))
    BY <1>6 DEF FoundValue, Answers
  <2>2. AnswerFromReading'
    BY <1>2, <2>1 DEF AnswerFromReading
  <2>3. CacheTransparent'
    BY <1>2, <2>1 DEF CacheTransparent, Distinct
  <2>4. invalid' = invalid
    BY <1>6 DEF FoundValue
  <2>5. CASE parsed' = parsed
    BY <1>2, <1>4, <2>2, <2>3, <2>4, <2>5 DEF Remembered, LookupSound
  <2>6. ASSUME NEW key \in {n, Lower[n]}, Remember(key, v) PROVE Remembered'
    <3>1. parsed' = [m \in DOMAIN parsed \cup {key} |-> IF m = key THEN v ELSE parsed[m]]
      BY <2>6 DEF Remember
    <3>2. DOMAIN parsed' = DOMAIN parsed \cup {key} /\ parsed'[key] = v
      BY <3>1
    <3>3. \A m \in DOMAIN parsed' : m # key => m \in DOMAIN parsed /\ parsed'[m] = parsed[m]
      BY <3>1
    <3>4. key \in LookupName /\ v \in ValuesOf(key) /\ (Distinct => v \in Reference(key))
      BY <1>3, <2>1
    <3>5. \A m \in DOMAIN parsed' : m \in LookupName /\ parsed'[m] \in ValuesOf(m) /\ Numeric(parsed'[m])
      BY <1>4, <2>1, <3>2, <3>3, <3>4
    <3>6. Distinct => \A m \in DOMAIN parsed' : parsed'[m] \in Reference(m)
      BY <1>4, <3>2, <3>3, <3>4
    <3> QED BY <1>2, <1>4, <2>4, <3>5, <3>6 DEF Remembered
  <2> QED BY <1>6, <2>2, <2>3, <2>5, <2>6 DEF FoundValue, LookupSound
<1> QED BY <1>5, <1>6

LEMMA CachedIs ==
    ASSUME Remembered, NEW n \in LookupName, AskCached(n)
    PROVE  NothingFound(n) \/ \E v : FoundValue(n, v)
<1>1. UNCHANGED <<parsed, invalid>>
  BY DEF AskCached
<1>2. \A k \in {n, Lower[n]} : ValuesOf(k) = ValuesOf(n) /\ Reference(k) = Reference(n)
  BY LowerIsSame, SameStandsForSame
<1>3. ASSUME NEW v \in Cached(n), Answers(n, v) PROVE FoundValue(n, v)
  <2>1. \E k \in {n, Lower[n]} : k \in DOMAIN parsed /\ v = parsed[k]
    BY <1>3 DEF Cached
  <2> QED BY <1>1, <1>2, <1>3, <2>1 DEF FoundValue, Remembered
<1>4. ASSUME KnownInvalid(n), Answers(n, None) PROVE NothingFound(n)
  BY <1>1, <1>2, <1>4 DEF NothingFound, Remembered, KnownInvalid
<1> QED BY <1>3, <1>4 DEF AskCached

LEMMA PointIs ==
    ASSUME NEW n \in LookupName, Built(pointNorm', PointRaw), AskPoint(n)
    PROVE  \E v : FoundValue(n, v)
<1>1. PICK p \in FirstNumeric(Points(n)) :
        /\ Answers(n, p.val)
        /\ IF p.val.kind = "text" THEN Remember(p.key, p.val) ELSE UNCHANGED parsed
        /\ UNCHANGED <<invalid, normalized>>
  BY DEF AskPoint
<1> SUFFICES ASSUME NEW P, P = Points(n) PROVE \E v : FoundValue(n, v)
  OBVIOUS
<1>2. Candidate(P, n, PointRaw)
  BY PointsAre
<1>3. PICK i \in DOMAIN P : p = P[i] /\ Numeric(P[i].val)
  BY <1>1 DEF FirstNumeric
<1>4. PICK x \in DOMAIN PointRaw : Same(x, n) /\ p.val = PointRaw[x]
  BY <1>2, <1>3 DEF Candidate
<1>5. p.key \in {n, Lower[n]}
  BY <1>2, <1>3 DEF Candidate
<1>6. p.val \in ValuesOf(n)
  BY <1>4 DEF ValuesOf, Same
<1>7. p.val \in Reference(n)
  <2> DEFINE numbers == {PointRaw[m] : m \in {y \in DOMAIN PointRaw : Lower[y] = Lower[n] /\ Numeric(PointRaw[y])}}
  <2>1. p.val \in numbers
    BY <1>3, <1>4 DEF Same
  <2>2. numbers # {} => Reference(n) = numbers
    BY DEF Reference
  <2> QED BY <2>1, <2>2
<1> QED BY <1>1, <1>3, <1>5, <1>6, <1>7 DEF FoundValue

LEMMA RawIs ==
    ASSUME NEW n \in LookupName, Built(pointNorm', PointRaw), n \in DOMAIN raw \/ Built(normalized', raw), AskRaw(n)
    PROVE  NothingFound(n) \/ \E v : FoundValue(n, v)
<1> DEFINE numbers == {PointRaw[m] : m \in {y \in DOMAIN PointRaw : Lower[y] = Lower[n] /\ Numeric(PointRaw[y])}}
           given == {raw[m] : m \in {y \in DOMAIN raw : Lower[y] = Lower[n] /\ Numeric(raw[y])}}
<1>0. Reference(n) = IF numbers # {} THEN numbers ELSE IF given # {} THEN given ELSE {None}
  BY DEF Reference
<1>1. FirstNumeric(Points(n)) = {}
  BY DEF AskRaw
<1>2. Distinct => numbers = {}
  BY <1>1, NoPointNumeric DEF Same
<1> SUFFICES ASSUME NEW R, R = RawValue(n) PROVE NothingFound(n) \/ \E v : FoundValue(n, v)
  OBVIOUS
<1>3. /\ IF FirstNumeric(R) = {} THEN Answers(n, None) /\ UNCHANGED parsed
         ELSE \E r \in FirstNumeric(R) : Answers(n, r.val) /\ Remember(r.key, r.val)
      /\ invalid' = invalid \cup {R[i].key : i \in {j \in DOMAIN R : ~Numeric(R[j].val)}}
  BY DEF AskRaw, InvalidKeys
<1>4. \/ \E x \in DOMAIN raw, k \in {n, Lower[n]} : Same(x, n) /\ R = <<[key |-> k, val |-> raw[x]]>>
      \/ /\ \A x \in DOMAIN raw : ~Same(x, n)
         /\ \A i \in DOMAIN R : ~Numeric(R[i].val) /\ R[i].key \in {n, Lower[n]}
  BY <1>1, RawAre
<1>5. ASSUME NEW x \in DOMAIN raw, NEW k \in {n, Lower[n]}, Same(x, n), R = <<[key |-> k, val |-> raw[x]]>>
      PROVE  NothingFound(n) \/ \E v : FoundValue(n, v)
  <2> DEFINE e == [key |-> k, val |-> raw[x]]
  <2>1. e.key = k /\ e.val = raw[x] /\ R = <<e>>
    BY <1>5
  <2> HIDE DEF e, numbers, given
  <2>2. FirstNumeric(R) = IF Numeric(e.val) THEN {e} ELSE {}
    BY <2>1, OneNumeric
  <2>3. \A i : i \in DOMAIN R <=> i = 1
    BY <2>1
  <2>4. R[1] = e
    BY <2>1
  <2>5. CASE Numeric(e.val)
    <3>1. {R[i].key : i \in {j \in DOMAIN R : ~Numeric(R[j].val)}} = {}
      BY <2>3, <2>4, <2>5
    <3>2. invalid' = invalid
      BY <1>3, <3>1
    <3>3. Answers(n, e.val) /\ Remember(k, e.val)
      BY <1>3, <2>1, <2>2, <2>5
    <3>4. e.val \in given /\ e.val \in ValuesOf(n)
      BY <1>5, <2>1, <2>5 DEF Same, given, ValuesOf
    <3>5. Distinct => e.val \in Reference(n)
      BY <1>0, <1>2, <3>4
    <3> QED BY <2>5, <3>2, <3>3, <3>4, <3>5 DEF FoundValue
  <2>6. CASE ~Numeric(e.val)
    <3>1. {R[i].key : i \in {j \in DOMAIN R : ~Numeric(R[j].val)}} = {k}
      BY <2>1, <2>3, <2>4, <2>6
    <3>2. Answers(n, None) /\ parsed' = parsed
      BY <1>3, <2>2, <2>6
    <3>3. invalid' = invalid \cup {k}
      BY <1>3, <3>1
    <3>4. Distinct => given = {}
      BY <1>5, <2>1, <2>6 DEF Distinct, Reported, Same, given
    <3>5. Distinct => Reference(n) = {None}
      BY <1>0, <1>2, <3>4
    <3> QED BY <3>2, <3>3, <3>5 DEF NothingFound
  <2> QED BY <2>5, <2>6
<1>6. ASSUME \A x \in DOMAIN raw : ~Same(x, n),
             \A i \in DOMAIN R : ~Numeric(R[i].val) /\ R[i].key \in {n, Lower[n]}
      PROVE  NothingFound(n)
  <2>1. FirstNumeric(R) = {}
    BY <1>6 DEF FirstNumeric
  <2>2. Answers(n, None) /\ parsed' = parsed
    BY <1>3, <2>1
  <2>3. {R[i].key : i \in {j \in DOMAIN R : ~Numeric(R[j].val)}} \subseteq {n, Lower[n]}
    BY <1>6
  <2>4. invalid \subseteq invalid' /\ invalid' \ invalid \subseteq {n, Lower[n]}
    BY <1>3, <2>3
  <2>5. given = {}
    BY <1>6 DEF Same
  <2>6. Distinct => Reference(n) = {None}
    BY <1>0, <1>2, <2>5
  <2> QED BY <2>2, <2>4, <2>6 DEF NothingFound
<1> QED BY <1>4, <1>5, <1>6

LEMMA AskInv ==
    ASSUME LookupInv, NEW n \in LookupName, Ask(n)
    PROVE  LookupInv'
<1>1. /\ UNCHANGED <<raw, rawPoints, lookupPool, readings>> /\ MapsBuilt /\ Remembered
      /\ \/ AskCached(n)
         \/ /\ pointNorm' \in IF pointNorm = NotBuilt THEN {{f} : f \in Lowered(PointRaw)} ELSE {pointNorm}
            /\ \/ AskPoint(n)
               \/ /\ normalized' \in IF n \in DOMAIN raw \/ normalized # NotBuilt
                                     THEN {normalized} ELSE {{f} : f \in Lowered(raw)}
                  /\ AskRaw(n)
  BY DEF Ask, LookupInv
<1>2. raw' = raw /\ PointRaw' = PointRaw
  BY <1>1 DEF PointRaw
<1>3. \A maps, F : Built(maps, F) <=> \E f \in Lowered(F) : maps = {f}
  BY DEF Built
<1>4. CASE AskCached(n)
  <2>1. normalized' = normalized /\ pointNorm' = pointNorm
    BY <1>4 DEF AskCached
  <2>2. MapsBuilt'
    BY <1>1, <1>2, <2>1 DEF MapsBuilt, NotBuilt
  <2>3. Remembered' /\ LookupSound'
    BY <1>1, <1>4, CachedIs, AnswerInv
  <2> QED BY <2>2, <2>3 DEF LookupInv
<1>5. ASSUME pointNorm' \in IF pointNorm = NotBuilt THEN {{f} : f \in Lowered(PointRaw)} ELSE {pointNorm},
             \/ AskPoint(n)
             \/ /\ normalized' \in IF n \in DOMAIN raw \/ normalized # NotBuilt
                                   THEN {normalized} ELSE {{f} : f \in Lowered(raw)}
                /\ AskRaw(n)
      PROVE  LookupInv'
  <2>1. Built(pointNorm', PointRaw)
    BY <1>1, <1>5 DEF MapsBuilt, Built
  <2>2. (normalized = NotBuilt \/ Built(normalized, raw)) => (normalized' = NotBuilt \/ Built(normalized', raw))
    <3>1. CASE AskPoint(n)
      BY <3>1 DEF AskPoint
    <3>2. CASE AskRaw(n) /\ normalized' \in IF n \in DOMAIN raw \/ normalized # NotBuilt
                                            THEN {normalized} ELSE {{f} : f \in Lowered(raw)}
      BY <3>2 DEF Built
    <3> QED BY <1>5, <3>1, <3>2
  <2>3. normalized = NotBuilt \/ Built(normalized, raw)
    BY <1>1 DEF MapsBuilt
  <2>4. MapsBuilt'
    BY <1>2, <2>1, <2>2, <2>3 DEF MapsBuilt, NotBuilt
  <2>5. NothingFound(n) \/ \E v : FoundValue(n, v)
    <3>1. CASE AskPoint(n)
      BY <2>1, <3>1, PointIs
    <3>2. CASE AskRaw(n) /\ normalized' \in IF n \in DOMAIN raw \/ normalized # NotBuilt
                                            THEN {normalized} ELSE {{f} : f \in Lowered(raw)}
      <4>1. n \in DOMAIN raw \/ Built(normalized', raw)
        BY <2>3, <3>2 DEF Built
      <4> QED BY <2>1, <3>2, <4>1, RawIs
    <3> QED BY <1>5, <3>1, <3>2
  <2>6. Remembered' /\ LookupSound'
    BY <1>1, <2>5, AnswerInv
  <2> QED BY <2>4, <2>6 DEF LookupInv
<1> QED BY <1>1, <1>4, <1>5

LEMMA LookupInit == FieldLookupInit => LookupInv
BY DEF FieldLookupInit, LookupInv, MapsBuilt, Remembered, LookupSound, AnswerFromReading, CacheTransparent,
       NoAnswer, Empty

LEMMA LookupNextInv == LookupInv /\ [FieldLookupNext]_FieldLookupVars => LookupInv'
<1> SUFFICES ASSUME LookupInv, [FieldLookupNext]_FieldLookupVars PROVE LookupInv'
  OBVIOUS
<1>1. ASSUME NEW n \in LookupName, Ask(n) PROVE LookupInv'
  BY <1>1, AskInv
<1>2. CASE NextReading
  <2>1. /\ parsed' = Empty /\ invalid' = {} /\ normalized' = NotBuilt /\ pointNorm' = NotBuilt
        /\ askedBefore' = 0 /\ answer' = NoAnswer
    BY <1>2 DEF NextReading, Released
  <2>2. DOMAIN parsed' = {} /\ answer'.val = None
    BY <2>1 DEF Empty, NoAnswer
  <2> QED BY <2>1, <2>2 DEF LookupInv, MapsBuilt, Remembered, LookupSound, AnswerFromReading, CacheTransparent
<1>3. CASE UNCHANGED FieldLookupVars
  <2>1. UNCHANGED <<raw, rawPoints, normalized, pointNorm, parsed, invalid, askedBefore, answer>>
    BY <1>3 DEF FieldLookupVars
  <2>2. PointRaw' = PointRaw
    BY <2>1 DEF PointRaw
  <2>3. /\ Distinct' <=> Distinct
        /\ \A m : ValuesOf(m)' = ValuesOf(m) /\ Reference(m)' = Reference(m)
    BY <2>1, <2>2 DEF Distinct, Reported, ValuesOf, Reference
  <2>4. MapsBuilt'
    BY <2>1, <2>2 DEF LookupInv, MapsBuilt, NotBuilt
  <2>5. Remembered'
    BY <2>1, <2>3 DEF LookupInv, Remembered
  <2>6. AnswerFromReading'
    BY <2>1, <2>3 DEF LookupInv, LookupSound, AnswerFromReading
  <2>7. CacheTransparent'
    BY <2>1, <2>3 DEF LookupInv, LookupSound, CacheTransparent, Distinct
  <2> QED BY <2>4, <2>5, <2>6, <2>7 DEF LookupInv, LookupSound
<1> QED BY <1>1, <1>2, <1>3 DEF FieldLookupNext

\* A rule is compared with a number of this very reading under its field's
\* name, and where no names differ only in case with the one the reading alone
\* says, whatever was asked before and whatever readings the pooled maps have
\* served (numericFieldLookup), for any names, points and numbers of rules.
THEOREM LookupsSound == FieldLookupSpec => []LookupSound
<1>1. LookupInv => LookupSound
  BY DEF LookupInv
<1> QED BY <1>1, LookupInit, LookupNextInv, PTL DEF FieldLookupSpec

-----------------------------------------------------------------------------
(* CollectBatch: what the tables have once the batch at hand is written.    *)

BatchRow == [key : RawName, val : Nat]
Valids == {i \in DOMAIN points : Valid(i)}
PointNames == {Named(i) : i \in Valids}
\* The points of name k that have been appended, of those before n.
Under(k, n) == {i \in Valids : Named(i) = k /\ i < n}
KeptFields == fields \ Overridden

\* Rows b has a row of every key it has that no later one overrides.
LastOf(b, k, i) ==
    i \in DOMAIN b /\ b[i].key = k /\ \A j \in DOMAIN b : b[j].key = k => j <= i
Keys(b) == {b[i].key : i \in DOMAIN b}
HasLast(b) == \A k \in Keys(b) : \E i \in DOMAIN b : LastOf(b, k, i)

\* Table T with the rows of b has what was appended, and nothing else: the
\* fields that no point overrides, and of each name the last point so far.
HasKey(b, T, k) == k \in DOMAIN T \/ k \in Keys(b)
Gives(b, T, k, v) ==
    \/ \E i \in DOMAIN b : LastOf(b, k, i) /\ b[i].val = v
    \/ k \in DOMAIN T /\ k \notin Keys(b) /\ T[k] = v
Latest(k, n, v) ==
    \/ Under(k, n) = {} /\ v = 0
    \/ v \in Under(k, n) /\ \A j \in Under(k, n) : j <= v
SoFar(b, T) ==
    /\ T = [k \in DOMAIN T |-> T[k]]
    /\ \A k : HasKey(b, T, k) <=> k \in KeptFields \ todo \/ Under(k, nextPoint) # {}
    /\ \A k, v : Gives(b, T, k, v) => Latest(k, nextPoint, v)

BatchTypes ==
    /\ points \in Seq(RawName) /\ IsFiniteSet(fields) /\ stored \in BOOLEAN
    /\ todo \subseteq fields /\ nextPoint \in 1 .. Len(points) + 1
    /\ batch \in Seq(BatchRow)
    /\ outcome \in {"running", "ok", "failed"} /\ HasLast(batch)
Tables ==
    /\ history # Nothing => stored /\ outcome = "ok"
    /\ stored /\ written # Nothing => outcome = "ok"
    /\ outcome = "running" =>
        IF stored THEN SoFar(batch, inTx.cache) /\ SoFar(batch, inTx.rows) ELSE SoFar(batch, written)
    \* What has reached the cache by itself of a field's value stays true.
    /\ ~stored => \A k \in DOMAIN written : written[k] = 0 => k \in KeptFields
CountedRows ==
    stored /\ outcome = "running" =>
        historyCount = Cardinality({i \in Valids : i < nextPoint}) + Cardinality(KeptFields \ todo)

\* The inductive invariant.
BatchInv == BatchTypes /\ Tables /\ CountedRows /\ ReadingWritten

LEMMA LastIsOne ==
    ASSUME NEW b \in Seq(BatchRow), NEW k, NEW i, NEW j, LastOf(b, k, i), LastOf(b, k, j)
    PROVE  i = j
<1>1. i \in Nat /\ j \in Nat /\ i <= j /\ j <= i
  BY DEF LastOf
<1> QED BY <1>1

\* A row more: it is the last one of its key.
LEMMA RowAppended ==
    ASSUME NEW b \in Seq(BatchRow), HasLast(b), NEW r \in BatchRow
    PROVE  /\ Append(b, r) \in Seq(BatchRow) /\ HasLast(Append(b, r))
           /\ Keys(Append(b, r)) = Keys(b) \cup {r.key}
           /\ \A k, i : k # r.key => (LastOf(Append(b, r), k, i) <=> LastOf(b, k, i))
           /\ \A i \in DOMAIN b : Append(b, r)[i] = b[i]
           /\ \A i : LastOf(Append(b, r), r.key, i) => Append(b, r)[i] = r
<1> DEFINE c == Append(b, r)
           n == Len(b) + 1
<1>1. c \in Seq(BatchRow) /\ DOMAIN c = 1 .. n /\ DOMAIN b = 1 .. n - 1 /\ n \in Nat /\ n >= 1
  OBVIOUS
<1>2. c[n] = r /\ \A i \in DOMAIN b : c[i] = b[i]
  OBVIOUS
<1>3. DOMAIN c = DOMAIN b \cup {n} /\ n \notin DOMAIN b /\ \A i \in DOMAIN b : i <= n
  BY <1>1
<1> HIDE DEF c, n
<1>4. Keys(c) = Keys(b) \cup {r.key}
  BY <1>2, <1>3 DEF Keys
<1>5. ASSUME NEW k, NEW i, k # r.key PROVE LastOf(c, k, i) <=> LastOf(b, k, i)
  BY <1>2, <1>3, <1>5 DEF LastOf
<1>6. LastOf(c, r.key, n)
  BY <1>1, <1>2, <1>3 DEF LastOf
<1>7. ASSUME NEW i, LastOf(c, r.key, i) PROVE c[i] = r
  BY <1>1, <1>2, <1>6, <1>7, LastIsOne
<1>8. HasLast(c)
  <2> SUFFICES ASSUME NEW k \in Keys(c) PROVE \E i \in DOMAIN c : LastOf(c, k, i)
    BY DEF HasLast
  <2>1. CASE k = r.key
    BY <1>6, <2>1 DEF LastOf
  <2>2. CASE k # r.key
    BY <1>3, <1>4, <1>5, <2>2 DEF HasLast
  <2> QED BY <2>1, <2>2
<1> QED BY <1>1, <1>2, <1>4, <1>5, <1>7, <1>8 DEF c

\* What a batch gives after a row more.
LEMMA GivesAppended ==
    ASSUME NEW b \in Seq(BatchRow), HasLast(b), NEW r \in BatchRow, NEW T
    PROVE  /\ \A k : HasKey(Append(b, r), T, k) <=> HasKey(b, T, k) \/ k = r.key
           /\ \A k, v : k # r.key /\ Gives(Append(b, r), T, k, v) => Gives(b, T, k, v)
           /\ \A v : Gives(Append(b, r), T, r.key, v) => v = r.val
<1> DEFINE c == Append(b, r)
<1>1. /\ Keys(c) = Keys(b) \cup {r.key}
      /\ \A k, i : k # r.key => (LastOf(c, k, i) <=> LastOf(b, k, i))
      /\ \A i \in DOMAIN b : c[i] = b[i]
      /\ \A i : LastOf(c, r.key, i) => c[i] = r
  BY RowAppended
<1> HIDE DEF c
<1>2. \A k : HasKey(c, T, k) <=> HasKey(b, T, k) \/ k = r.key
  BY <1>1 DEF HasKey
<1>3. ASSUME NEW k, NEW v, k # r.key, Gives(c, T, k, v) PROVE Gives(b, T, k, v)
  <2>1. CASE \E i \in DOMAIN c : LastOf(c, k, i) /\ c[i].val = v
    <3>1. PICK i \in DOMAIN c : LastOf(c, k, i) /\ c[i].val = v
      BY <2>1
    <3>2. LastOf(b, k, i) /\ i \in DOMAIN b
      BY <1>1, <1>3, <3>1 DEF LastOf
    <3> QED BY <1>1, <3>1, <3>2 DEF Gives
  <2>2. CASE k \in DOMAIN T /\ k \notin Keys(c) /\ T[k] = v
    BY <1>1, <2>2 DEF Gives
  <2> QED BY <1>3, <2>1, <2>2 DEF Gives
<1>4. ASSUME NEW v, Gives(c, T, r.key, v) PROVE v = r.val
  BY <1>1, <1>4 DEF Gives
<1> QED BY <1>2, <1>3, <1>4 DEF c

\* A batch written is a table of its own, and gives the same.
LEMMA GivesWritten ==
    ASSUME HasLast(batch), batch \in Seq(BatchRow), NEW T
    PROVE  /\ Upsert(T) = [k \in DOMAIN Upsert(T) |-> Upsert(T)[k]]
           /\ \A k : k \in DOMAIN Upsert(T) <=> HasKey(batch, T, k)
           /\ \A k \in DOMAIN Upsert(T) : Gives(batch, T, k, Upsert(T)[k])
<1> DEFINE last(k) == CHOOSE i \in DOMAIN batch :
                        batch[i].key = k /\ \A j \in DOMAIN batch : batch[j].key = k => j <= i
           U == Upsert(T)
<1>1. U = [k \in DOMAIN T \cup Keys(batch) |-> IF k \in Keys(batch) THEN batch[last(k)].val ELSE T[k]]
  BY DEF Upsert, Keys
<1>2. DOMAIN U = DOMAIN T \cup Keys(batch)
  BY <1>1
<1>3. U = [k \in DOMAIN U |-> U[k]]
  BY <1>1
<1>4. ASSUME NEW k \in DOMAIN U PROVE Gives(batch, T, k, U[k])
  <2>1. CASE k \in Keys(batch)
    <3>1. U[k] = batch[last(k)].val
      BY <1>1, <2>1
    <3>2. PICK i \in DOMAIN batch : LastOf(batch, k, i)
      BY <2>1 DEF HasLast
    <3>3. LastOf(batch, k, last(k))
      BY <3>2 DEF LastOf
    <3> HIDE DEF last
    <3> QED BY <3>1, <3>3 DEF Gives, LastOf
  <2>2. CASE k \notin Keys(batch)
    <3>1. U[k] = T[k] /\ k \in DOMAIN T
      BY <1>1, <1>2, <2>2
    <3> QED BY <2>2, <3>1 DEF Gives
  <2> QED BY <2>1, <2>2
<1> HIDE DEF U
<1>5. \A k : k \in DOMAIN U <=> HasKey(batch, T, k)
  BY <1>2 DEF HasKey
<1> QED BY <1>3, <1>4, <1>5 DEF U

\* An empty batch gives what the table has.
LEMMA EmptyGives ==
    ASSUME NEW T
    PROVE  /\ \A k : HasKey(<<>>, T, k) <=> k \in DOMAIN T
           /\ \A k, v : Gives(<<>>, T, k, v) <=> k \in DOMAIN T /\ T[k] = v
           /\ HasLast(<<>>) /\ <<>> \in Seq(BatchRow)
BY SMT DEF HasKey, Gives, Keys, HasLast, LastOf

\* What the sets of a reading are made of.
LEMMA PointFacts ==
    ASSUME BatchTypes
    PROVE  /\ DOMAIN points = 1 .. Len(points) /\ Len(points) \in Nat
           /\ \A i \in DOMAIN points : points[i] \in RawName /\ i \in Nat /\ i >= 1
           /\ Valids \subseteq DOMAIN points
           /\ \A k, n : Under(k, n) \subseteq DOMAIN points
           /\ \A k \in KeptFields : \A n : Under(k, n) = {}
           /\ KeptFields \subseteq fields
<1>1. DOMAIN points = 1 .. Len(points) /\ Len(points) \in Nat /\ \A i \in DOMAIN points : points[i] \in RawName
  BY DEF BatchTypes
<1>2. Valids \subseteq DOMAIN points /\ \A k, n : Under(k, n) \subseteq DOMAIN points
  BY DEF Valids, Under
<1>3. ASSUME NEW k \in KeptFields, NEW n PROVE Under(k, n) = {}
  BY DEF KeptFields, Under, Overridden, Valids
<1> QED BY <1>1, <1>2, <1>3 DEF KeptFields

\* A row of key and val is appended, and Under grows with it.
LEMMA RowFollows ==
    ASSUME NEW T, NEW key, NEW val, [key |-> key, val |-> val] \in BatchRow, batch \in Seq(BatchRow), HasLast(batch),
           SoFar(batch, T), Latest(key, nextPoint, val)',
           \A k : k # key => Under(k, nextPoint)' = Under(k, nextPoint),
           \A k : (k \in KeptFields \ todo)' \/ (Under(k, nextPoint) # {})'
                    <=> k \in KeptFields \ todo \/ Under(k, nextPoint) # {} \/ k = key,
           batch' = Append(batch, [key |-> key, val |-> val])
    PROVE  (\A k : HasKey(batch', T, k) <=> k \in KeptFields' \ todo' \/ Under(k, nextPoint)' # {})
           /\ (\A k, v : Gives(batch', T, k, v) => Latest(k, nextPoint, v)')
<1> DEFINE r == [key |-> key, val |-> val]
<1>1. r \in BatchRow /\ r.key = key /\ r.val = val /\ batch' = Append(batch, r)
  OBVIOUS
<1> HIDE DEF r
<1> DEFINE b == batch
           c == Append(b, r)
<1>0. b \in Seq(BatchRow) /\ HasLast(b)
  OBVIOUS
<1> HIDE DEF b
<1>5. /\ \A k : HasKey(c, T, k) <=> HasKey(b, T, k) \/ k = r.key
      /\ \A k, v : k # r.key /\ Gives(c, T, k, v) => Gives(b, T, k, v)
      /\ \A v : Gives(c, T, r.key, v) => v = r.val
  BY <1>0, <1>1, GivesAppended
<1>6. c = batch' /\ b = batch
  BY <1>1 DEF b
<1> HIDE DEF c
<1>2. /\ \A k : HasKey(batch', T, k) <=> HasKey(batch, T, k) \/ k = key
      /\ \A k, v : k # key /\ Gives(batch', T, k, v) => Gives(batch, T, k, v)
      /\ \A v : Gives(batch', T, key, v) => v = val
  BY <1>1, <1>5, <1>6
<1>3. \A k : HasKey(batch', T, k) <=> k \in KeptFields' \ todo' \/ Under(k, nextPoint)' # {}
  BY <1>2 DEF SoFar
<1>4. ASSUME NEW k, NEW v, Gives(batch', T, k, v) PROVE Latest(k, nextPoint, v)'
  <2>1. CASE k = key
    BY <1>2, <1>4, <2>1
  <2>2. CASE k # key
    <3>1. Latest(k, nextPoint, v)
      BY <1>2, <1>4, <2>2 DEF SoFar
    <3> QED BY <2>2, <3>1 DEF Latest
  <2> QED BY <2>1, <2>2
<1> QED BY <1>3, <1>4

LEMMA BatchInit == CollectBatchInit => BatchInv
<1> SUFFICES ASSUME CollectBatchInit PROVE BatchInv
  OBVIOUS
<1>1. /\ fields \in FieldKeys /\ stored \in BOOLEAN /\ todo = fields /\ nextPoint = 1 /\ batch = <<>>
      /\ written = Nothing /\ history = Nothing /\ inTx = [cache |-> Nothing, rows |-> Nothing]
      /\ historyCount = 0 /\ outcome = "running"
  BY DEF CollectBatchInit
<1>2. points \in Seq(RawName)
  <2>1. PICK n \in Nat : points \in [1 .. n -> RawName]
    BY CollectBatchAssumption DEF CollectBatchInit
  <2> QED BY <2>1
<1>3. IsFiniteSet(fields)
  BY <1>1, CollectBatchAssumption
<1>4. HasLast(<<>>) /\ <<>> \in Seq(BatchRow)
  BY EmptyGives
<1>5. BatchTypes
  BY <1>1, <1>2, <1>3, <1>4 DEF BatchTypes
<1>6. KeptFields \ todo = {} /\ \A k : Under(k, nextPoint) = {}
  <2>1. \A k : Under(k, 1) = {}
    BY <1>5, PointFacts DEF Under, Valids
  <2> QED BY <1>1, <2>1 DEF KeptFields
<1>7. SoFar(batch, Nothing)
  <2>1. /\ \A k : HasKey(batch, Nothing, k) <=> k \in DOMAIN Nothing
        /\ \A k, v : Gives(batch, Nothing, k, v) <=> k \in DOMAIN Nothing /\ Nothing[k] = v
    BY <1>1, EmptyGives
  <2>2. DOMAIN Nothing = {} /\ Nothing = [k \in DOMAIN Nothing |-> Nothing[k]]
    BY DEF Nothing
  <2> QED BY <1>6, <2>1, <2>2 DEF SoFar
<1>8. Tables
  BY <1>1, <1>7 DEF Tables, Nothing
<1>9. CountedRows
  <2>1. {i \in Valids : i < nextPoint} = {}
    BY <1>1, <1>5, PointFacts DEF Valids
  <2>2. Cardinality({i \in Valids : i < nextPoint}) = 0 /\ Cardinality(KeptFields \ todo) = 0
    BY <1>6, <2>1, FS_EmptySet
  <2> QED BY <1>1, <2>2 DEF CountedRows
<1>10. ReadingWritten
  BY <1>1 DEF ReadingWritten
<1> QED BY <1>5, <1>8, <1>9, <1>10 DEF BatchInv

\* A row is appended: the tables stay, and give what has been appended.
LEMMA TablesGrow ==
    ASSUME BatchInv, outcome = "running",
           NEW key, NEW val, [key |-> key, val |-> val] \in BatchRow, AppendRow(key, val),
           Latest(key, nextPoint, val)', KeptFields' = KeptFields,
           \A k : k # key => Under(k, nextPoint)' = Under(k, nextPoint),
           \A k : (k \in KeptFields \ todo)' \/ (Under(k, nextPoint) # {})'
                    <=> k \in KeptFields \ todo \/ Under(k, nextPoint) # {} \/ k = key
    PROVE  Tables' /\ batch' \in Seq(BatchRow) /\ HasLast(batch')
<1>1. /\ UNCHANGED <<reading, written, history, inTx, outcome>>
      /\ batch' = Append(batch, [key |-> key, val |-> val])
  BY DEF AppendRow
<1>2. batch \in Seq(BatchRow) /\ HasLast(batch) /\ Tables /\ outcome' = "running"
  BY <1>1 DEF BatchInv, BatchTypes
<1>3. batch' \in Seq(BatchRow) /\ HasLast(batch')
  <2> DEFINE b == batch
             r == [key |-> key, val |-> val]
  <2>1. b \in Seq(BatchRow) /\ HasLast(b) /\ r \in BatchRow
    BY <1>2
  <2> HIDE DEF b, r
  <2>2. Append(b, r) \in Seq(BatchRow) /\ HasLast(Append(b, r))
    BY <2>1, RowAppended
  <2>3. batch' = Append(b, r)
    BY <1>1 DEF b, r
  <2> QED BY <2>2, <2>3
<1>4. ASSUME NEW T, SoFar(batch, T)
      PROVE  /\ T = [k \in DOMAIN T |-> T[k]]
             /\ \A k : HasKey(batch', T, k) <=> k \in KeptFields' \ todo' \/ Under(k, nextPoint)' # {}
             /\ \A k, v : Gives(batch', T, k, v) => Latest(k, nextPoint, v)'
  <2>1. T = [k \in DOMAIN T |-> T[k]]
    BY <1>4 DEF SoFar
  <2>2. /\ \A k : HasKey(batch', T, k) <=> k \in KeptFields' \ todo' \/ Under(k, nextPoint)' # {}
        /\ \A k, v : Gives(batch', T, k, v) => Latest(k, nextPoint, v)'
    BY <1>1, <1>2, <1>4, RowFollows
  <2> QED BY <2>1, <2>2
<1>5. SoFar(batch, written) => SoFar(batch, written)'
  <2> SUFFICES ASSUME SoFar(batch, written) PROVE SoFar(batch, written)'
    OBVIOUS
  <2> DEFINE T == written
  <2>1. SoFar(batch, T) /\ T = written /\ T = written'
    BY <1>1
  <2> HIDE DEF T
  <2>2. /\ T = [k \in DOMAIN T |-> T[k]]
        /\ \A k : HasKey(batch', T, k) <=> k \in KeptFields' \ todo' \/ Under(k, nextPoint)' # {}
        /\ \A k, v : Gives(batch', T, k, v) => Latest(k, nextPoint, v)'
    BY <1>4, <2>1
  <2> QED BY <2>1, <2>2 DEF SoFar
<1>6. SoFar(batch, inTx.cache) => SoFar(batch, inTx.cache)'
  <2> SUFFICES ASSUME SoFar(batch, inTx.cache) PROVE SoFar(batch, inTx.cache)'
    OBVIOUS
  <2> DEFINE T == inTx.cache
  <2>1. SoFar(batch, T) /\ T = inTx.cache /\ T = inTx.cache'
    BY <1>1
  <2> HIDE DEF T
  <2>2. /\ T = [k \in DOMAIN T |-> T[k]]
        /\ \A k : HasKey(batch', T, k) <=> k \in KeptFields' \ todo' \/ Under(k, nextPoint)' # {}
        /\ \A k, v : Gives(batch', T, k, v) => Latest(k, nextPoint, v)'
    BY <1>4, <2>1
  <2> QED BY <2>1, <2>2 DEF SoFar
<1>7. SoFar(batch, inTx.rows) => SoFar(batch, inTx.rows)'
  <2> SUFFICES ASSUME SoFar(batch, inTx.rows) PROVE SoFar(batch, inTx.rows)'
    OBVIOUS
  <2> DEFINE T == inTx.rows
  <2>1. SoFar(batch, T) /\ T = inTx.rows /\ T = inTx.rows'
    BY <1>1
  <2> HIDE DEF T
  <2>2. /\ T = [k \in DOMAIN T |-> T[k]]
        /\ \A k : HasKey(batch', T, k) <=> k \in KeptFields' \ todo' \/ Under(k, nextPoint)' # {}
        /\ \A k, v : Gives(batch', T, k, v) => Latest(k, nextPoint, v)'
    BY <1>4, <2>1
  <2> QED BY <2>1, <2>2 DEF SoFar
<1>8. Tables'
  <2>1. stored' = stored /\ written' = written /\ history' = history /\ outcome' = outcome
    BY <1>1 DEF reading
  <2>2. IF stored' THEN SoFar(batch, inTx.cache)' /\ SoFar(batch, inTx.rows)' ELSE SoFar(batch, written)'
    BY <1>2, <1>5, <1>6, <1>7, <2>1 DEF Tables
  <2>3. /\ history' # Nothing => stored' /\ outcome' = "ok"
        /\ stored' /\ written' # Nothing => outcome' = "ok"
        /\ ~stored' => \A k \in DOMAIN written' : written'[k] = 0 => k \in KeptFields'
    BY <1>2, <2>1 DEF Tables
  <2> QED BY <2>2, <2>3 DEF Tables
<1> QED BY <1>3, <1>8

\* What is counted is finite.
LEMMA CountsFinite ==
    ASSUME BatchTypes
    PROVE  IsFiniteSet(KeptFields) /\ IsFiniteSet(Valids) /\ \A n : IsFiniteSet({i \in Valids : i < n})
<1>1. IsFiniteSet(KeptFields)
  BY PointFacts, FS_Subset DEF BatchTypes
<1>2. IsFiniteSet(1 .. Len(points))
  BY PointFacts, FS_Interval
<1>3. IsFiniteSet(Valids)
  BY <1>2, PointFacts, FS_Subset
<1>4. ASSUME NEW n PROVE IsFiniteSet({i \in Valids : i < n})
  BY <1>3, FS_Subset
<1> QED BY <1>1, <1>3, <1>4

LEMMA AppendFieldInv ==
    ASSUME BatchInv, NEW k \in FieldName \X BOOLEAN, AppendField(k)
    PROVE  BatchInv'
<1>1. /\ BatchTypes /\ Tables /\ CountedRows /\ outcome = "running" /\ k \in todo /\ k \notin Overridden
      /\ todo' = todo \ {k} /\ nextPoint' = nextPoint /\ AppendRow(k, 0)
      /\ points' = points /\ fields' = fields /\ stored' = stored /\ outcome' = outcome
  BY DEF BatchInv, AppendField, AppendRow, TakesField, reading
<1>2. k \in KeptFields /\ KeptFields' = KeptFields /\ Valids' = Valids
  BY <1>1 DEF KeptFields, Overridden, Valids, Valid, Named, BatchTypes
<1>3. \A j : Under(j, nextPoint)' = Under(j, nextPoint)
  BY <1>1, <1>2 DEF Under, Valids, Valid, Named
<1>4. KeptFields' \ todo' = (KeptFields \ todo) \cup {k} /\ k \notin KeptFields \ todo
  BY <1>1, <1>2
<1>5. Latest(k, nextPoint, 0)'
  BY <1>1, <1>2, <1>3, PointFacts DEF Latest
<1>6. [key |-> k, val |-> 0] \in BatchRow
  BY DEF BatchRow, RawName
<1>7. \A j : (j \in KeptFields \ todo)' \/ (Under(j, nextPoint) # {})'
               <=> j \in KeptFields \ todo \/ Under(j, nextPoint) # {} \/ j = k
  BY <1>3, <1>4
<1>8. Tables' /\ batch' \in Seq(BatchRow) /\ HasLast(batch')
  BY <1>1, <1>2, <1>3, <1>5, <1>6, <1>7, TablesGrow
<1>9. BatchTypes'
  BY <1>1, <1>8 DEF BatchTypes
<1>10. CountedRows'
  <2> SUFFICES ASSUME stored
               PROVE  historyCount' = Cardinality({i \in Valids : i < nextPoint}') + Cardinality(KeptFields' \ todo')
    BY <1>1 DEF CountedRows
  <2>1. {i \in Valids : i < nextPoint}' = {i \in Valids : i < nextPoint}
    BY <1>1, <1>2
  <2>2. IsFiniteSet(KeptFields \ todo) /\ IsFiniteSet({i \in Valids : i < nextPoint})
    BY <1>1, CountsFinite, FS_Difference
  <2>3. Cardinality(KeptFields' \ todo') = Cardinality(KeptFields \ todo) + 1
    BY <1>4, <2>2, FS_AddElement
  <2>4. historyCount' = historyCount + 1
    BY <1>1 DEF AppendRow
  <2>5. historyCount = Cardinality({i \in Valids : i < nextPoint}) + Cardinality(KeptFields \ todo)
    BY <1>1 DEF CountedRows
  <2>6. Cardinality(KeptFields \ todo) \in Nat /\ Cardinality({i \in Valids : i < nextPoint}) \in Nat
    BY <2>2, FS_CardinalityType
  <2> DEFINE a == Cardinality(KeptFields \ todo)
             b == Cardinality({i \in Valids : i < nextPoint})
             c == Cardinality(KeptFields' \ todo')
             d == Cardinality({i \in Valids : i < nextPoint}')
  <2>7. a \in Nat /\ b \in Nat /\ c = a + 1 /\ d = b /\ historyCount = b + a
    BY <2>1, <2>3, <2>5, <2>6
  <2> HIDE DEF a, b, c, d
  <2>8. historyCount' = d + c
    BY <2>4, <2>7
  <2> QED BY <2>8 DEF c, d
<1>11. ReadingWritten'
  BY <1>1 DEF ReadingWritten
<1> QED BY <1>8, <1>9, <1>10, <1>11 DEF BatchInv

LEMMA AppendPointInv ==
    ASSUME BatchInv, AppendPoint
    PROVE  BatchInv'
<1> SUFFICES ASSUME NEW n, n = nextPoint, NEW key, key = Named(n) PROVE BatchInv'
  OBVIOUS
<1>1. /\ BatchTypes /\ Tables /\ CountedRows /\ outcome = "running" /\ n <= Len(points) /\ nextPoint' = n + 1
      /\ todo' = todo /\ points' = points /\ fields' = fields /\ stored' = stored /\ outcome' = outcome
      /\ IF Valid(n) THEN AppendRow(key, n)
         ELSE UNCHANGED <<reading, batch, written, history, inTx, historyCount, outcome>>
  BY DEF BatchInv, AppendPoint, AppendRow, reading
<1>2. /\ n \in DOMAIN points /\ n \in Nat /\ n >= 1 /\ n + 1 \in 1 .. Len(points) + 1
      /\ \A i \in DOMAIN points : i \in Nat /\ (i < n + 1 <=> i < n \/ i = n)
  BY <1>1, PointFacts DEF BatchTypes
<1>3. KeptFields' = KeptFields /\ Valids' = Valids /\ \A i : (Named(i)' = Named(i) /\ Valid(i)' = Valid(i))
  BY <1>1 DEF KeptFields, Overridden, Valids, Valid, Named
<1>4. ReadingWritten'
  BY <1>1 DEF ReadingWritten
<1>5. \A k : Under(k, nextPoint)' = IF Valid(n) /\ key = k THEN Under(k, n) \cup {n} ELSE Under(k, n)
  <2> SUFFICES ASSUME NEW k
               PROVE  Under(k, nextPoint)' = IF Valid(n) /\ key = k THEN Under(k, n) \cup {n} ELSE Under(k, n)
    OBVIOUS
  <2>1. Under(k, nextPoint)' = {i \in Valids : Named(i) = k /\ i < n + 1}
    BY <1>1, <1>3 DEF Under
  <2>2. Under(k, n) = {i \in Valids : Named(i) = k /\ i < n}
    BY DEF Under
  <2>3. n \in Valids <=> Valid(n)
    BY <1>2 DEF Valids
  <2>4. \A i \in Valids : i < n + 1 <=> i < n \/ i = n
    BY <1>2 DEF Valids
  <2> QED BY <2>1, <2>2, <2>3, <2>4
<1>6. CASE ~Valid(n)
  <2>1. UNCHANGED <<batch, written, history, inTx, historyCount>> /\ \A k : Under(k, nextPoint)' = Under(k, n)
    BY <1>1, <1>5, <1>6
  <2>2. BatchTypes'
    BY <1>1, <1>2, <2>1 DEF BatchTypes
  <2>3. \A T : SoFar(batch, T) => /\ T = [k \in DOMAIN T |-> T[k]]
                                  /\ \A k : HasKey(batch, T, k) <=> k \in KeptFields' \ todo' \/ Under(k, nextPoint)' # {}
                                  /\ \A k, v : Gives(batch, T, k, v) => Latest(k, nextPoint, v)'
    <3> SUFFICES ASSUME NEW T, SoFar(batch, T)
                 PROVE  /\ T = [k \in DOMAIN T |-> T[k]]
                        /\ \A k : HasKey(batch, T, k) <=> k \in KeptFields' \ todo' \/ Under(k, nextPoint)' # {}
                        /\ \A k, v : Gives(batch, T, k, v) => Latest(k, nextPoint, v)'
      OBVIOUS
    <3>1. \A k, v : Latest(k, nextPoint, v)' <=> Latest(k, nextPoint, v)
      BY <2>1 DEF Latest
    <3>2. T = [k \in DOMAIN T |-> T[k]] /\ \A k, v : Gives(batch, T, k, v) => Latest(k, nextPoint, v)'
      BY <3>1 DEF SoFar
    <3>3. \A k : HasKey(batch, T, k) <=> k \in KeptFields' \ todo' \/ Under(k, nextPoint)' # {}
      BY <1>1, <1>3, <2>1 DEF SoFar
    <3> QED BY <3>2, <3>3
  <2>4. batch' = batch /\ written' = written /\ inTx' = inTx
    BY <2>1
  <2>5. /\ SoFar(batch, written) => SoFar(batch, written)'
        /\ SoFar(batch, inTx.cache) => SoFar(batch, inTx.cache)'
        /\ SoFar(batch, inTx.rows) => SoFar(batch, inTx.rows)'
    <3>1. SoFar(batch, written) => SoFar(batch, written)'
      BY <2>3, <2>4 DEF SoFar
    <3>2. SoFar(batch, inTx.cache) => SoFar(batch, inTx.cache)'
      BY <2>3, <2>4 DEF SoFar
    <3>3. SoFar(batch, inTx.rows) => SoFar(batch, inTx.rows)'
      BY <2>3, <2>4 DEF SoFar
    <3> QED BY <3>1, <3>2, <3>3
  <2>6. Tables'
    BY <1>1, <1>3, <2>1, <2>5 DEF Tables
  <2>7. CountedRows'
    <3>1. {i \in Valids : i < nextPoint}' = {i \in Valids : i < n}
      <4>1. n \notin Valids /\ \A i \in Valids : i \in DOMAIN points
        BY <1>6 DEF Valids
      <4> QED BY <1>1, <1>2, <1>3, <4>1
    <3> QED BY <1>1, <1>3, <2>1, <3>1 DEF CountedRows
  <2> QED BY <1>4, <2>2, <2>6, <2>7 DEF BatchInv
<1>7. CASE Valid(n)
  <2>1. AppendRow(key, n)
    BY <1>1, <1>7
  <2>2. [key |-> key, val |-> n] \in BatchRow
    <3>1. points[n] \in RawName
      BY <1>2, <1>1, PointFacts
    <3>2. key \in RawName
      <4>1. CASE points[n] = Blank
        <5>1. Blank[1] = ""
          BY DEF Blank
        <5>2. key = Blank
          BY <4>1, <5>1, Zenon DEF Named, Trim, Blank
        <5> QED BY <5>2 DEF RawName
      <4>2. CASE points[n] \in FieldName \X BOOLEAN
        BY <4>2 DEF Named, Trim, RawName
      <4> QED BY <3>1, <4>1, <4>2 DEF RawName
    <3> QED BY <1>2, <3>2 DEF BatchRow
  <2>3. Latest(key, nextPoint, n)'
    <3>1. Under(key, nextPoint)' = Under(key, n) \cup {n}
      BY <1>5, <1>7
    <3>2. \A j \in Under(key, n) : j <= n
      BY <1>1, <1>2, PointFacts DEF Under
    <3>3. n <= n
      BY <1>2
    <3> QED BY <3>1, <3>2, <3>3 DEF Latest
  <2>4. \A k : k # key => Under(k, nextPoint)' = Under(k, nextPoint)
    BY <1>5
  <2>5. \A k : (k \in KeptFields \ todo)' \/ (Under(k, nextPoint) # {})'
                 <=> k \in KeptFields \ todo \/ Under(k, nextPoint) # {} \/ k = key
    BY <1>1, <1>3, <1>5, <1>7
  <2>6. Tables' /\ batch' \in Seq(BatchRow) /\ HasLast(batch')
    BY <1>1, <1>3, <2>1, <2>2, <2>3, <2>4, <2>5, TablesGrow
  <2>7. BatchTypes'
    BY <1>1, <1>2, <2>6 DEF BatchTypes
  <2>8. CountedRows'
    <3> SUFFICES ASSUME stored
                 PROVE  historyCount' = Cardinality({i \in Valids : i < nextPoint}') + Cardinality(KeptFields' \ todo')
      BY <1>1 DEF CountedRows
    <3>1. {i \in Valids : i < nextPoint}' = {i \in Valids : i < n} \cup {n} /\ n \notin {i \in Valids : i < n}
      <4>1. n \in Valids /\ \A i \in Valids : i \in DOMAIN points
        BY <1>2, <1>7 DEF Valids
      <4> QED BY <1>1, <1>2, <1>3, <4>1
    <3>2. IsFiniteSet(KeptFields \ todo) /\ IsFiniteSet({i \in Valids : i < n})
      BY <1>1, CountsFinite, FS_Difference
    <3>3. Cardinality({i \in Valids : i < nextPoint}') = Cardinality({i \in Valids : i < n}) + 1
      BY <3>1, <3>2, FS_AddElement
    <3>4. historyCount' = historyCount + 1 /\ KeptFields' \ todo' = KeptFields \ todo
      BY <1>1, <1>3, <2>1 DEF AppendRow
    <3>5. historyCount = Cardinality({i \in Valids : i < n}) + Cardinality(KeptFields \ todo)
      BY <1>1 DEF CountedRows
    <3>6. Cardinality(KeptFields \ todo) \in Nat /\ Cardinality({i \in Valids : i < n}) \in Nat
      BY <3>2, FS_CardinalityType
    <3> DEFINE a == Cardinality(KeptFields \ todo)
               b == Cardinality({i \in Valids : i < n})
               c == Cardinality(KeptFields' \ todo')
               d == Cardinality({i \in Valids : i < nextPoint}')
    <3>7. a \in Nat /\ b \in Nat /\ c = a /\ d = b + 1 /\ historyCount = b + a
      BY <3>3, <3>4, <3>5, <3>6
    <3> HIDE DEF a, b, c, d
    <3>8. historyCount' = d + c
      BY <3>4, <3>7
    <3> QED BY <3>8 DEF c, d
  <2> QED BY <1>4, <2>6, <2>7, <2>8 DEF BatchInv
<1> QED BY <1>6, <1>7

\* The rows of the batch are written to table T, and the batch is empty.
LEMMA WrittenSoFar ==
    ASSUME BatchTypes, NEW T, SoFar(batch, T), NEW U, U = Upsert(T),
           batch' = <<>>, UNCHANGED <<reading, todo, nextPoint>>
    PROVE  /\ U = [k \in DOMAIN U |-> U[k]]
           /\ \A k : HasKey(batch', U, k) <=> k \in KeptFields' \ todo' \/ Under(k, nextPoint)' # {}
           /\ \A k, v : Gives(batch', U, k, v) => Latest(k, nextPoint, v)'
           /\ \A k \in DOMAIN U : U[k] = 0 => k \in KeptFields
<1>1. /\ U = [k \in DOMAIN U |-> U[k]]
      /\ \A k : k \in DOMAIN U <=> HasKey(batch, T, k)
      /\ \A k \in DOMAIN U : Gives(batch, T, k, U[k])
  BY GivesWritten DEF BatchTypes
<1>2. /\ \A k : HasKey(batch', U, k) <=> k \in DOMAIN U
      /\ \A k, v : Gives(batch', U, k, v) <=> k \in DOMAIN U /\ U[k] = v
  BY EmptyGives
<1>3. points' = points /\ fields' = fields /\ todo' = todo /\ nextPoint' = nextPoint
  BY DEF reading
<1>4. KeptFields' = KeptFields /\ \A k : Under(k, nextPoint)' = Under(k, nextPoint)
  BY <1>3 DEF KeptFields, Overridden, Under, Valids, Valid, Named
<1>5. \A k : HasKey(batch', U, k) <=> k \in KeptFields' \ todo' \/ Under(k, nextPoint)' # {}
  BY <1>1, <1>2, <1>3, <1>4 DEF SoFar
<1>6. \A k \in DOMAIN U : Latest(k, nextPoint, U[k])
  BY <1>1 DEF SoFar
<1>7. \A k, v : Gives(batch', U, k, v) => Latest(k, nextPoint, v)'
  BY <1>2, <1>4, <1>6 DEF Latest
<1>8. ASSUME NEW k \in DOMAIN U, U[k] = 0 PROVE k \in KeptFields
  <2>1. 0 \notin Under(k, nextPoint)
    BY PointFacts
  <2>2. Under(k, nextPoint) = {}
    BY <1>6, <1>8, <2>1 DEF Latest
  <2> QED BY <1>1, <2>2 DEF SoFar
<1> QED BY <1>1, <1>5, <1>7, <1>8

LEMMA FlushInv ==
    ASSUME BatchInv, FlushInTx \/ FlushDirect
    PROVE  BatchInv'
<1>1. /\ BatchTypes /\ Tables /\ CountedRows /\ outcome = "running" /\ batch' = <<>>
      /\ UNCHANGED <<reading, todo, nextPoint, history, historyCount, outcome>>
  BY DEF BatchInv, FlushInTx, FlushDirect, MayFlush
<1>2. points' = points /\ fields' = fields /\ stored' = stored
  BY <1>1 DEF reading
<1>3. BatchTypes'
  BY <1>1, <1>2, EmptyGives DEF BatchTypes
<1>4. KeptFields' = KeptFields /\ Valids' = Valids
  BY <1>2 DEF KeptFields, Overridden, Valids, Valid, Named
<1>5. CountedRows'
  BY <1>1, <1>2, <1>4 DEF CountedRows
<1>6. ReadingWritten'
  BY <1>1 DEF ReadingWritten
<1>7. CASE FlushInTx
  <2>1. stored /\ inTx' = [cache |-> Upsert(inTx.cache), rows |-> Upsert(inTx.rows)] /\ written' = written
    BY <1>7 DEF FlushInTx, InTx
  <2>2. SoFar(batch, inTx.cache) /\ SoFar(batch, inTx.rows)
    BY <1>1, <2>1 DEF Tables
  <2>3. SoFar(batch, inTx.cache)'
    <3>1. SUFFICES ASSUME NEW T, T = inTx.cache, NEW U, U = Upsert(T) PROVE SoFar(batch, inTx.cache)'
      OBVIOUS
    <3>2. /\ U = [k \in DOMAIN U |-> U[k]]
          /\ \A k : HasKey(batch', U, k) <=> k \in KeptFields' \ todo' \/ Under(k, nextPoint)' # {}
          /\ \A k, v : Gives(batch', U, k, v) => Latest(k, nextPoint, v)'
      BY <1>1, <2>2, <3>1, WrittenSoFar
    <3>3. inTx'.cache = U
      BY <2>1, <3>1
    <3> QED BY <3>2, <3>3 DEF SoFar
  <2>4. SoFar(batch, inTx.rows)'
    <3>1. SUFFICES ASSUME NEW T, T = inTx.rows, NEW U, U = Upsert(T) PROVE SoFar(batch, inTx.rows)'
      OBVIOUS
    <3>2. /\ U = [k \in DOMAIN U |-> U[k]]
          /\ \A k : HasKey(batch', U, k) <=> k \in KeptFields' \ todo' \/ Under(k, nextPoint)' # {}
          /\ \A k, v : Gives(batch', U, k, v) => Latest(k, nextPoint, v)'
      BY <1>1, <2>2, <3>1, WrittenSoFar
    <3>3. inTx'.rows = U
      BY <2>1, <3>1
    <3> QED BY <3>2, <3>3 DEF SoFar
  <2>5. Tables'
    BY <1>1, <1>2, <2>1, <2>3, <2>4 DEF Tables
  <2> QED BY <1>3, <1>5, <1>6, <2>5 DEF BatchInv
<1>8. CASE FlushDirect
  <2>1. ~stored /\ written' = Upsert(written) /\ inTx' = inTx
    BY <1>8 DEF FlushDirect, InTx
  <2>2. SoFar(batch, written)
    BY <1>1, <2>1 DEF Tables
  <2>3. SoFar(batch, written)' /\ \A k \in DOMAIN written' : written'[k] = 0 => k \in KeptFields
    <3>1. SUFFICES ASSUME NEW T, T = written, NEW U, U = Upsert(T)
                   PROVE  SoFar(batch, written)' /\ \A k \in DOMAIN written' : written'[k] = 0 => k \in KeptFields
      OBVIOUS
    <3>2. /\ U = [k \in DOMAIN U |-> U[k]]
          /\ \A k : HasKey(batch', U, k) <=> k \in KeptFields' \ todo' \/ Under(k, nextPoint)' # {}
          /\ \A k, v : Gives(batch', U, k, v) => Latest(k, nextPoint, v)'
          /\ \A k \in DOMAIN U : U[k] = 0 => k \in KeptFields
      BY <1>1, <2>2, <3>1, WrittenSoFar
    <3>3. written' = U
      BY <2>1, <3>1
    <3> QED BY <3>2, <3>3 DEF SoFar
  <2>4. Tables'
    BY <1>1, <1>2, <1>4, <2>1, <2>3 DEF Tables
  <2> QED BY <1>3, <1>5, <1>6, <2>4 DEF BatchInv
<1> QED BY <1>7, <1>8

\* A statement or the commit fails: nothing of a transaction is left.
LEMMA BatchFailsInv ==
    ASSUME BatchInv, FlushFails \/ CommitFails
    PROVE  BatchInv'
<1>1. /\ BatchTypes /\ Tables /\ outcome = "running" /\ outcome' = "failed"
      /\ UNCHANGED <<reading, todo, nextPoint, batch, written, history, inTx, historyCount>>
  BY DEF BatchInv, FlushFails, CommitFails, MayFlush, Ends
<1>2. points' = points /\ fields' = fields /\ stored' = stored
  BY <1>1 DEF reading
<1>3. BatchTypes' /\ KeptFields' = KeptFields
  BY <1>1, <1>2 DEF BatchTypes, KeptFields, Overridden, Valid, Named
<1>4. Tables'
  BY <1>1, <1>2, <1>3 DEF Tables
<1>5. CountedRows' /\ ReadingWritten'
  BY <1>1 DEF CountedRows, ReadingWritten
<1> QED BY <1>3, <1>4, <1>5 DEF BatchInv

\* Once all has been appended and written, a table is what the reading means.
LEMMA AllIsMeant ==
    ASSUME BatchTypes, todo \subseteq Overridden, nextPoint > Len(points), NEW T, SoFar(<<>>, T)
    PROVE  T = Meaning
<1> DEFINE named(k) == {i \in DOMAIN points : Valid(i) /\ Named(i) = k}
           names == {Named(i) : i \in {j \in DOMAIN points : Valid(j)}}
           means == fields \cup names
<1>1. \A i \in DOMAIN points : i < nextPoint
  BY PointFacts DEF BatchTypes
<1>2. \A k : Under(k, nextPoint) = named(k)
  BY <1>1 DEF Under, Valids
<1>3. \A k : k \in means <=> k \in KeptFields \ todo \/ named(k) # {}
  <2>1. Overridden = names \cap fields
    BY DEF Overridden
  <2>2. \A k : k \in names <=> named(k) # {}
    OBVIOUS
  <2> HIDE DEF names, named
  <2> QED BY <2>1, <2>2 DEF KeptFields
<1>4. /\ \A k : HasKey(<<>>, T, k) <=> k \in DOMAIN T
      /\ \A k, v : Gives(<<>>, T, k, v) <=> k \in DOMAIN T /\ T[k] = v
  BY EmptyGives
<1>5. DOMAIN T = means
  <2> HIDE DEF means, named
  <2>1. \A k : k \in DOMAIN T <=> k \in means
    BY <1>2, <1>3, <1>4 DEF SoFar
  <2> QED BY <2>1
<1>6. ASSUME NEW k \in means
      PROVE  T[k] = IF named(k) = {} THEN 0 ELSE CHOOSE i \in named(k) : \A j \in named(k) : j <= i
  <2>1. Latest(k, nextPoint, T[k])
    BY <1>4, <1>5 DEF SoFar
  <2>2. \/ named(k) = {} /\ T[k] = 0
        \/ T[k] \in named(k) /\ \A j \in named(k) : j <= T[k]
    BY <1>2, <2>1 DEF Latest
  <2>3. named(k) \subseteq Nat
    BY PointFacts
  <2> HIDE DEF named
  <2>4. ASSUME NEW i \in named(k), \A j \in named(k) : j <= i, named(k) # {} PROVE i = T[k]
    <3>1. T[k] \in named(k) /\ i <= T[k] /\ T[k] <= i
      BY <2>2, <2>4
    <3> QED BY <2>3, <3>1
  <2> QED BY <2>2, <2>4
<1>7. T = [k \in DOMAIN T |-> T[k]]
  BY DEF SoFar
<1>8. Meaning = [k \in means |-> IF named(k) = {} THEN 0 ELSE CHOOSE i \in named(k) : \A j \in named(k) : j <= i]
  BY DEF Meaning
<1> HIDE DEF means, named
<1> QED BY <1>5, <1>6, <1>7, <1>8

LEMMA CommitInv ==
    ASSUME BatchInv, Commit
    PROVE  BatchInv'
<1>1. /\ BatchTypes /\ Tables /\ CountedRows /\ outcome = "running" /\ outcome' = "ok" /\ batch = <<>>
      /\ todo \subseteq Overridden /\ nextPoint > Len(points)
      /\ UNCHANGED <<reading, todo, nextPoint, batch, inTx, historyCount>>
      /\ IF stored THEN written' = inTx.cache /\ history' = inTx.rows ELSE UNCHANGED <<written, history>>
  BY DEF BatchInv, Commit, Ends, AllAppended, InTx
<1>2. points' = points /\ fields' = fields /\ stored' = stored /\ batch' = batch /\ historyCount' = historyCount
  BY <1>1 DEF reading
<1>3. BatchTypes' /\ KeptFields' = KeptFields
  BY <1>1, <1>2 DEF BatchTypes, KeptFields, Overridden, Valid, Named
<1>4. Meaning' = Meaning
  BY <1>2 DEF Meaning, Valid, Named
<1>5. ASSUME NEW T, SoFar(batch, T) PROVE T = Meaning
  <2>1. SoFar(<<>>, T)
    BY <1>1, <1>5
  <2> QED BY <1>1, <2>1, AllIsMeant
<1>6. /\ written' = Meaning
      /\ history' = IF stored THEN Meaning ELSE Nothing
  <2>1. CASE stored
    <3>1. SoFar(batch, inTx.cache) /\ SoFar(batch, inTx.rows)
      BY <1>1, <2>1 DEF Tables
    <3>2. inTx.cache = Meaning /\ inTx.rows = Meaning
      BY <1>5, <3>1
    <3> QED BY <1>1, <2>1, <3>2
  <2>2. CASE ~stored
    <3>1. SoFar(batch, written) /\ history = Nothing
      BY <1>1, <2>2 DEF Tables
    <3>2. written = Meaning
      BY <1>5, <3>1
    <3> QED BY <1>1, <2>2, <3>1, <3>2
  <2> QED BY <2>1, <2>2
<1>7. stored => historyCount = RowCount
  <2> SUFFICES ASSUME stored PROVE historyCount = RowCount
    OBVIOUS
  <2>1. historyCount = Cardinality({i \in Valids : i < nextPoint}) + Cardinality(KeptFields \ todo)
    BY <1>1 DEF CountedRows
  <2>2. {i \in Valids : i < nextPoint} = {i \in DOMAIN points : Valid(i)}
    BY <1>1, PointFacts DEF Valids, BatchTypes
  <2>3. KeptFields \ todo = fields \ Overridden
    BY <1>1 DEF KeptFields
  <2> QED BY <2>1, <2>2, <2>3 DEF RowCount
<1>8. ReadingWritten'
  <2>1. RowCount' = RowCount
    BY <1>2 DEF RowCount, Overridden, Valid, Named
  <2> QED BY <1>1, <1>2, <1>4, <1>6, <1>7, <2>1 DEF ReadingWritten
<1>9. Tables'
  <2>1. history' # Nothing => stored
    BY <1>6
  <2>2. ASSUME ~stored, NEW k \in DOMAIN written, written[k] = 0 PROVE k \in KeptFields
    BY <1>1, <2>2 DEF Tables
  <2>3. ~stored => written' = written
    BY <1>1
  <2> QED BY <1>1, <1>2, <1>3, <2>1, <2>2, <2>3 DEF Tables
<1>10. CountedRows'
  BY <1>1 DEF CountedRows
<1> QED BY <1>3, <1>8, <1>9, <1>10 DEF BatchInv

LEMMA BatchNextInv == BatchInv /\ [CollectBatchNext]_CollectBatchVars => BatchInv'
<1> SUFFICES ASSUME BatchInv, [CollectBatchNext]_CollectBatchVars PROVE BatchInv'
  OBVIOUS
<1>1. ASSUME NEW k \in FieldName \X BOOLEAN, AppendField(k) PROVE BatchInv'
  BY <1>1, AppendFieldInv
<1>2. CASE AppendPoint
  BY <1>2, AppendPointInv
<1>3. CASE FlushInTx \/ FlushDirect
  BY <1>3, FlushInv
<1>4. CASE FlushFails \/ CommitFails
  BY <1>4, BatchFailsInv
<1>5. CASE Commit
  BY <1>5, CommitInv
<1>6. CASE UNCHANGED CollectBatchVars
  <2>1. /\ UNCHANGED <<todo, nextPoint, batch, written, history, inTx, historyCount, outcome>>
        /\ points' = points /\ fields' = fields /\ stored' = stored
    BY <1>6 DEF CollectBatchVars
  <2>2. KeptFields' = KeptFields /\ Valids' = Valids /\ RowCount' = RowCount /\ Meaning' = Meaning
    BY <2>1 DEF KeptFields, Valids, RowCount, Overridden, Meaning, Valid, Named
  <2>3. \A k, v : (Under(k, nextPoint)' = Under(k, nextPoint)) /\ (Latest(k, nextPoint, v)' <=> Latest(k, nextPoint, v))
    BY <2>1, <2>2 DEF Under, Latest, Valids, Valid, Named
  <2>4. /\ SoFar(batch, written)' <=> SoFar(batch, written)
        /\ SoFar(batch, inTx.cache)' <=> SoFar(batch, inTx.cache)
        /\ SoFar(batch, inTx.rows)' <=> SoFar(batch, inTx.rows)
    BY <2>1, <2>2, <2>3 DEF SoFar
  <2>5. BatchTypes'
    BY <2>1 DEF BatchInv, BatchTypes
  <2>6. Tables'
    BY <2>1, <2>2, <2>4 DEF BatchInv, Tables
  <2>7. CountedRows' /\ ReadingWritten'
    BY <2>1, <2>2 DEF BatchInv, CountedRows, ReadingWritten
  <2> QED BY <2>5, <2>6, <2>7 DEF BatchInv
<1> QED BY <1>1, <1>2, <1>3, <1>4, <1>5, <1>6 DEF CollectBatchNext

\* A name of a kept field has no point, so the field is what it means.
LEMMA BatchFailure == BatchInv => FailedWriteHarmless
<1> SUFFICES ASSUME BatchInv, outcome = "failed"
             PROVE  /\ history = Nothing /\ (stored => written = Nothing)
                    /\ \A k \in DOMAIN written : written[k] = 0 => Meaning[k] = 0
  BY DEF FailedWriteHarmless
<1>1. BatchTypes /\ Tables
  BY DEF BatchInv
<1>2. history = Nothing /\ (stored => written = Nothing)
  BY <1>1 DEF Tables
<1>3. ASSUME NEW k \in DOMAIN written, written[k] = 0 PROVE Meaning[k] = 0
  <2>1. ~stored
    BY <1>2, <1>3 DEF Nothing
  <2>2. k \in KeptFields
    BY <1>1, <1>3, <2>1 DEF Tables
  <2>3. k \in fields /\ {i \in DOMAIN points : Valid(i) /\ Named(i) = k} = {}
    BY <2>2 DEF KeptFields, Overridden
  <2> QED BY <2>3 DEF Meaning
<1> QED BY <1>2, <1>3

\* A reading that is answered as written is in the tables as it is meant, one
\* whose write failed leaves no history, nothing if it was to have any, and no
\* field's value that a point of it overrides: for any names, any number of
\* points and any batch size (InsertCollectDataWithOptions).
THEOREM ReadingsWritten == CollectBatchSpec => []BatchesSound
<1>1. BatchInv => BatchesSound
  BY BatchFailure DEF BatchInv, BatchesSound
<1> QED BY <1>1, BatchInit, BatchNextInv, PTL DEF CollectBatchSpec

=============================================================================

------------------------------ MODULE MCAlarms ------------------------------
(* TLC: where a check gets its rules, and how often it repeats an alarm.    *)
(* The two share no state: every behaviour is one of the one part or of the *)
(* other, and none of the other part's fair actions is enabled at its Init. *)
EXTENDS ThresholdCache, AlarmState

CONSTANTS MaxRulesEvents,  \* bound: edits and failing statements of a behaviour of the rules
          MaxAlarmEvents   \* bound: changes of the interval and failing reads of one of the alarms

ASSUME MCAlarmsAssumption == MaxRulesEvents \in Nat /\ MaxAlarmEvents \in Nat

VARIABLE part

mcVars == <<part, ThresholdCacheVars, AlarmStateVars>>

MCInit ==
    /\ ThresholdCacheInit /\ AlarmStateInit
    \* The devices are alike: thresholds start on one of them.
    /\ \A t \in DOMAIN thresholds : thresholds[t].dev = CHOOSE d \in Device : TRUE
    /\ \/ part = "rules"
       \/ part = "alarms" /\ DOMAIN thresholds = {}

MCNext ==
    \/ /\ part = "rules" /\ ThresholdCacheNext /\ UNCHANGED <<part, AlarmStateVars>>
       /\ edits' + cacheFaults' <= MaxRulesEvents
    \/ /\ part = "alarms" /\ AlarmStateNext /\ UNCHANGED <<part, ThresholdCacheVars>>
       /\ changes' + readFaults' <= MaxAlarmEvents

MCSpec == MCInit /\ [][MCNext]_mcVars /\ ThresholdCacheFairness /\ AlarmStateFairness
=============================================================================

------------------------------- MODULE Breaker -------------------------------
(***************************************************************************)
(* The circuit breaker: internal/circuit/circuit.go.                       *)
(*                                                                         *)
(* Execute lets go of the lock while the function runs: a result may come  *)
(* in any later state, and every caller is let through while the breaker   *)
(* is half open.  The counters of Stats are left out.                      *)
(***************************************************************************)
EXTENDS Integers, FiniteSets

CONSTANTS
    Caller,
    FailureThreshold, SuccessThreshold, FailureWindow, RecoveryTimeout,
    MaxResults,      \* bound: results
    MaxResets,       \* bound: calls of Reset
    MaxTime          \* bound: the clock

ASSUME BreakerAssumption ==
    /\ {FailureThreshold, SuccessThreshold, RecoveryTimeout, MaxResults, MaxResets, MaxTime} \subseteq Nat
    /\ FailureWindow \in Nat \ {0}

VARIABLES
    cbState, failures, successes, lastFailure,   \* the fields of CircuitBreaker
    now,
    caller,       \* where each caller's Execute is
    results,      \* results recorded
    resets,       \* calls of Reset
    sinceFailed, sinceSucceeded  \* the results since cbState was entered

BreakerVars == <<cbState, failures, successes, lastFailure, now, caller, results, resets,
                 sinceFailed, sinceSucceeded>>

CallResult == [nr : 1 .. MaxResults, at : 0 .. MaxTime]

BreakerInit ==
    /\ cbState = "closed" /\ failures = {} /\ successes = {}
    /\ lastFailure = -RecoveryTimeout \* the zero time: long ago
    /\ now = 0 /\ caller = [c \in Caller |-> "idle"] /\ results = 0 /\ resets = 0
    /\ sinceFailed = {} /\ sinceSucceeded = {}

Entered == sinceFailed' = {} /\ sinceSucceeded' = {}

\* The breaker has been open for RecoveryTimeout after the last failure.
\* Wrong variant: the successes of the time before are kept.
RecoversKeeping ==
    /\ cbState = "open" /\ now - lastFailure >= RecoveryTimeout
    /\ cbState' = "half_open" /\ failures' = {} /\ UNCHANGED successes /\ Entered
Recovers ==
    /\ cbState = "open" /\ now - lastFailure >= RecoveryTimeout
    /\ cbState' = "half_open" /\ failures' = {} /\ successes' = {} /\ Entered

\* allowRequest, for a caller of Execute.
Allow(c) ==
    /\ caller[c] = "idle" /\ caller' = [caller EXCEPT ![c] = "running"]
    /\ \/ cbState # "open" /\ UNCHANGED <<cbState, failures, successes, sinceFailed, sinceSucceeded>>
       \/ Recovers
    /\ UNCHANGED <<lastFailure, now, results, resets>>

\* State() makes the same transition.
ReadState == Recovers /\ UNCHANGED <<lastFailure, now, caller, results, resets>>

\* The function panics: nothing is recorded.
Panic(c) ==
    /\ caller[c] = "running" /\ caller' = [caller EXCEPT ![c] = "idle"]
    /\ UNCHANGED <<cbState, failures, successes, lastFailure, now, results, resets, sinceFailed, sinceSucceeded>>

\* cleanup: what is older than the window goes.
Recent(S) == {r \in S : r.at > now - FailureWindow}
ThisResult == [nr |-> results + 1, at |-> now]
Records(c) ==
    /\ caller[c] = "running" /\ caller' = [caller EXCEPT ![c] = "idle"]
    /\ results < MaxResults /\ results' = results + 1

\* recordResult(true), which may close the breaker.
RecordSuccess(c) ==
    /\ Records(c)
    /\ LET S == Recent(successes \cup {ThisResult})
       IN  /\ successes' = S
           /\ IF cbState = "half_open" /\ Cardinality(S) >= SuccessThreshold
              THEN cbState' = "closed" /\ failures' = {} /\ Entered
              ELSE /\ failures' = Recent(failures)
                   /\ sinceSucceeded' = sinceSucceeded \cup {ThisResult} /\ UNCHANGED <<cbState, sinceFailed>>
    /\ UNCHANGED <<lastFailure, now, resets>>

\* recordResult(false), which may open it.
RecordFailure(c) ==
    /\ Records(c) /\ lastFailure' = now
    /\ failures' = Recent(failures \cup {ThisResult}) /\ successes' = Recent(successes)
    /\ IF \/ cbState = "half_open"
          \/ cbState = "closed" /\ Cardinality(Recent(failures \cup {ThisResult})) >= FailureThreshold
       THEN cbState' = "open" /\ Entered
       ELSE sinceFailed' = sinceFailed \cup {ThisResult} /\ UNCHANGED <<cbState, sinceSucceeded>>
    /\ UNCHANGED <<now, resets>>

Reset ==
    /\ resets < MaxResets /\ resets' = resets + 1
    /\ cbState' = "closed" /\ failures' = {} /\ successes' = {} /\ Entered
    /\ UNCHANGED <<lastFailure, now, caller, results>>

BreakerTick ==
    /\ now < MaxTime /\ now' = now + 1
    /\ UNCHANGED <<cbState, failures, successes, lastFailure, caller, results, resets,
                   sinceFailed, sinceSucceeded>>

BreakerNext ==
    \/ ReadState \/ Reset \/ BreakerTick
    \/ \E c \in Caller : Allow(c) \/ Panic(c) \/ RecordSuccess(c) \/ RecordFailure(c)

BreakerSpec == BreakerInit /\ [][BreakerNext]_BreakerVars

-----------------------------------------------------------------------------
BreakerTypeOK ==
    /\ cbState \in {"closed", "open", "half_open"}
    /\ failures \subseteq CallResult /\ successes \subseteq CallResult
    /\ sinceFailed \subseteq CallResult /\ sinceSucceeded \subseteq CallResult
    /\ now \in 0 .. MaxTime /\ lastFailure \in Int
    /\ caller \in [Caller -> {"idle", "running"}] /\ results \in 0 .. MaxResults
    /\ resets \in 0 .. MaxResets

\* What is kept after cleanup is enough: of the failures since the breaker was
\* closed, and of the successes since it is half open, all that are in the
\* window are kept, and none from before.
RecordsComplete ==
    /\ cbState = "closed" => Recent(failures) = Recent(sinceFailed)
    /\ cbState = "half_open" => Recent(successes) = Recent(sinceSucceeded)

Promise == INSTANCE BreakerPromise WITH
    Result <- CallResult, state <- cbState, failed <- sinceFailed, succeeded <- sinceSucceeded, clock <- now

\* The breaker does what BreakerPromise promises, however its callers overlap
\* and whichever state their results meet.
KeepsPromise == Promise!PromiseSpec
=============================================================================

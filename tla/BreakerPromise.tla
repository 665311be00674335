--------------------------- MODULE BreakerPromise ---------------------------
(***************************************************************************)
(* What a circuit breaker promises, whoever calls it and however it keeps  *)
(* its records: it opens exactly when enough calls have failed within the  *)
(* window since it was closed, tries again once the recovery time has      *)
(* passed since the last failure, and then closes exactly when enough      *)
(* calls have succeeded within the window since, or opens at the first     *)
(* failure.                                                                *)
(***************************************************************************)
EXTENDS Integers, FiniteSets

CONSTANTS
    Result,             \* the calls' results: [nr, at], at the time of the result
    FailureThreshold, SuccessThreshold, FailureWindow, RecoveryTimeout

VARIABLES
    state,        \* closed, open or half_open
    failed,       \* the failures since the state was entered
    succeeded,    \* the successes since the state was entered
    clock, lastFailure,
    resets        \* how often the breaker was reset by hand

promiseVars == <<state, failed, succeeded, clock, lastFailure, resets>>

PromiseInit == resets = 0 /\ state = "closed" /\ failed = {} /\ succeeded = {}

Enter(s) == state' = s /\ failed' = {} /\ succeeded' = {}
Enough(S, n) == Cardinality({r \in S : r.at > clock - FailureWindow}) >= n

Pass == clock' > clock /\ UNCHANGED <<state, failed, succeeded, lastFailure, resets>>

Try ==
    /\ state = "open" /\ clock - lastFailure >= RecoveryTimeout
    /\ Enter("half_open") /\ UNCHANGED <<clock, lastFailure, resets>>

Success(r) ==
    /\ r \notin succeeded /\ r.at = clock
    /\ IF state = "half_open" /\ Enough(succeeded \cup {r}, SuccessThreshold)
       THEN Enter("closed")
       ELSE UNCHANGED <<state, failed>> /\ succeeded' = succeeded \cup {r}
    /\ UNCHANGED <<clock, lastFailure, resets>>

Failure(r) ==
    /\ r \notin failed /\ r.at = clock
    /\ IF state = "half_open" \/ (state = "closed" /\ Enough(failed \cup {r}, FailureThreshold))
       THEN Enter("open")
       ELSE UNCHANGED <<state, succeeded>> /\ failed' = failed \cup {r}
    /\ lastFailure' = clock /\ UNCHANGED <<clock, resets>>

\* Only a reset, or enough successes, closes the breaker.
ResetBreaker == resets' = resets + 1 /\ Enter("closed") /\ UNCHANGED <<clock, lastFailure>>

PromiseNext ==
    \/ Pass \/ Try \/ ResetBreaker
    \/ \E r \in Result : Success(r) \/ Failure(r)

PromiseSpec == PromiseInit /\ [][PromiseNext]_promiseVars
=============================================================================

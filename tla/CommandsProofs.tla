---------------------------- MODULE CommandsProofs ----------------------------
(***************************************************************************)
(* The commands of the platforms, for every number of adapters, requests   *)
(* and fields and every size of the queues and the batch; the circuit      *)
(* breaker, for every number of callers and every threshold, window and    *)
(* recovery time; the system statistics, for counters of every width and   *)
(* lines of every length; and the rotating log file, for every size, every *)
(* number of backups and lines of every length.                            *)
(*                                                                         *)
(* The argument for the breaker: cleanup only drops what is out of the     *)
(* window, and the clock only goes forward, so of the results since the    *)
(* present state was entered nothing is missing that could still count     *)
(* (RecordsComplete).  Numbers tell the results apart (Fresh).             *)
(*                                                                         *)
(* The argument for the commands stands before CommandsInv.                *)
(*                                                                         *)
(* The statistics and the log add up sequences with FoldSeq, whose steps   *)
(* are chosen: Total is that sum over any finite set of indices, and       *)
(* TotalWithout says that any index may be taken out of it first.  A sum   *)
(* that wrapped around is its Modulo, so that differences of wrapped sums  *)
(* are those of the numbers while they are less than Word.                 *)
(*                                                                         *)
(* The argument for the log: Files are the files with the buffer at the    *)
(* end of the current one.  A flush leaves them as they are, a call of     *)
(* Write appends to them or shifts them, a failed flush and the end of the *)
(* process cut the current one.                                            *)
(***************************************************************************)
EXTENDS Commands, Breaker, SystemStats, LogRotation, FiniteSetTheorems, WellFoundedInduction, TLAPS

-----------------------------------------------------------------------------
(* The circuit breaker.                                                     *)

\* The number of a result to come has not been used.
Fresh == \A r \in sinceFailed \cup sinceSucceeded : r.nr <= results

BreakerInv == BreakerTypeOK /\ RecordsComplete /\ Fresh

\* A result recorded now is well formed, new, and in the window.
LEMMA ThisResultFacts ==
    ASSUME BreakerInv, results < MaxResults
    PROVE  /\ ThisResult \in CallResult
           /\ ThisResult.at = now /\ ThisResult.nr = results + 1
           /\ ThisResult \notin sinceFailed /\ ThisResult \notin sinceSucceeded
  <1>1. ThisResult.at = now /\ ThisResult.nr = results + 1
    BY DEF ThisResult
  <1>2. ThisResult \in CallResult
    <2>1. results + 1 \in 1 .. MaxResults
      BY BreakerAssumption DEF BreakerInv, BreakerTypeOK
    <2>2. now \in 0 .. MaxTime
      BY DEF BreakerInv, BreakerTypeOK
    <2> QED BY <2>1, <2>2 DEF ThisResult, CallResult
  <1>3. ThisResult \notin sinceFailed \cup sinceSucceeded
    BY <1>1 DEF BreakerInv, Fresh, BreakerTypeOK
  <1> QED BY <1>1, <1>2, <1>3

LEMMA TypeStep ==
    ASSUME BreakerInv, [BreakerNext]_BreakerVars
    PROVE  BreakerTypeOK'
  <1>1. CASE ReadState
    BY <1>1 DEF BreakerInv, BreakerTypeOK, ReadState, Recovers, Entered, CallResult
  <1>2. CASE Reset
    BY <1>2, BreakerAssumption DEF BreakerInv, BreakerTypeOK, Reset, Entered, CallResult
  <1>3. CASE BreakerTick
    BY <1>3, BreakerAssumption DEF BreakerInv, BreakerTypeOK, BreakerTick, CallResult
  <1>4. ASSUME NEW c \in Caller, Allow(c) PROVE BreakerTypeOK'
    BY <1>4 DEF BreakerInv, BreakerTypeOK, Allow, Recovers, Entered, CallResult
  <1>5. ASSUME NEW c \in Caller, Panic(c) PROVE BreakerTypeOK'
    BY <1>5 DEF BreakerInv, BreakerTypeOK, Panic, CallResult
  <1>6. ASSUME NEW c \in Caller, RecordSuccess(c) PROVE BreakerTypeOK'
    <2>1. ThisResult \in CallResult
      BY <1>6, ThisResultFacts DEF RecordSuccess, Records
    <2>2. Recent(successes \cup {ThisResult}) \subseteq CallResult /\ Recent(failures) \subseteq CallResult
      BY <2>1 DEF BreakerInv, BreakerTypeOK, Recent
    <2>3. /\ successes' \subseteq CallResult /\ failures' \subseteq CallResult
          /\ sinceFailed' \subseteq CallResult /\ sinceSucceeded' \subseteq CallResult
          /\ cbState' \in {"closed", "open", "half_open"}
      BY <1>6, <2>1, <2>2 DEF RecordSuccess, Entered, BreakerInv, BreakerTypeOK
    <2>4. /\ results' \in 0 .. MaxResults /\ caller' \in [Caller -> {"idle", "running"}]
          /\ UNCHANGED <<lastFailure, now, resets>>
      BY <1>6, BreakerAssumption DEF RecordSuccess, Records, BreakerInv, BreakerTypeOK
    <2> QED BY <2>3, <2>4 DEF BreakerInv, BreakerTypeOK, CallResult
  <1>7. ASSUME NEW c \in Caller, RecordFailure(c) PROVE BreakerTypeOK'
    <2>1. ThisResult \in CallResult
      BY <1>7, ThisResultFacts DEF RecordFailure, Records
    <2>2. Recent(failures \cup {ThisResult}) \subseteq CallResult /\ Recent(successes) \subseteq CallResult
      BY <2>1 DEF BreakerInv, BreakerTypeOK, Recent
    <2>3. /\ successes' \subseteq CallResult /\ failures' \subseteq CallResult
          /\ sinceFailed' \subseteq CallResult /\ sinceSucceeded' \subseteq CallResult
          /\ cbState' \in {"closed", "open", "half_open"}
      BY <1>7, <2>1, <2>2 DEF RecordFailure, Entered, BreakerInv, BreakerTypeOK
    <2>4. /\ results' \in 0 .. MaxResults /\ caller' \in [Caller -> {"idle", "running"}]
          /\ lastFailure' \in Int /\ UNCHANGED <<now, resets>>
      BY <1>7, BreakerAssumption DEF RecordFailure, Records, BreakerInv, BreakerTypeOK
    <2> QED BY <2>3, <2>4 DEF BreakerInv, BreakerTypeOK, CallResult
  <1>8. CASE UNCHANGED BreakerVars
    BY <1>8 DEF BreakerVars, BreakerInv, BreakerTypeOK, CallResult
  <1> QED BY <1>1, <1>2, <1>3, <1>4, <1>5, <1>6, <1>7, <1>8 DEF BreakerNext

LEMMA FreshStep ==
    ASSUME BreakerInv, [BreakerNext]_BreakerVars
    PROVE  Fresh'
  <1>1. CASE ReadState \/ Reset \/ BreakerTick \/ UNCHANGED BreakerVars
    BY <1>1 DEF BreakerInv, Fresh, ReadState, Reset, BreakerTick, BreakerVars, Recovers, Entered
  <1>2. ASSUME NEW c \in Caller, Allow(c) \/ Panic(c) PROVE Fresh'
    BY <1>2 DEF BreakerInv, Fresh, Allow, Panic, Recovers, Entered
  <1>3. ASSUME NEW c \in Caller, RecordSuccess(c) \/ RecordFailure(c) PROVE Fresh'
    <2>1. results' = results + 1 /\ ThisResult.nr = results + 1 /\ results \in Nat
      BY <1>3, ThisResultFacts DEF RecordSuccess, RecordFailure, Records, BreakerInv, BreakerTypeOK
    <2>2. sinceFailed' \cup sinceSucceeded' \subseteq sinceFailed \cup sinceSucceeded \cup {ThisResult}
      BY <1>3 DEF RecordSuccess, RecordFailure, Entered
    <2>3. \A r \in sinceFailed \cup sinceSucceeded : r.nr \in Int
      BY DEF BreakerInv, BreakerTypeOK, CallResult
    <2> QED BY <2>1, <2>2, <2>3 DEF BreakerInv, Fresh
  <1> QED BY <1>1, <1>2, <1>3 DEF BreakerNext

\* When the clock moves on, what leaves the window leaves both sides.
LEMMA RecentLater ==
    ASSUME now \in Int, now' \in Int, now' >= now, NEW S, NEW T,
           \A r \in S \cup T : r.at \in Int,
           Recent(S) = Recent(T)
    PROVE  {r \in S : r.at > now' - FailureWindow} = {r \in T : r.at > now' - FailureWindow}
  BY BreakerAssumption DEF Recent

LEMMA CompleteStep ==
    ASSUME BreakerInv, [BreakerNext]_BreakerVars
    PROVE  RecordsComplete'
  <1> DEFINE Later(S) == {r \in S : r.at > now' - FailureWindow}
  <1>1. SUFFICES
          /\ cbState' = "closed" => Later(failures') = Later(sinceFailed')
          /\ cbState' = "half_open" => Later(successes') = Later(sinceSucceeded')
    BY DEF RecordsComplete, Recent
  <1>2. CASE ReadState
    BY <1>2 DEF ReadState, Recovers, Entered
  <1>3. CASE Reset
    BY <1>3 DEF Reset, Entered
  <1>4. CASE BreakerTick
    <2>1. /\ now \in Int /\ now' = now + 1
          /\ UNCHANGED <<cbState, failures, successes, sinceFailed, sinceSucceeded>>
      BY <1>4 DEF BreakerTick, BreakerInv, BreakerTypeOK
    <2>2. \A r \in failures \cup sinceFailed \cup successes \cup sinceSucceeded : r.at \in Int
      BY DEF BreakerInv, BreakerTypeOK, CallResult
    <2>3. ASSUME cbState = "closed" PROVE Later(failures) = Later(sinceFailed)
      BY <2>1, <2>2, <2>3, RecentLater DEF BreakerInv, RecordsComplete
    <2>4. ASSUME cbState = "half_open" PROVE Later(successes) = Later(sinceSucceeded)
      BY <2>1, <2>2, <2>4, RecentLater DEF BreakerInv, RecordsComplete
    <2> QED BY <2>1, <2>3, <2>4
  <1>5. ASSUME NEW c \in Caller, Allow(c)
        PROVE /\ cbState' = "closed" => Later(failures') = Later(sinceFailed')
              /\ cbState' = "half_open" => Later(successes') = Later(sinceSucceeded')
    <2>1. CASE Recovers
      BY <2>1 DEF Recovers, Entered
    <2>2. CASE UNCHANGED <<cbState, failures, successes, sinceFailed, sinceSucceeded>>
      BY <1>5, <2>2 DEF Allow, BreakerInv, RecordsComplete, Recent
    <2> QED BY <1>5, <2>1, <2>2 DEF Allow
  <1>6. ASSUME NEW c \in Caller, Panic(c)
        PROVE /\ cbState' = "closed" => Later(failures') = Later(sinceFailed')
              /\ cbState' = "half_open" => Later(successes') = Later(sinceSucceeded')
    BY <1>6 DEF Panic, BreakerInv, RecordsComplete, Recent
  <1>7. ASSUME NEW c \in Caller, RecordSuccess(c)
        PROVE /\ cbState' = "closed" => Later(failures') = Later(sinceFailed')
              /\ cbState' = "half_open" => Later(successes') = Later(sinceSucceeded')
    <2>1. now' = now /\ \A S : Later(S) = Recent(S)
      BY <1>7 DEF RecordSuccess, Recent
    <2>2. CASE cbState = "half_open" /\ Cardinality(Recent(successes \cup {ThisResult})) >= SuccessThreshold
      BY <1>7, <2>2 DEF RecordSuccess, Entered
    <2>3. CASE ~(cbState = "half_open" /\ Cardinality(Recent(successes \cup {ThisResult})) >= SuccessThreshold)
      <3>1. /\ successes' = Recent(successes \cup {ThisResult}) /\ failures' = Recent(failures)
            /\ sinceSucceeded' = sinceSucceeded \cup {ThisResult} /\ UNCHANGED <<cbState, sinceFailed>>
        BY <1>7, <2>3 DEF RecordSuccess
      <3>2. cbState = "closed" => Recent(failures') = Recent(sinceFailed')
        BY <3>1 DEF BreakerInv, RecordsComplete, Recent
      <3>3. cbState = "half_open" => Recent(successes') = Recent(sinceSucceeded')
        BY <3>1 DEF BreakerInv, RecordsComplete, Recent
      <3> QED BY <2>1, <3>1, <3>2, <3>3
    <2> QED BY <2>2, <2>3
  <1>8. ASSUME NEW c \in Caller, RecordFailure(c)
        PROVE /\ cbState' = "closed" => Later(failures') = Later(sinceFailed')
              /\ cbState' = "half_open" => Later(successes') = Later(sinceSucceeded')
    <2>1. now' = now /\ \A S : Later(S) = Recent(S)
      BY <1>8 DEF RecordFailure, Recent
    <2>2. CASE cbState' = "open"
      BY <2>2
    <2>3. CASE cbState' # "open"
      <3>1. /\ failures' = Recent(failures \cup {ThisResult}) /\ cbState' = cbState /\ cbState # "half_open"
            /\ sinceFailed' = sinceFailed \cup {ThisResult}
        BY <1>8, <2>3 DEF RecordFailure, Entered
      <3>2. cbState = "closed" => Recent(failures') = Recent(sinceFailed')
        BY <3>1 DEF BreakerInv, RecordsComplete, Recent
      <3> QED BY <2>1, <3>1, <3>2
    <2> QED BY <2>2, <2>3
  <1>9. CASE UNCHANGED BreakerVars
    BY <1>9 DEF BreakerVars, BreakerInv, RecordsComplete, Recent
  <1> QED BY <1>1, <1>2, <1>3, <1>4, <1>5, <1>6, <1>7, <1>8, <1>9 DEF BreakerNext

LEMMA BreakerInvInit == BreakerInit => BreakerInv
  BY BreakerAssumption DEF BreakerInit, BreakerInv, BreakerTypeOK, RecordsComplete, Fresh, Recent, CallResult

\* The inductive invariant of the breaker.
THEOREM BreakerInvariant == BreakerSpec => []BreakerInv
  <1>1. BreakerInv /\ [BreakerNext]_BreakerVars => BreakerInv'
    BY TypeStep, FreshStep, CompleteStep DEF BreakerInv
  <1> QED BY BreakerInvInit, <1>1, PTL DEF BreakerSpec

\* The fields of CircuitBreaker keep their types.
THEOREM BreakerTypes == BreakerSpec => []BreakerTypeOK
  <1>1. BreakerInv => BreakerTypeOK
    BY DEF BreakerInv
  <1> QED BY BreakerInvariant, <1>1, PTL

\* The records of circuit.go are complete after every cleanup.
THEOREM BreakerRecordsComplete == BreakerSpec => []RecordsComplete
  <1>1. BreakerInv => RecordsComplete
    BY DEF BreakerInv
  <1> QED BY BreakerInvariant, <1>1, PTL

\* Every step of the breaker is a step of its promise, or none.
LEMMA PromiseStep ==
    ASSUME BreakerInv, [BreakerNext]_BreakerVars
    PROVE  [Promise!PromiseNext]_Promise!promiseVars
  <1> USE DEF Promise!Enter, Entered
  <1>1. CASE ReadState
    BY <1>1 DEF ReadState, Recovers, Promise!PromiseNext, Promise!Try
  <1>2. CASE Reset
    BY <1>2 DEF Reset, Promise!PromiseNext, Promise!ResetBreaker
  <1>3. CASE BreakerTick
    <2>1. now' > now
      BY <1>3 DEF BreakerTick, BreakerInv, BreakerTypeOK
    <2> QED BY <1>3, <2>1 DEF BreakerTick, Promise!PromiseNext, Promise!Pass
  <1>4. ASSUME NEW c \in Caller, Allow(c) PROVE [Promise!PromiseNext]_Promise!promiseVars
    BY <1>4 DEF Allow, Recovers, Promise!PromiseNext, Promise!Try, Promise!promiseVars
  <1>5. ASSUME NEW c \in Caller, Panic(c) PROVE [Promise!PromiseNext]_Promise!promiseVars
    BY <1>5 DEF Panic, Promise!promiseVars
  <1>6. ASSUME NEW c \in Caller, RecordSuccess(c) PROVE [Promise!PromiseNext]_Promise!promiseVars
    <2>1. /\ ThisResult \in CallResult /\ ThisResult \notin sinceSucceeded
          /\ ThisResult.at = now
      BY <1>6, ThisResultFacts DEF RecordSuccess, Records
    <2>2. cbState = "half_open" =>
            (Promise!Enough(sinceSucceeded \cup {ThisResult}, SuccessThreshold)
              <=> Cardinality(Recent(successes \cup {ThisResult})) >= SuccessThreshold)
      <3>1. Promise!Enough(sinceSucceeded \cup {ThisResult}, SuccessThreshold)
              <=> Cardinality(Recent(sinceSucceeded \cup {ThisResult})) >= SuccessThreshold
        BY DEF Promise!Enough, Recent, Cardinality, Promise!Cardinality
      <3>2. cbState = "half_open" =>
              Recent(successes \cup {ThisResult}) = Recent(sinceSucceeded \cup {ThisResult})
        BY DEF BreakerInv, RecordsComplete, Recent
      <3> QED BY <3>1, <3>2
    <2>3. Promise!Success(ThisResult)
      BY <1>6, <2>1, <2>2 DEF RecordSuccess, Promise!Success
    <2> QED BY <2>1, <2>3 DEF Promise!PromiseNext
  <1>7. ASSUME NEW c \in Caller, RecordFailure(c) PROVE [Promise!PromiseNext]_Promise!promiseVars
    <2>1. /\ ThisResult \in CallResult /\ ThisResult \notin sinceFailed
          /\ ThisResult.at = now
      BY <1>7, ThisResultFacts DEF RecordFailure, Records
    <2>2. cbState = "closed" =>
            (Promise!Enough(sinceFailed \cup {ThisResult}, FailureThreshold)
              <=> Cardinality(Recent(failures \cup {ThisResult})) >= FailureThreshold)
      <3>1. Promise!Enough(sinceFailed \cup {ThisResult}, FailureThreshold)
              <=> Cardinality(Recent(sinceFailed \cup {ThisResult})) >= FailureThreshold
        BY DEF Promise!Enough, Recent, Cardinality, Promise!Cardinality
      <3>2. cbState = "closed" =>
              Recent(failures \cup {ThisResult}) = Recent(sinceFailed \cup {ThisResult})
        BY DEF BreakerInv, RecordsComplete, Recent
      <3> QED BY <3>1, <3>2
    <2>3. Promise!Failure(ThisResult)
      BY <1>7, <2>1, <2>2 DEF RecordFailure, Promise!Failure
    <2> QED BY <2>1, <2>3 DEF Promise!PromiseNext
  <1>8. CASE UNCHANGED BreakerVars
    BY <1>8 DEF BreakerVars, Promise!promiseVars
  <1> QED BY <1>1, <1>2, <1>3, <1>4, <1>5, <1>6, <1>7, <1>8 DEF BreakerNext

\* circuit.go implements BreakerPromise.
THEOREM BreakerKeepsPromise == BreakerSpec => KeepsPromise
  <1>1. BreakerInit => Promise!PromiseInit
    BY DEF BreakerInit, Promise!PromiseInit
  <1>2. BreakerInv /\ [BreakerNext]_BreakerVars => [Promise!PromiseNext]_Promise!promiseVars
    BY PromiseStep
  <1> QED BY BreakerInvariant, <1>1, <1>2, PTL DEF BreakerSpec, KeepsPromise, Promise!PromiseSpec

-----------------------------------------------------------------------------
(* The commands of the platforms.                                           *)
(*                                                                          *)
(* The numbers of a request's commands follow each other, and an adapter's  *)
(* commands wait, first those that were pulled, in the order of their       *)
(* numbers.  A request's state waits for at least as many results as are    *)
(* still to come, and for more if a command gave way in the queue or was    *)
(* reported before there was a state: nothing can answer it then.           *)

\* A command is one of the request it names.
Known(O, c) ==
    /\ c \in Command /\ c.req \in DOMAIN O
    /\ O[c.req].by = c.by /\ c.nr \in O[c.req].nrs

\* An earlier command of an adapter has the smaller number.
Ordered(s) == \A i, j \in 1 .. Len(s) : i < j /\ s[i].by = s[j].by => s[i].nr < s[j].nr

Span(N, f, l) == f \in Nat /\ l \in Nat /\ 1 <= f /\ N = f .. l

CountersTyped ==
    /\ enabledAdapters \subseteq CmdAdapter
    /\ messages \in 0 .. MaxMessages
    /\ nextNr \in Nat /\ 1 <= nextNr /\ nextNr <= messages * MaxFields + 1
    /\ cmdPanicked \in BOOLEAN
    /\ executed \in [CmdAdapter -> CommandNr \cup {0}]
    /\ reported \in [CmdAdapter -> CommandNr \cup {0}]

OriginsSane ==
    /\ DOMAIN origin = 1 .. messages
    /\ \A r \in 1 .. messages :
        /\ origin[r].by \in CmdAdapter
        /\ \E f, l \in Nat : Span(origin[r].nrs, f, l) /\ l < nextNr
    /\ \A r, s \in 1 .. messages : r # s => origin[r].nrs \cap origin[s].nrs = {}

QueuesSane ==
    /\ commandQueue \in [CmdAdapter -> Seq(Command)]
    /\ \A a \in CmdAdapter :
        /\ Len(commandQueue[a]) <= CommandCap /\ Ordered(commandQueue[a])
        /\ \A i \in 1 .. Len(commandQueue[a]) :
            /\ Known(origin, commandQueue[a][i]) /\ commandQueue[a][i].by = a
            /\ executed[a] < commandQueue[a][i].nr

BatchSane ==
    /\ DOMAIN poll = {"pc", "left", "batch", "ok"} /\ poll.left \subseteq CmdAdapter
    /\ poll.batch \in Seq(Command) /\ Len(poll.batch) <= PullLimit /\ Ordered(poll.batch)
    /\ \A i \in 1 .. Len(poll.batch) :
        /\ Known(origin, poll.batch[i])
        /\ i > 1 \/ poll.pc # "report" => executed[poll.batch[i].by] < poll.batch[i].nr
    /\ poll.pc \in {"idle", "pull", "run", "report"}
    /\ poll.pc = "idle" => poll.batch = <<>>
    /\ poll.pc \in {"run", "report"} => poll.batch # <<>>

\* What was pulled of an adapter's commands comes before what still waits.
LineSane ==
    \A i \in 1 .. Len(poll.batch) : \A j \in 1 .. Len(commandQueue[poll.batch[i].by]) :
        poll.batch[i].nr < commandQueue[poll.batch[i].by][j].nr

\* Nothing is reported before it was run, nor twice.
ReportsSane ==
    /\ \A a \in CmdAdapter : reported[a] <= executed[a]
    /\ poll.pc = "report" => poll.ok \in BOOLEAN
    /\ poll.pc = "report" =>
        LET c == poll.batch[1]
        IN  /\ executed[c.by] = c.nr
            /\ c.by \in poll.left => reported[c.by] < c.nr
            /\ c.by \in IThings => c.nr \in ran /\ (poll.ok = TRUE <=> c.nr \notin failedRun)

FailuresSane ==
    /\ \A m \in failedRun : m \in Nat /\ m < nextNr
    /\ \A r \in DOMAIN origin : \A m \in failedRun \cap origin[r].nrs : m <= executed[origin[r].by]

\* A handler keeps the state of as many commands as it has queued.
HandlerFits(N, h) ==
    /\ h.kind \in Kind
    /\ \E f, l \in Nat : Span(N, f, l) /\ f <= l /\ h.pending = l - f + 1 /\ h.pending <= MaxFields

HandlersSane ==
    /\ DOMAIN handler = CmdAdapter
    /\ \A a \in CmdAdapter : handler[a] # NoMessage =>
        /\ a \in IThings /\ handler[a].req \in DOMAIN origin /\ origin[handler[a].req].by = a
        /\ HandlerFits(origin[handler[a].req].nrs, handler[a])

\* With commands f .. l, of which an adapter was told the results up to n:
\* nothing is counted down that it was not told, and a command that was passed
\* over without having been run is a result that is missing for good.
Counts(R, f, l, n, p) ==
    /\ n < f => p >= l - f + 1
    /\ n >= f => p >= l - n
    /\ \A x \in f .. l : x <= n /\ x \notin R => p >= l - n + 1

StateFits(R, N, n, state) ==
    /\ state \in [kind : Kind, pending : 1 .. MaxFields, ok : BOOLEAN]
    /\ \E f, l \in Nat : Span(N, f, l) /\ f <= l /\ Counts(R, f, l, n, state.pending)

StatesSane ==
    /\ DOMAIN requestStates = CmdAdapter
    /\ \A a \in CmdAdapter :
        /\ a \notin IThings => requestStates[a] = NoStates
        /\ \A r \in DOMAIN requestStates[a] :
            /\ r \in DOMAIN origin /\ origin[r].by = a
            /\ StateFits(ran, origin[r].nrs, reported[a], requestStates[a][r])

\* Nothing was run that is yet to come.
Below == \A a \in CmdAdapter : executed[a] < nextNr

CommandsInv ==
    /\ CountersTyped /\ OriginsSane /\ QueuesSane /\ BatchSane /\ LineSane /\ ReportsSane
    /\ Below /\ FailuresSane /\ HandlersSane /\ StatesSane /\ AnswersWhole

-----------------------------------------------------------------------------
LEMMA Bounds ==
    /\ CommandCap \in Nat /\ CommandCap >= 1 /\ PullLimit \in Nat /\ PullLimit >= 1
    /\ MaxFields \in Nat /\ MaxFields >= 1 /\ MaxMessages \in Nat
BY CommandsAssumption

LEMMA PartOf ==
    ASSUME NEW S, NEW s \in Seq(S), NEW m \in Nat, NEW n \in Nat, 1 <= m, m <= n + 1, n <= Len(s)
    PROVE  /\ SubSeq(s, m, n) \in Seq(S) /\ Len(SubSeq(s, m, n)) = n - m + 1
           /\ \A i \in 1 .. n - m + 1 : SubSeq(s, m, n)[i] = s[m + i - 1]
<1>1. \A i \in m .. n : s[i] \in S
  OBVIOUS
<1> QED BY <1>1

LEMMA JoinOf ==
    ASSUME NEW S, NEW s \in Seq(S), NEW t \in Seq(S)
    PROVE  /\ s \o t \in Seq(S) /\ Len(s \o t) = Len(s) + Len(t)
           /\ \A i \in 1 .. Len(s) : (s \o t)[i] = s[i]
           /\ \A i \in 1 .. Len(t) : (s \o t)[Len(s) + i] = t[i]
           /\ \A i \in 1 .. Len(s) + Len(t) : i <= Len(s) \/ i - Len(s) \in 1 .. Len(t)
OBVIOUS

\* Commands that follow others are ordered if those are and these are.
LEMMA JoinOrdered ==
    ASSUME NEW s \in Seq(Command), NEW t \in Seq(Command), Ordered(s), Ordered(t),
           \A i \in 1 .. Len(s), j \in 1 .. Len(t) : s[i].by = t[j].by => s[i].nr < t[j].nr
    PROVE  Ordered(s \o t)
<1> SUFFICES ASSUME NEW i \in 1 .. Len(s \o t), NEW j \in 1 .. Len(s \o t), i < j,
                    (s \o t)[i].by = (s \o t)[j].by
             PROVE  (s \o t)[i].nr < (s \o t)[j].nr
  BY DEF Ordered
<1>0. Len(s) \in Nat /\ Len(t) \in Nat /\ Len(s \o t) = Len(s) + Len(t)
  BY JoinOf
<1>1. CASE j <= Len(s)
  <2>1. i \in 1 .. Len(s) /\ j \in 1 .. Len(s)
    BY <1>0, <1>1
  <2>2. (s \o t)[i] = s[i] /\ (s \o t)[j] = s[j]
    BY <2>1, JoinOf
  <2> QED BY <2>1, <2>2 DEF Ordered
<1>2. CASE i <= Len(s) /\ j > Len(s)
  <2> DEFINE k == j - Len(s)
  <2>1. i \in 1 .. Len(s) /\ k \in 1 .. Len(t) /\ j = Len(s) + k
    BY <1>0, <1>2
  <2> HIDE DEF k
  <2>2. (s \o t)[i] = s[i] /\ (s \o t)[j] = t[k]
    BY <2>1, JoinOf
  <2> QED BY <2>1, <2>2
<1>3. CASE i > Len(s)
  <2> DEFINE k == j - Len(s)
             h == i - Len(s)
  <2>1. h \in 1 .. Len(t) /\ k \in 1 .. Len(t) /\ h < k /\ j = Len(s) + k /\ i = Len(s) + h
    BY <1>0, <1>3
  <2> HIDE DEF k, h
  <2>2. (s \o t)[i] = t[h] /\ (s \o t)[j] = t[k]
    BY <2>1, JoinOf
  <2> QED BY <2>1, <2>2 DEF Ordered
<1> QED BY <1>0, <1>1, <1>2, <1>3

LEMMA PartOrdered ==
    ASSUME NEW s \in Seq(Command), Ordered(s), NEW m \in Nat, NEW n \in Nat, 1 <= m, m <= n + 1, n <= Len(s)
    PROVE  Ordered(SubSeq(s, m, n))
<1> DEFINE t == SubSeq(s, m, n)
<1>1. t \in Seq(Command) /\ Len(t) = n - m + 1 /\ \A i \in 1 .. n - m + 1 : t[i] = s[m + i - 1]
  BY PartOf
<1>2. \A i \in 1 .. n - m + 1 : m + i - 1 \in 1 .. Len(s)
  OBVIOUS
<1> HIDE DEF t
<1>3. ASSUME NEW i \in 1 .. Len(t), NEW j \in 1 .. Len(t), i < j, t[i].by = t[j].by
      PROVE  t[i].nr < t[j].nr
  <2>1. i \in 1 .. n - m + 1 /\ j \in 1 .. n - m + 1
    BY <1>1
  <2>2. t[i] = s[m + i - 1] /\ t[j] = s[m + j - 1] /\ m + i - 1 < m + j - 1
    BY <1>1, <1>3, <2>1
  <2> QED BY <1>2, <1>3, <2>1, <2>2 DEF Ordered
<1>4. Ordered(t)
  BY <1>3 DEF Ordered
<1> QED BY <1>4 DEF t

\* A queue keeps its newest commands.
LEMMA CappedFacts ==
    ASSUME NEW s \in Seq(Command), Ordered(s)
    PROVE  /\ Capped(s) \in Seq(Command) /\ Len(Capped(s)) <= CommandCap /\ Ordered(Capped(s))
           /\ \A i \in 1 .. Len(Capped(s)) : \E j \in 1 .. Len(s) : Capped(s)[i] = s[j]
<1>1. CASE Len(s) <= CommandCap
  <2>1. Capped(s) = s
    BY <1>1, Bounds DEF Capped
  <2> QED BY <1>1, <2>1
<1>2. CASE Len(s) > CommandCap
  <2> DEFINE m == Len(s) - CommandCap + 1
  <2>1. m \in Nat /\ 1 <= m /\ m <= Len(s) + 1 /\ Len(s) \in Nat /\ Len(s) - m + 1 = CommandCap
    BY <1>2, Bounds
  <2>2. Capped(s) = SubSeq(s, m, Len(s))
    BY <1>2 DEF Capped
  <2> HIDE DEF m
  <2>3. /\ Capped(s) \in Seq(Command) /\ Len(Capped(s)) = CommandCap
        /\ \A i \in 1 .. Len(s) - m + 1 : Capped(s)[i] = s[m + i - 1]
    BY <2>1, <2>2, PartOf
  <2>4. Ordered(Capped(s))
    BY <2>1, <2>2, PartOrdered
  <2>5. ASSUME NEW i \in 1 .. Len(Capped(s)) PROVE \E j \in 1 .. Len(s) : Capped(s)[i] = s[j]
    <3>1. i \in 1 .. Len(s) - m + 1 /\ m + i - 1 \in 1 .. Len(s)
      BY <2>1, <2>3
    <3> QED BY <2>3, <3>1
  <2> QED BY <2>3, <2>4, <2>5, Bounds
<1> QED BY <1>1, <1>2, Bounds

\* The numbers given out so far are small enough.
LEMMA NumbersFit ==
    ASSUME NEW m \in Nat, NEW M \in Nat, NEW k \in Nat, m <= M
    PROVE  m * k <= M * k /\ m * k \in Nat /\ M * k \in Nat /\ (m + 1) * k = m * k + k
<1>1. (M - m) * k >= 0 /\ M - m \in Nat
  OBVIOUS
<1>2. (M - m) * k = M * k - m * k
  OBVIOUS
<1>3. m * k \in Nat /\ M * k \in Nat
  OBVIOUS
<1> QED BY <1>1, <1>2, <1>3

LEMMA KnownBelow ==
    ASSUME OriginsSane, CountersTyped, NEW c, Known(origin, c)
    PROVE  c.nr \in Nat /\ c.nr < nextNr /\ c.by \in CmdAdapter
<1>1. c.req \in 1 .. messages /\ c \in Command /\ c.nr \in origin[c.req].nrs
  BY DEF Known, OriginsSane
<1>2. PICK f \in Nat, l \in Nat : Span(origin[c.req].nrs, f, l) /\ l < nextNr
  BY <1>1 DEF OriginsSane
<1>3. c.nr \in f .. l
  BY <1>1, <1>2 DEF Span
<1> QED BY <1>1, <1>2, <1>3 DEF Command, CountersTyped

\* The commands of a request, built in the order of their numbers.
LEMMA BuiltFacts ==
    ASSUME CountersTyped, messages < MaxMessages, NEW a \in CmdAdapter, NEW r, r = messages + 1,
           NEW n \in Nat, n <= MaxFields
    PROVE  /\ Built(a, r, n) \in Seq(Command) /\ Len(Built(a, r, n)) = n
           /\ \A i \in 1 .. n : Built(a, r, n)[i] = [by |-> a, req |-> r, nr |-> nextNr + i - 1]
<1>1. messages \in Nat /\ messages + 1 <= MaxMessages /\ messages + 1 \in Nat
  BY Bounds DEF CountersTyped
<1>2. (messages + 1) * MaxFields <= MaxMessages * MaxFields /\ (messages + 1) * MaxFields = messages * MaxFields + MaxFields
      /\ messages * MaxFields \in Nat /\ MaxMessages * MaxFields \in Nat
  BY <1>1, NumbersFit, Bounds
<1>3. nextNr \in Nat /\ 1 <= nextNr /\ nextNr <= messages * MaxFields + 1
  BY DEF CountersTyped
<1>4. \A i \in 1 .. n : nextNr + i - 1 \in CommandNr
  <2> DEFINE x == messages * MaxFields
             y == MaxMessages * MaxFields
  <2>1. x + MaxFields <= y /\ x \in Nat /\ y \in Nat /\ nextNr <= x + 1
    BY <1>2, <1>3
  <2>2. CommandNr = 1 .. y
    BY DEF CommandNr
  <2> HIDE DEF x, y
  <2> QED BY <1>3, <2>1, <2>2, Bounds
<1>5. r \in Request
  BY <1>1 DEF Request
<1>6. \A i \in 1 .. n : [by |-> a, req |-> r, nr |-> nextNr + i - 1] \in Command
  BY <1>4, <1>5 DEF Command
<1> QED BY <1>6 DEF Built

-----------------------------------------------------------------------------
(* Receiving.                                                               *)

NewCommands(s, a, r) ==
    /\ s \in Seq(Command) /\ Len(s) <= MaxFields
    /\ \A i \in 1 .. Len(s) : s[i] = [by |-> a, req |-> r, nr |-> nextNr + i - 1]

LEMMA NewNumbers ==
    ASSUME CountersTyped, NEW a, NEW r, NEW s, NewCommands(s, a, r)
    PROVE  /\ Nrs(s) = nextNr .. nextNr + Len(s) - 1
           /\ Ordered(s) /\ Len(s) \in Nat
           /\ \A i \in 1 .. Len(s) : s[i].by = a /\ s[i].req = r /\ s[i].nr = nextNr + i - 1
<1>1. Len(s) \in Nat /\ DOMAIN s = 1 .. Len(s) /\ nextNr \in Nat
  BY DEF NewCommands, CountersTyped
<1>2. ASSUME NEW i \in 1 .. Len(s) PROVE s[i].by = a /\ s[i].req = r /\ s[i].nr = nextNr + i - 1
  <2>1. s[i] = [by |-> a, req |-> r, nr |-> nextNr + i - 1]
    BY DEF NewCommands
  <2> QED BY <2>1
<1>3. Ordered(s)
  BY <1>1, <1>2 DEF Ordered
<1>4. ASSUME NEW m \in Nrs(s) PROVE m \in nextNr .. nextNr + Len(s) - 1
  BY <1>1, <1>2, <1>4 DEF Nrs
<1>5. ASSUME NEW m \in nextNr .. nextNr + Len(s) - 1 PROVE m \in Nrs(s)
  <2> DEFINE k == m - nextNr + 1
  <2>1. k \in 1 .. Len(s) /\ nextNr + k - 1 = m
    BY <1>1, <1>5
  <2> HIDE DEF k
  <2>2. s[k].nr = m
    BY <1>2, <2>1
  <2> QED BY <1>1, <2>1, <2>2 DEF Nrs
<1> QED BY <1>1, <1>2, <1>3, <1>4, <1>5

\* What is kept of the requests there were.
OldRequests == \A x \in 1 .. messages : x \in DOMAIN origin' /\ origin'[x] = origin[x]

LEMMA StillKnown ==
    ASSUME OriginsSane, OldRequests, NEW c, Known(origin, c)
    PROVE  Known(origin', c)
BY DEF OriginsSane, OldRequests, Known

LEMMA ReceiveOrigins ==
    ASSUME CommandsInv, NEW a \in CmdAdapter, NEW r, NEW kind, NEW s, NewCommands(s, a, r),
           Receive(a, r, kind, s)
    PROVE  /\ CountersTyped' /\ OriginsSane' /\ OldRequests /\ FailuresSane'
           /\ r = messages + 1 /\ r \in DOMAIN origin' /\ origin'[r].by = a
           /\ origin'[r].nrs = nextNr .. nextNr + Len(s) - 1
<1>0. CountersTyped /\ OriginsSane /\ FailuresSane
  BY DEF CommandsInv
<1>1. /\ r = messages + 1 /\ messages' = r /\ messages < MaxMessages /\ nextNr' = nextNr + Len(s)
      /\ origin' = [x \in DOMAIN origin \cup {r} |->
            IF x = r THEN [by |-> a, kind |-> kind, nrs |-> Nrs(s)] ELSE origin[x]]
      /\ UNCHANGED <<enabledAdapters, executed, ran, failedRun, reported, cmdPanicked>>
  BY DEF Receive
<1>2. messages \in Nat /\ DOMAIN origin = 1 .. messages /\ nextNr \in Nat /\ nextNr >= 1 /\ Len(s) \in Nat /\ Len(s) <= MaxFields
  BY <1>0, Bounds, NewNumbers DEF CountersTyped, OriginsSane, NewCommands
<1>3. DOMAIN origin' = 1 .. messages' /\ r \in 1 .. messages' /\ r \notin 1 .. messages
      /\ \A x \in 1 .. messages' : x = r \/ x \in 1 .. messages
  BY <1>1, <1>2
<1>4. origin'[r].by = a /\ origin'[r].nrs = nextNr .. nextNr + Len(s) - 1
  BY <1>0, <1>1, NewNumbers
<1>5. \A x \in 1 .. messages : x \in DOMAIN origin' /\ origin'[x] = origin[x]
  BY <1>1, <1>2, <1>3
<1>6. CountersTyped'
  <2>1. (messages + 1) * MaxFields = messages * MaxFields + MaxFields /\ messages * MaxFields \in Nat
    BY <1>1, <1>2, NumbersFit, Bounds
  <2>2. nextNr <= messages * MaxFields + 1
    BY <1>0 DEF CountersTyped
  <2>3. nextNr + Len(s) <= (messages + 1) * MaxFields + 1
    <3> DEFINE x == messages * MaxFields
               y == (messages + 1) * MaxFields
    <3>1. y = x + MaxFields /\ x \in Nat /\ nextNr <= x + 1
      BY <2>1, <2>2
    <3> HIDE DEF x, y
    <3>2. nextNr + Len(s) <= y + 1
      BY <1>2, <3>1, Bounds
    <3> QED BY <3>2 DEF y
  <2>4. nextNr' <= messages' * MaxFields + 1 /\ nextNr' \in Nat /\ 1 <= nextNr' /\ messages' \in 0 .. MaxMessages
    BY <1>1, <1>2, <2>3, Bounds
  <2> QED BY <1>0, <1>1, <2>4 DEF CountersTyped
<1>7. \A x \in 1 .. messages : \A m \in origin[x].nrs : m \in Nat /\ m < nextNr
  BY <1>0, <1>2 DEF OriginsSane, Span
<1>8. OriginsSane'
  <2>1. \A x \in 1 .. messages' : origin'[x].by \in CmdAdapter
    BY <1>0, <1>3, <1>4, <1>5 DEF OriginsSane
  <2>2. ASSUME NEW x \in 1 .. messages' PROVE \E f, l \in Nat : Span(origin'[x].nrs, f, l) /\ l < nextNr'
    <3>1. CASE x = r
      <4> DEFINE l == nextNr + Len(s) - 1
      <4>1. l \in Nat /\ l < nextNr'
        BY <1>1, <1>2
      <4>2. Span(origin'[r].nrs, nextNr, l)
        BY <1>2, <1>4, <4>1 DEF Span
      <4> HIDE DEF l
      <4> QED BY <1>2, <3>1, <4>1, <4>2 DEF Span
    <3>2. CASE x # r
      <4>1. x \in 1 .. messages /\ origin'[x] = origin[x]
        BY <1>3, <1>5, <3>2
      <4>2. PICK f \in Nat, l \in Nat : Span(origin[x].nrs, f, l) /\ l < nextNr
        BY <1>0, <4>1 DEF OriginsSane
      <4>3. Span(origin'[x].nrs, f, l) /\ l < nextNr'
        BY <1>1, <1>2, <4>1, <4>2 DEF Span
      <4> QED BY <4>3
    <3> QED BY <3>1, <3>2
  <2>3. ASSUME NEW x \in 1 .. messages', NEW y \in 1 .. messages', x # y
        PROVE  origin'[x].nrs \cap origin'[y].nrs = {}
    <3>1. CASE x = r
      <4>1. y \in 1 .. messages /\ origin'[y] = origin[y]
        BY <1>3, <1>5, <2>3, <3>1
      <4> QED BY <1>2, <1>4, <1>7, <3>1, <4>1
    <3>2. CASE y = r
      <4>1. x \in 1 .. messages /\ origin'[x] = origin[x]
        BY <1>3, <1>5, <2>3, <3>2
      <4> QED BY <1>2, <1>4, <1>7, <3>2, <4>1
    <3>3. CASE x # r /\ y # r
      BY <1>0, <1>3, <1>5, <2>3, <3>3 DEF OriginsSane
    <3> QED BY <3>1, <3>2, <3>3
  <2> QED BY <1>3, <2>1, <2>2, <2>3 DEF OriginsSane
<1>9. FailuresSane'
  <2>1. \A m \in failedRun' : m \in Nat /\ m < nextNr'
    BY <1>0, <1>1, <1>2 DEF FailuresSane
  <2>2. ASSUME NEW x \in DOMAIN origin', NEW m \in failedRun' \cap origin'[x].nrs
        PROVE  m <= executed'[origin'[x].by]
    <3>1. CASE x = r
      <4>1. m \in nextNr .. nextNr + Len(s) - 1
        BY <1>4, <2>2, <3>1
      <4>2. m \in Nat /\ m < nextNr
        BY <1>0, <1>1 DEF FailuresSane
      <4> QED BY <1>2, <4>1, <4>2
    <3>2. CASE x # r
      <4>1. x \in DOMAIN origin /\ origin'[x] = origin[x]
        BY <1>2, <1>3, <1>5, <3>2
      <4> QED BY <1>0, <1>1, <2>2, <4>1 DEF FailuresSane
    <3> QED BY <3>1, <3>2
  <2> QED BY <2>1, <2>2 DEF FailuresSane
<1> QED BY <1>1, <1>3, <1>4, <1>5, <1>6, <1>8, <1>9 DEF OldRequests

LEMMA ReceiveQueue ==
    ASSUME CommandsInv, NEW a \in CmdAdapter, NEW r, NEW kind, NEW s, NewCommands(s, a, r),
           Receive(a, r, kind, s)
    PROVE  QueuesSane' /\ LineSane' /\ BatchSane' /\ ReportsSane'
<1>0. CountersTyped /\ OriginsSane /\ QueuesSane /\ LineSane /\ BatchSane /\ ReportsSane
  BY DEF CommandsInv
<1>1. /\ OldRequests /\ r \in DOMAIN origin' /\ origin'[r].by = a
      /\ origin'[r].nrs = nextNr .. nextNr + Len(s) - 1
  BY ReceiveOrigins
<1>2. /\ commandQueue' = [commandQueue EXCEPT ![a] = Capped(@ \o s)]
      /\ UNCHANGED <<poll, executed, ran, failedRun, reported>>
  BY DEF Receive
<1>3. s \in Seq(Command) /\ Len(s) \in Nat /\ Ordered(s)
      /\ \A i \in 1 .. Len(s) : s[i].by = a /\ s[i].req = r /\ s[i].nr = nextNr + i - 1
  <2>1. s \in Seq(Command)
    BY DEF NewCommands
  <2> QED BY <1>0, <2>1, NewNumbers
<1>4. nextNr \in Nat /\ 1 <= nextNr
  BY <1>0 DEF CountersTyped
<1> DEFINE q == commandQueue[a]
<1>5. q \in Seq(Command) /\ Ordered(q) /\ Len(q) \in Nat
      /\ \A i \in 1 .. Len(q) : Known(origin, q[i]) /\ q[i].by = a /\ executed[a] < q[i].nr
  BY <1>0 DEF QueuesSane
<1>6. \A i \in 1 .. Len(q) : q[i].nr \in Nat /\ q[i].nr < nextNr
  BY <1>0, <1>5, KnownBelow
<1>7. executed[a] < nextNr /\ executed[a] \in Nat
  <2>1. executed[a] \in CommandNr \cup {0}
    BY <1>0 DEF CountersTyped
  <2>2. executed[a] < nextNr
    BY <1>0 DEF CommandsInv, Below
  <2> QED BY <2>1, <2>2, Bounds DEF CommandNr
<1> HIDE DEF q
<1>8. Ordered(q \o s)
  <2>1. \A i \in 1 .. Len(q), j \in 1 .. Len(s) : q[i].nr < s[j].nr
    BY <1>3, <1>4, <1>6
  <2> QED BY <1>3, <1>5, <2>1, JoinOrdered
<1>9. ASSUME NEW i \in 1 .. Len(s) PROVE Known(origin', s[i])
  <2>1. s[i] \in Command /\ s[i].req = r /\ s[i].by = a /\ s[i].nr = nextNr + i - 1
    BY <1>3
  <2>2. s[i].nr \in nextNr .. nextNr + Len(s) - 1
    BY <1>3, <1>4, <2>1
  <2> QED BY <1>1, <2>1, <2>2 DEF Known
<1>10. q \o s \in Seq(Command) /\ \A i \in 1 .. Len(q \o s) :
            \/ \E j \in 1 .. Len(q) : (q \o s)[i] = q[j]
            \/ \E j \in 1 .. Len(s) : (q \o s)[i] = s[j]
  <2>1. q \o s \in Seq(Command) /\ Len(q \o s) = Len(q) + Len(s)
    BY <1>3, <1>5, JoinOf
  <2>2. ASSUME NEW i \in 1 .. Len(q \o s)
        PROVE  \/ \E j \in 1 .. Len(q) : (q \o s)[i] = q[j]
               \/ \E j \in 1 .. Len(s) : (q \o s)[i] = s[j]
    <3>1. CASE i <= Len(q)
      BY <1>3, <1>5, <2>1, <3>1, JoinOf
    <3>2. CASE i > Len(q)
      <4> DEFINE k == i - Len(q)
      <4>1. k \in 1 .. Len(s) /\ i = Len(q) + k
        BY <1>3, <1>5, <2>1, <3>2
      <4> HIDE DEF k
      <4>2. (q \o s)[i] = s[k]
        BY <1>3, <1>5, <4>1, JoinOf
      <4> QED BY <4>1, <4>2
    <3> QED BY <1>5, <2>1, <3>1, <3>2
  <2> QED BY <2>1, <2>2
<1>11. /\ Capped(q \o s) \in Seq(Command) /\ Len(Capped(q \o s)) <= CommandCap /\ Ordered(Capped(q \o s))
       /\ \A i \in 1 .. Len(Capped(q \o s)) : \E j \in 1 .. Len(q \o s) : Capped(q \o s)[i] = (q \o s)[j]
  BY <1>8, <1>10, CappedFacts
<1> DEFINE t == Capped(q \o s)
<1>12. \A i \in 1 .. Len(t) : \/ \E j \in 1 .. Len(q) : t[i] = q[j]
                              \/ \E j \in 1 .. Len(s) : t[i] = s[j]
  BY <1>10, <1>11
<1>13. t \in Seq(Command) /\ Len(t) <= CommandCap /\ Ordered(t)
  BY <1>11
<1>14. commandQueue' = [commandQueue EXCEPT ![a] = t] /\ commandQueue \in [CmdAdapter -> Seq(Command)]
  BY <1>0, <1>2 DEF q, QueuesSane
<1> HIDE DEF t
<1>15. commandQueue'[a] = t /\ \A b \in CmdAdapter : b # a => commandQueue'[b] = commandQueue[b]
  BY <1>14
<1>16. \A i \in 1 .. Len(q) : Known(origin', q[i])
  BY <1>0, <1>1, <1>5, StillKnown
<1>17. ASSUME NEW i \in 1 .. Len(t) PROVE Known(origin', t[i]) /\ t[i].by = a /\ executed[a] < t[i].nr
  <2>1. CASE \E j \in 1 .. Len(q) : t[i] = q[j]
    BY <1>5, <1>16, <2>1 DEF Known
  <2>2. CASE \E j \in 1 .. Len(s) : t[i] = s[j]
    <3>1. PICK j \in 1 .. Len(s) : t[i] = s[j]
      BY <2>2
    <3>2. Known(origin', t[i]) /\ t[i].by = a /\ t[i].nr = nextNr + j - 1
      BY <1>3, <1>9, <3>1 DEF Known
    <3> QED BY <1>4, <1>7, <3>2, <1>3
  <2> QED BY <1>12, <2>1, <2>2
<1>18. QueuesSane'
  <2>1. commandQueue' \in [CmdAdapter -> Seq(Command)]
    BY <1>13, <1>14
  <2>2. ASSUME NEW b \in CmdAdapter
        PROVE  /\ Len(commandQueue'[b]) <= CommandCap /\ Ordered(commandQueue'[b])
               /\ \A i \in 1 .. Len(commandQueue'[b]) :
                    /\ Known(origin', commandQueue'[b][i]) /\ commandQueue'[b][i].by = b
                    /\ executed'[b] < commandQueue'[b][i].nr
    <3>1. CASE b = a
      BY <1>2, <1>13, <1>15, <1>17, <3>1
    <3>2. CASE b # a
      <4>1. commandQueue'[b] = commandQueue[b]
        BY <1>15, <3>2
      <4>2. \A i \in 1 .. Len(commandQueue[b]) : Known(origin', commandQueue[b][i])
        BY <1>0, <1>1, StillKnown DEF QueuesSane
      <4>3. \A i \in 1 .. Len(commandQueue[b]) : Known(origin', commandQueue'[b][i])
        BY <4>1, <4>2 DEF Known
      <4> QED BY <1>0, <1>2, <4>1, <4>3 DEF QueuesSane
    <3> QED BY <3>1, <3>2
  <2> QED BY <2>1, <2>2 DEF QueuesSane, Ordered
<1>19. \A i \in 1 .. Len(poll.batch) : /\ Known(origin, poll.batch[i]) /\ Known(origin', poll.batch[i])
                                       /\ poll.batch[i].by \in CmdAdapter /\ poll.batch[i].nr < nextNr /\ poll.batch[i].nr \in Nat
  BY <1>0, <1>1, StillKnown, KnownBelow DEF BatchSane
<1>20. LineSane'
  <2> SUFFICES ASSUME NEW i \in 1 .. Len(poll.batch), NEW j \in 1 .. Len(commandQueue'[poll.batch[i].by])
               PROVE  poll.batch[i].nr < commandQueue'[poll.batch[i].by][j].nr
    BY <1>2 DEF LineSane
  <2>1. CASE poll.batch[i].by = a
    <3>1. j \in 1 .. Len(t) /\ commandQueue'[poll.batch[i].by][j] = t[j]
      BY <1>15, <2>1
    <3>2. CASE \E k \in 1 .. Len(q) : t[j] = q[k]
      <4>1. PICK k \in 1 .. Len(q) : t[j] = q[k]
        BY <3>2
      <4>2. poll.batch[i].nr < q[k].nr
        BY <1>0, <2>1, <4>1 DEF LineSane, q
      <4> QED BY <3>1, <4>1, <4>2
    <3>3. CASE \E k \in 1 .. Len(s) : t[j] = s[k]
      <4>1. PICK k \in 1 .. Len(s) : t[j] = s[k]
        BY <3>3
      <4>2. t[j].nr = nextNr + k - 1 /\ poll.batch[i].nr < nextNr /\ poll.batch[i].nr \in Nat
        BY <1>3, <1>19, <4>1
      <4> QED BY <1>3, <1>4, <3>1, <4>1, <4>2
    <3> QED BY <1>12, <3>1, <3>2, <3>3
  <2>2. CASE poll.batch[i].by # a
    <3>1. commandQueue'[poll.batch[i].by] = commandQueue[poll.batch[i].by]
      BY <1>15, <1>19, <2>2
    <3> QED BY <1>0, <3>1 DEF LineSane
  <2> QED BY <2>1, <2>2
<1>21. BatchSane'
  <2>1. \A i \in 1 .. Len(poll'.batch) : Known(origin', poll'.batch[i])
    BY <1>2, <1>19 DEF Known
  <2> QED BY <1>0, <1>2, <2>1 DEF BatchSane, Ordered
<1>22. ReportsSane'
  BY <1>0, <1>2 DEF ReportsSane
<1> QED BY <1>18, <1>20, <1>21, <1>22

\* Nothing that was kept of the requests changes.
LEMMA StatesStay ==
    ASSUME StatesSane, OldRequests, OriginsSane, UNCHANGED <<requestStates, reported, ran, failedRun>>
    PROVE  StatesSane'
<1>1. \A x \in DOMAIN origin : x \in DOMAIN origin' /\ origin'[x] = origin[x]
  BY DEF OldRequests, OriginsSane
<1> QED BY <1>1 DEF StatesSane

LEMMA HandlersStay ==
    ASSUME HandlersSane, OldRequests, OriginsSane, UNCHANGED handler
    PROVE  HandlersSane'
<1>1. \A x \in DOMAIN origin : x \in DOMAIN origin' /\ origin'[x] = origin[x]
  BY DEF OldRequests, OriginsSane
<1> QED BY <1>1 DEF HandlersSane

LEMMA ReceiveStep ==
    ASSUME CommandsInv, NEW a \in CmdAdapter, NEW r, NEW kind, NEW s, NewCommands(s, a, r),
           Receive(a, r, kind, s), HandlersSane', AnswersWhole'
    PROVE  CommandsInv'
<1>1. CountersTyped' /\ OriginsSane' /\ OldRequests /\ FailuresSane'
  BY ReceiveOrigins
<1>2. QueuesSane' /\ LineSane' /\ BatchSane' /\ ReportsSane'
  BY ReceiveQueue
<1>3. UNCHANGED <<requestStates, reported, ran, failedRun, executed>> /\ nextNr' = nextNr + Len(s)
  BY DEF Receive
<1>4. StatesSane'
  BY <1>1, <1>3, StatesStay DEF CommandsInv
<1>5. Below'
  <2>1. Len(s) \in Nat /\ nextNr \in Nat
    BY NewNumbers DEF CommandsInv, CountersTyped
  <2>2. \A b \in CmdAdapter : executed[b] \in Nat /\ executed[b] < nextNr
    BY Bounds DEF CommandsInv, Below, CountersTyped, CommandNr
  <2> QED BY <1>3, <2>1, <2>2 DEF Below
<1> QED BY <1>1, <1>2, <1>4, <1>5 DEF CommandsInv

\* A receipt, or no answer, promises nothing of a request's commands.
LEMMA NothingPromised ==
    ASSUME reply' = {} \/ \E a, r, kind, ok, from :
                             from # "state" /\ reply' = {[by |-> a, req |-> r, kind |-> kind, ok |-> ok, from |-> from]}
    PROVE  AnswersWhole'
<1>1. CASE reply' = {}
  BY <1>1 DEF AnswersWhole
<1>2. CASE \E a, r, kind, ok, from :
               from # "state" /\ reply' = {[by |-> a, req |-> r, kind |-> kind, ok |-> ok, from |-> from]}
  <2>1. PICK a, r, kind, ok, from :
               from # "state" /\ reply' = {[by |-> a, req |-> r, kind |-> kind, ok |-> ok, from |-> from]}
    BY <1>2
  <2>2. \A p \in reply' : p.from # "state"
    BY <2>1
  <2> QED BY <2>2 DEF AnswersWhole
<1> QED BY <1>1, <1>2

LEMMA BuiltNew ==
    ASSUME CommandsInv, NEW a \in CmdAdapter, NEW r, NEW kind, NEW n \in Nat, n <= MaxFields,
           Receive(a, r, kind, Built(a, r, n))
    PROVE  NewCommands(Built(a, r, n), a, r) /\ Len(Built(a, r, n)) = n
<1>1. messages < MaxMessages /\ r = messages + 1
  BY DEF Receive
<1> QED BY <1>1, BuiltFacts DEF CommandsInv, NewCommands

LEMMA NoneNew ==
    ASSUME NEW a, NEW r PROVE NewCommands(<<>>, a, r)
BY Bounds DEF NewCommands

LEMMA ReceiveQuietly ==
    ASSUME CommandsInv, NEW a \in CmdAdapter, NEW r, NEW kind, NEW s, NewCommands(s, a, r),
           Receive(a, r, kind, s), UNCHANGED handler, AnswersWhole'
    PROVE  CommandsInv'
<1>1. OldRequests /\ HandlersSane /\ OriginsSane
  BY ReceiveOrigins DEF CommandsInv
<1>2. HandlersSane'
  BY <1>1, HandlersStay
<1> QED BY <1>2, ReceiveStep

LEMMA IThingsDownlinkStep ==
    ASSUME CommandsInv, NEW a \in CmdAdapter, NEW r, NEW kind \in Kind, NEW n \in 0 .. MaxFields,
           IThingsDownlink(a, r, kind, n)
    PROVE  CommandsInv'
<1> DEFINE k == IF kind = "action" THEN 1 ELSE n
           s == Built(a, r, k)
<1>1. /\ a \in IThings /\ s # <<>> /\ Receive(a, r, kind, s)
      /\ handler' = [handler EXCEPT ![a] = [req |-> r, kind |-> kind, pending |-> Len(s)]]
      /\ reply' = {}
  BY DEF IThingsDownlink, IThingsCommands
<1>2. k \in Nat /\ k <= MaxFields
  BY Bounds
<1> HIDE DEF k
<1>3. NewCommands(s, a, r) /\ Len(s) = k
  BY <1>1, <1>2, BuiltNew
<1>4. k # 0
  BY <1>1, <1>3 DEF NewCommands
<1> HIDE DEF s
<1>5. /\ OldRequests /\ OriginsSane /\ r = messages + 1 /\ r \in DOMAIN origin' /\ origin'[r].by = a
      /\ origin'[r].nrs = nextNr .. nextNr + Len(s) - 1
  BY <1>1, <1>3, ReceiveOrigins DEF CommandsInv
<1>6. HandlersSane /\ nextNr \in Nat /\ nextNr >= 1
  BY DEF CommandsInv, CountersTyped
<1>7. /\ handler'[a] = [req |-> r, kind |-> kind, pending |-> k]
      /\ DOMAIN handler' = CmdAdapter
      /\ \A b \in CmdAdapter : b # a => handler'[b] = handler[b]
  BY <1>1, <1>3, <1>6 DEF HandlersSane
<1>8. HandlerFits(origin'[r].nrs, handler'[a])
  <2> DEFINE l == nextNr + k - 1
  <2>1. l \in Nat /\ nextNr <= l /\ k = l - nextNr + 1
    BY <1>2, <1>4, <1>6
  <2>2. Span(origin'[r].nrs, nextNr, l)
    BY <1>3, <1>5, <1>6, <2>1 DEF Span
  <2> HIDE DEF l
  <2>3. handler'[a].kind \in Kind /\ handler'[a].pending = k
    BY <1>7
  <2> QED BY <1>2, <1>6, <2>1, <2>2, <2>3 DEF HandlerFits
<1>9. HandlersSane'
  <2>1. \A x \in DOMAIN origin : x \in DOMAIN origin' /\ origin'[x] = origin[x]
    BY <1>5 DEF OldRequests, OriginsSane
  <2>2. handler'[a].req = r
    BY <1>7
  <2> QED BY <1>1, <1>5, <1>6, <1>7, <1>8, <2>1, <2>2 DEF HandlersSane
<1>10. AnswersWhole'
  BY <1>1, NothingPromised
<1> QED BY <1>1, <1>3, <1>9, <1>10, ReceiveStep

LEMMA SagooStep ==
    ASSUME CommandsInv, NEW a \in CmdAdapter, NEW r, NEW n \in 0 .. MaxFields,
           SagooPropertySet(a, r, n) \/ SagooServiceCall(a, r, n) \/ SagooConfigPush(a, r)
    PROVE  CommandsInv'
<1>1. CASE SagooPropertySet(a, r, n)
  <2>1. Receive(a, r, "control", Built(a, r, n)) /\ UNCHANGED handler
        /\ reply' = {[by |-> a, req |-> r, kind |-> "control", ok |-> TRUE, from |-> "receipt"]}
    BY <1>1 DEF SagooPropertySet, SagooCommands, Says
  <2>2. AnswersWhole'
    BY <2>1, NothingPromised
  <2>3. n \in Nat /\ n <= MaxFields
    BY Bounds
  <2> QED BY <2>1, <2>2, <2>3, BuiltNew, ReceiveQuietly
<1>2. CASE SagooServiceCall(a, r, n)
  <2>1. Receive(a, r, "action", IF n = 0 THEN <<>> ELSE Built(a, r, n)) /\ UNCHANGED handler
        /\ reply' = {[by |-> a, req |-> r, kind |-> "action", ok |-> TRUE, from |-> "receipt"]}
    BY <1>2 DEF SagooServiceCall, SagooCommands, Says
  <2>2. AnswersWhole'
    BY <2>1, NothingPromised
  <2>3. n \in Nat /\ n <= MaxFields
    BY Bounds
  <2>4. CASE n = 0
    <3>1. Receive(a, r, "action", <<>>)
      BY <2>1, <2>4
    <3> QED BY <2>1, <2>2, <3>1, NoneNew, ReceiveQuietly
  <2>5. CASE n # 0
    <3>1. Receive(a, r, "action", Built(a, r, n))
      BY <2>1, <2>5
    <3> QED BY <2>1, <2>2, <2>3, <3>1, BuiltNew, ReceiveQuietly
  <2> QED BY <2>4, <2>5
<1>3. CASE SagooConfigPush(a, r)
  <2>1. Receive(a, r, "config", <<>>) /\ UNCHANGED handler
        /\ reply' = {[by |-> a, req |-> r, kind |-> "config", ok |-> TRUE, from |-> "receipt"]}
    BY <1>3 DEF SagooConfigPush, Says
  <2>2. AnswersWhole'
    BY <2>1, NothingPromised
  <2> QED BY <2>1, <2>2, NoneNew, ReceiveQuietly
<1> QED BY <1>1, <1>2, <1>3

LEMMA PandaXStep ==
    ASSUME CommandsInv, NEW a \in CmdAdapter, NEW r, NEW n \in 0 .. MaxFields, PandaXRequest(a, r, n)
    PROVE  CommandsInv'
<1> DEFINE k == IF n = 0 THEN 1 ELSE n
<1>1. Receive(a, r, "control", Built(a, r, k)) /\ UNCHANGED handler /\ reply' = {}
  BY DEF PandaXRequest, PandaXCommands
<1>2. k \in Nat /\ k <= MaxFields
  BY Bounds
<1> HIDE DEF k
<1>3. AnswersWhole'
  BY <1>1, NothingPromised
<1> QED BY <1>1, <1>2, <1>3, BuiltNew, ReceiveQuietly

-----------------------------------------------------------------------------
(* The handler keeps the state of its request; an adapter is removed.       *)

\* Whatever was reported before, a state begins with every command of the
\* request, so the results that came too early are missing.
LEMMA FirstState ==
    ASSUME NEW F, NEW N, NEW n \in Nat, NEW h, HandlerFits(N, h)
    PROVE  StateFits(F, N, n, [kind |-> h.kind, pending |-> h.pending, ok |-> TRUE])
<1>1. PICK f \in Nat, l \in Nat : Span(N, f, l) /\ f <= l /\ h.pending = l - f + 1 /\ h.pending <= MaxFields
  BY DEF HandlerFits
<1> DEFINE state == [kind |-> h.kind, pending |-> h.pending, ok |-> TRUE]
<1>2. h.kind \in Kind /\ h.pending \in 1 .. MaxFields
  BY <1>1, Bounds DEF HandlerFits
<1>3. state \in [kind : Kind, pending : 1 .. MaxFields, ok : BOOLEAN] /\ state.pending = h.pending
  BY <1>2
<1>4. Counts(F, f, l, n, h.pending)
  BY <1>1 DEF Counts
<1> HIDE DEF state
<1>5. StateFits(F, N, n, state)
  BY <1>1, <1>3, <1>4 DEF StateFits
<1> QED BY <1>5 DEF state

LEMMA RegisterStep ==
    ASSUME CommandsInv, NEW a \in CmdAdapter, RegisterRequest(a)
    PROVE  CommandsInv'
<1>0. CountersTyped /\ HandlersSane /\ StatesSane
  BY DEF CommandsInv
<1> DEFINE r == handler[a].req
           first == [kind |-> handler[a].kind, pending |-> handler[a].pending, ok |-> TRUE]
<1>1. /\ UNCHANGED <<enabledAdapters, commandQueue, poll, messages, nextNr, origin, executed, ran, failedRun, reported>>
      /\ handler[a] # NoMessage /\ reply' = {}
      /\ handler' = [handler EXCEPT ![a] = NoMessage]
  BY DEF RegisterRequest, ghosts
<1>2. a \in IThings /\ r \in DOMAIN origin /\ origin[r].by = a /\ HandlerFits(origin[r].nrs, handler[a])
  BY <1>0, <1>1 DEF HandlersSane
<1>3. HandlersSane'
  <2>1. DOMAIN handler' = CmdAdapter /\ handler'[a] = NoMessage
        /\ \A b \in CmdAdapter : b # a => handler'[b] = handler[b]
    BY <1>0, <1>1 DEF HandlersSane
  <2>2. ASSUME NEW b \in CmdAdapter, handler'[b] # NoMessage
        PROVE  /\ b \in IThings /\ handler'[b].req \in DOMAIN origin /\ origin[handler'[b].req].by = b
               /\ HandlerFits(origin[handler'[b].req].nrs, handler'[b])
    <3>1. b # a /\ handler'[b] = handler[b]
      BY <2>1, <2>2
    <3> QED BY <1>0, <2>2, <3>1 DEF HandlersSane
  <2> QED BY <1>1, <2>1, <2>2 DEF HandlersSane
<1>4. reported[a] \in Nat
  BY <1>0, Bounds DEF CountersTyped, CommandNr
<1>5. StateFits(ran, origin[r].nrs, reported[a], first)
  BY <1>2, <1>4, FirstState
<1>6. StatesSane' /\ CountersTyped'
  <2>1. CASE a \in enabledAdapters
    <3> DEFINE S == [x \in DOMAIN requestStates[a] \cup {r} |-> IF x = r THEN first ELSE requestStates[a][x]]
    <3>1. requestStates' = [requestStates EXCEPT ![a] = S] /\ UNCHANGED cmdPanicked
      BY <2>1 DEF RegisterRequest
    <3>2. \A x \in DOMAIN S : /\ x \in DOMAIN origin /\ origin[x].by = a
                              /\ StateFits(ran, origin[x].nrs, reported[a], S[x])
      BY <1>0, <1>2, <1>5 DEF StatesSane
    <3> HIDE DEF S
    <3>3. DOMAIN requestStates' = CmdAdapter /\ requestStates'[a] = S
          /\ \A b \in CmdAdapter : b # a => requestStates'[b] = requestStates[b]
      BY <1>0, <3>1 DEF StatesSane
    <3>4. ASSUME NEW b \in CmdAdapter
          PROVE  /\ b \notin IThings => requestStates'[b] = NoStates
                 /\ \A x \in DOMAIN requestStates'[b] :
                        /\ x \in DOMAIN origin /\ origin[x].by = b
                        /\ StateFits(ran, origin[x].nrs, reported[b], requestStates'[b][x])
      <4>1. CASE b = a
        BY <1>2, <3>2, <3>3, <4>1
      <4>2. CASE b # a
        BY <1>0, <3>3, <4>2 DEF StatesSane
      <4> QED BY <4>1, <4>2
    <3>5. StatesSane'
      BY <1>1, <3>3, <3>4 DEF StatesSane
    <3> QED BY <1>0, <1>1, <3>1, <3>5 DEF CountersTyped
  <2>2. CASE a \notin enabledAdapters
    <3>1. UNCHANGED requestStates /\ cmdPanicked' = TRUE
      BY <2>2 DEF RegisterRequest
    <3> QED BY <1>0, <1>1, <3>1 DEF CountersTyped, StatesSane
  <2> QED BY <2>1, <2>2
<1>7. AnswersWhole'
  BY <1>1, NothingPromised
<1>8. OriginsSane' /\ Below' /\ FailuresSane'
  BY <1>1 DEF CommandsInv, OriginsSane, Below, FailuresSane
<1>9. QueuesSane' /\ BatchSane' /\ LineSane' /\ ReportsSane'
  <2>1. QueuesSane /\ BatchSane /\ LineSane /\ ReportsSane
    BY DEF CommandsInv
  <2>2. QueuesSane'
    BY <1>1, <2>1 DEF QueuesSane, Ordered
  <2>3. BatchSane'
    BY <1>1, <2>1 DEF BatchSane, Ordered
  <2>4. LineSane'
    BY <1>1, <2>1 DEF LineSane
  <2>5. ReportsSane'
    BY <1>1, <2>1 DEF ReportsSane
  <2> QED BY <2>2, <2>3, <2>4, <2>5
<1> QED BY <1>3, <1>6, <1>7, <1>8, <1>9 DEF CommandsInv

LEMMA RemoveStep ==
    ASSUME CommandsInv, NEW a \in CmdAdapter, RemoveAdapter(a)
    PROVE  CommandsInv'
<1>0. CountersTyped /\ QueuesSane /\ BatchSane /\ LineSane /\ StatesSane
  BY DEF CommandsInv
<1>1. /\ UNCHANGED <<handler, poll, messages, nextNr, origin, executed, ran, failedRun, reported, cmdPanicked>>
      /\ enabledAdapters' = enabledAdapters \ {a} /\ reply' = {}
      /\ commandQueue' = [commandQueue EXCEPT ![a] = <<>>]
      /\ requestStates' = [requestStates EXCEPT ![a] = NoStates]
  BY DEF RemoveAdapter, ghosts
<1>2. /\ commandQueue'[a] = <<>> /\ \A b \in CmdAdapter : b # a => commandQueue'[b] = commandQueue[b]
      /\ commandQueue' \in [CmdAdapter -> Seq(Command)]
  BY <1>0, <1>1 DEF QueuesSane
<1>3. /\ requestStates'[a] = NoStates /\ \A b \in CmdAdapter : b # a => requestStates'[b] = requestStates[b]
      /\ DOMAIN requestStates' = CmdAdapter
  BY <1>0, <1>1 DEF StatesSane
<1>4. QueuesSane'
  <2>1. ASSUME NEW b \in CmdAdapter
        PROVE  /\ Len(commandQueue'[b]) <= CommandCap /\ Ordered(commandQueue'[b])
               /\ \A i \in 1 .. Len(commandQueue'[b]) :
                    /\ Known(origin, commandQueue'[b][i]) /\ commandQueue'[b][i].by = b
                    /\ executed[b] < commandQueue'[b][i].nr
    <3>1. CASE b = a
      BY <1>2, <3>1, Bounds DEF Ordered
    <3>2. CASE b # a
      BY <1>0, <1>2, <3>2 DEF QueuesSane
    <3> QED BY <3>1, <3>2
  <2> QED BY <1>1, <1>2, <2>1 DEF QueuesSane, Ordered
<1>5. LineSane'
  <2> SUFFICES ASSUME NEW i \in 1 .. Len(poll.batch), NEW j \in 1 .. Len(commandQueue'[poll.batch[i].by])
               PROVE  poll.batch[i].nr < commandQueue'[poll.batch[i].by][j].nr
    BY <1>1 DEF LineSane
  <2>1. poll.batch[i].by # a
    BY <1>2
  <2>2. poll.batch[i].by \in CmdAdapter
    BY <1>0 DEF BatchSane, Known, Command
  <2>3. commandQueue'[poll.batch[i].by] = commandQueue[poll.batch[i].by]
    BY <1>2, <2>1, <2>2
  <2> QED BY <1>0, <2>3 DEF LineSane
<1>6. StatesSane'
  <2>1. DOMAIN NoStates = {}
    BY DEF NoStates
  <2>2. ASSUME NEW b \in CmdAdapter
        PROVE  /\ b \notin IThings => requestStates'[b] = NoStates
               /\ \A x \in DOMAIN requestStates'[b] :
                      /\ x \in DOMAIN origin /\ origin[x].by = b
                      /\ StateFits(ran, origin[x].nrs, reported[b], requestStates'[b][x])
    <3>1. CASE b = a
      BY <1>3, <2>1, <3>1
    <3>2. CASE b # a
      BY <1>0, <1>3, <3>2 DEF StatesSane
    <3> QED BY <3>1, <3>2
  <2> QED BY <1>1, <1>3, <2>2 DEF StatesSane
<1>7. CountersTyped'
  BY <1>0, <1>1 DEF CountersTyped
<1>8. AnswersWhole'
  BY <1>1, NothingPromised
<1>9. OriginsSane' /\ Below' /\ FailuresSane' /\ HandlersSane'
  BY <1>1 DEF CommandsInv, OriginsSane, Below, FailuresSane, HandlersSane
<1>10. BatchSane' /\ ReportsSane'
  BY <1>1 DEF CommandsInv, BatchSane, ReportsSane, Ordered
<1> QED BY <1>4, <1>5, <1>6, <1>7, <1>8, <1>9, <1>10 DEF CommandsInv

-----------------------------------------------------------------------------
(* The worker pulls the commands.                                           *)

LEMMA PollOnly ==
    ASSUME CommandsInv, BatchSane', LineSane', ReportsSane', reply' = {},
           UNCHANGED <<enabledAdapters, commandQueue, requestStates, handler, messages, nextNr, ghosts, cmdPanicked>>
    PROVE  CommandsInv'
<1>1. UNCHANGED <<origin, executed, ran, failedRun, reported>>
  BY DEF ghosts
<1>2. CountersTyped' /\ OriginsSane' /\ Below' /\ FailuresSane'
  BY <1>1 DEF CommandsInv, CountersTyped, OriginsSane, Below, FailuresSane
<1>3. QueuesSane'
  BY <1>1 DEF CommandsInv, QueuesSane, Ordered
<1>4. HandlersSane' /\ StatesSane'
  BY <1>1 DEF CommandsInv, HandlersSane, StatesSane
<1>5. AnswersWhole'
  BY NothingPromised
<1> QED BY <1>2, <1>3, <1>4, <1>5 DEF CommandsInv

\* A poll with nothing in hand.
LEMMA EmptyHanded ==
    ASSUME CommandsInv, NEW v, v = poll', v.batch = <<>>, v.pc \in {"idle", "pull"},
           DOMAIN v = {"pc", "left", "batch", "ok"}, v.left \subseteq CmdAdapter, UNCHANGED <<executed, reported>>
    PROVE  BatchSane' /\ LineSane' /\ ReportsSane'
<1>1. Len(v.batch) = 0 /\ v.batch \in Seq(Command)
  OBVIOUS
<1>2. BatchSane'
  BY <1>1, Bounds DEF BatchSane, Ordered
<1>3. LineSane'
  BY <1>1 DEF LineSane
<1>4. ReportsSane'
  BY DEF CommandsInv, ReportsSane
<1> QED BY <1>2, <1>3, <1>4

LEMMA TickStep ==
    ASSUME CommandsInv, PollTick
    PROVE  CommandsInv'
<1> DEFINE v == [NoPoll EXCEPT !.pc = "pull", !.left = enabledAdapters]
<1>1. v = poll' /\ reply' = {}
      /\ UNCHANGED <<enabledAdapters, commandQueue, requestStates, handler, messages, nextNr, ghosts, cmdPanicked>>
  BY DEF PollTick
<1>2. DOMAIN v = {"pc", "left", "batch", "ok"} /\ v.pc = "pull" /\ v.left = enabledAdapters /\ v.batch = <<>>
  BY DEF NoPoll
<1> HIDE DEF v
<1>3. v.left \subseteq CmdAdapter /\ UNCHANGED <<executed, reported>>
  BY <1>1, <1>2 DEF CommandsInv, CountersTyped, ghosts
<1>4. BatchSane' /\ LineSane' /\ ReportsSane'
  BY <1>1, <1>2, <1>3, EmptyHanded
<1> QED BY <1>1, <1>4, PollOnly

\* A batch that goes on to be run, whole or without its first command.
LEMMA RunStep ==
    ASSUME CommandsInv, NEW v, v = poll', DOMAIN v = {"pc", "left", "batch", "ok"}, v.pc = "run", v.left = {},
           NEW k \in {1, 2}, k <= Len(poll.batch), k = 2 \/ poll.pc # "report",
           v.batch = SubSeq(poll.batch, k, Len(poll.batch)), reply' = {},
           UNCHANGED <<enabledAdapters, commandQueue, requestStates, handler, messages, nextNr, ghosts, cmdPanicked>>
    PROVE  CommandsInv'
<1>0. BatchSane /\ LineSane /\ ReportsSane
  BY DEF CommandsInv
<1>1. UNCHANGED <<origin, executed, ran, failedRun, reported, commandQueue>>
  BY DEF ghosts
<1>2. poll.batch \in Seq(Command) /\ Len(poll.batch) \in Nat /\ Len(poll.batch) <= PullLimit /\ Ordered(poll.batch)
  BY <1>0 DEF BatchSane
<1> DEFINE n == Len(poll.batch)
<1>3. n \in Nat /\ k \in Nat /\ 1 <= k /\ k <= n
  BY <1>2
<1>4. v.batch \in Seq(Command) /\ Len(v.batch) = n - k + 1 /\ Ordered(v.batch)
      /\ \A i \in 1 .. n - k + 1 : v.batch[i] = poll.batch[k + i - 1]
  BY <1>2, <1>3, PartOf, PartOrdered
<1>5. \A i \in 1 .. n - k + 1 : k + i - 1 \in 1 .. n /\ (k = 2 => k + i - 1 > 1)
  BY <1>3
<1> HIDE DEF n
<1>6. \A i \in 1 .. n - k + 1 : /\ Known(origin, v.batch[i]) /\ executed[v.batch[i].by] < v.batch[i].nr
                                /\ v.batch[i].by \in CmdAdapter
                                /\ \A j \in 1 .. Len(commandQueue[v.batch[i].by]) :
                                        v.batch[i].nr < commandQueue[v.batch[i].by][j].nr
  <2> SUFFICES ASSUME NEW i \in 1 .. n - k + 1
               PROVE  /\ Known(origin, v.batch[i]) /\ executed[v.batch[i].by] < v.batch[i].nr
                      /\ v.batch[i].by \in CmdAdapter
                      /\ \A j \in 1 .. Len(commandQueue[v.batch[i].by]) :
                                        v.batch[i].nr < commandQueue[v.batch[i].by][j].nr
    OBVIOUS
  <2> DEFINE h == k + i - 1
  <2>1. v.batch[i] = poll.batch[h] /\ h \in 1 .. Len(poll.batch) /\ (h > 1 \/ poll.pc # "report")
    BY <1>4, <1>5 DEF n
  <2> HIDE DEF h
  <2>2. Known(origin, poll.batch[h]) /\ executed[poll.batch[h].by] < poll.batch[h].nr
    BY <1>0, <2>1 DEF BatchSane
  <2>3. poll.batch[h].by \in CmdAdapter
    BY <2>2 DEF Known, Command
  <2>4. \A j \in 1 .. Len(commandQueue[poll.batch[h].by]) : poll.batch[h].nr < commandQueue[poll.batch[h].by][j].nr
    BY <1>0, <2>1 DEF LineSane
  <2> QED BY <2>1, <2>2, <2>3, <2>4
<1>7. Len(v.batch) <= PullLimit /\ v.batch # <<>>
  <2>1. Len(v.batch) = n - k + 1 /\ n \in Nat /\ k \in Nat /\ 1 <= k /\ k <= n /\ n <= PullLimit
    BY <1>2, <1>3, <1>4 DEF n
  <2>2. Len(v.batch) <= PullLimit /\ Len(v.batch) # 0
    BY <2>1, Bounds
  <2> QED BY <2>2
<1>8. BatchSane'
  BY <1>1, <1>4, <1>6, <1>7 DEF BatchSane, Ordered
<1>9. LineSane'
  BY <1>1, <1>4, <1>6 DEF LineSane
<1>10. ReportsSane'
  BY <1>0, <1>1 DEF ReportsSane
<1> QED BY <1>8, <1>9, <1>10, PollOnly

LEMMA PullEndsStep ==
    ASSUME CommandsInv, PullEnds
    PROVE  CommandsInv'
<1>0. BatchSane
  BY DEF CommandsInv
<1>1. /\ poll.pc = "pull" /\ reply' = {}
      /\ UNCHANGED <<enabledAdapters, commandQueue, requestStates, handler, messages, nextNr, ghosts, cmdPanicked>>
      /\ poll' = IF poll.batch = <<>> THEN NoPoll ELSE [poll EXCEPT !.pc = "run", !.left = {}]
  BY DEF PullEnds
<1>2. CASE poll.batch = <<>>
  <2>1. poll' = NoPoll
    BY <1>1, <1>2
  <2> DEFINE v == NoPoll
  <2>2. v = poll' /\ v.batch = <<>> /\ v.pc = "idle" /\ DOMAIN v = {"pc", "left", "batch", "ok"} /\ v.left = {}
    BY <2>1 DEF NoPoll
  <2> HIDE DEF v
  <2>3. BatchSane' /\ LineSane' /\ ReportsSane'
    BY <1>1, <2>2, EmptyHanded DEF ghosts
  <2> QED BY <1>1, <2>3, PollOnly
<1>3. CASE poll.batch # <<>>
  <2> DEFINE v == [poll EXCEPT !.pc = "run", !.left = {}]
  <2>1. v = poll'
    BY <1>1, <1>3
  <2>2. v.batch = poll.batch /\ v.pc = "run" /\ v.left = {} /\ DOMAIN v = {"pc", "left", "batch", "ok"}
    BY <1>0 DEF BatchSane
  <2> HIDE DEF v
  <2>3. poll.batch \in Seq(Command) /\ Len(poll.batch) >= 1 /\ Len(poll.batch) \in Nat
    BY <1>0, <1>3 DEF BatchSane
  <2>4. v.batch = SubSeq(poll.batch, 1, Len(poll.batch))
    BY <2>2, <2>3
  <2> QED BY <1>1, <2>1, <2>2, <2>3, <2>4, RunStep
<1> QED BY <1>2, <1>3

LEMMA ReportEndsStep ==
    ASSUME CommandsInv, ReportEnds
    PROVE  CommandsInv'
<1>0. BatchSane
  BY DEF CommandsInv
<1>1. /\ poll.pc = "report" /\ poll.left = {} /\ reply' = {}
      /\ UNCHANGED <<enabledAdapters, commandQueue, requestStates, handler, messages, nextNr, ghosts, cmdPanicked>>
      /\ poll' = IF Len(poll.batch) = 1 THEN NoPoll
                 ELSE [poll EXCEPT !.pc = "run", !.batch = Tail(@)]
  BY DEF ReportEnds
<1>2. CASE Len(poll.batch) = 1
  <2>1. poll' = NoPoll
    BY <1>1, <1>2
  <2> DEFINE v == NoPoll
  <2>2. v = poll' /\ v.batch = <<>> /\ v.pc = "idle" /\ DOMAIN v = {"pc", "left", "batch", "ok"} /\ v.left = {}
    BY <2>1 DEF NoPoll
  <2> HIDE DEF v
  <2>3. BatchSane' /\ LineSane' /\ ReportsSane'
    BY <1>1, <2>2, EmptyHanded DEF ghosts
  <2> QED BY <1>1, <2>3, PollOnly
<1>3. CASE Len(poll.batch) # 1
  <2> DEFINE v == [poll EXCEPT !.pc = "run", !.batch = Tail(@)]
  <2>1. v = poll'
    BY <1>1, <1>3
  <2>2. v.batch = Tail(poll.batch) /\ v.pc = "run" /\ v.left = {} /\ DOMAIN v = {"pc", "left", "batch", "ok"}
    BY <1>0, <1>1 DEF BatchSane
  <2> HIDE DEF v
  <2>3. poll.batch \in Seq(Command) /\ Len(poll.batch) >= 2 /\ Len(poll.batch) \in Nat
    <3>1. poll.batch \in Seq(Command) /\ poll.batch # <<>>
      BY <1>0, <1>1 DEF BatchSane
    <3>2. Len(poll.batch) # 0 /\ Len(poll.batch) \in Nat
      BY <3>1
    <3> DEFINE n == Len(poll.batch)
    <3>3. n \in Nat /\ n # 0 /\ n # 1
      BY <1>3, <3>2
    <3> HIDE DEF n
    <3>4. n >= 2
      BY ONLY <3>3
    <3> QED BY <3>1, <3>2, <3>4 DEF n
  <2>4. v.batch = SubSeq(poll.batch, 2, Len(poll.batch))
    BY <2>2, <2>3
  <2> QED BY <1>1, <2>1, <2>2, <2>3, <2>4, RunStep
<1> QED BY <1>2, <1>3

LEMMA PullStep ==
    ASSUME CommandsInv, NEW a \in CmdAdapter, Pulling(a)
    PROVE  CommandsInv'
<1>0. CountersTyped /\ QueuesSane /\ BatchSane /\ LineSane /\ ReportsSane
  BY DEF CommandsInv
<1> DEFINE q == commandQueue[a]
           b == poll.batch
           room == PullLimit - Len(b)
           n == IF Len(q) < room THEN Len(q) ELSE room
           s == SubSeq(q, 1, n)
           t == SubSeq(q, n + 1, Len(q))
           v == [poll EXCEPT !.left = @ \ {a}, !.batch = b \o s]
<1>1. /\ poll.pc = "pull" /\ Len(b) < PullLimit /\ reply' = {}
      /\ poll' = v /\ commandQueue' = [commandQueue EXCEPT ![a] = t]
      /\ UNCHANGED <<enabledAdapters, requestStates, handler, messages, nextNr, origin, executed, ran, failedRun, reported, cmdPanicked>>
  BY <1>0 DEF Pulling, Rest, ghosts, BatchSane
<1>2. /\ q \in Seq(Command) /\ Len(q) \in Nat /\ Len(q) <= CommandCap /\ Ordered(q)
      /\ \A i \in 1 .. Len(q) : Known(origin, q[i]) /\ q[i].by = a /\ executed[a] < q[i].nr
  BY <1>0 DEF QueuesSane
<1>3. /\ b \in Seq(Command) /\ Len(b) \in Nat /\ Ordered(b)
      /\ \A i \in 1 .. Len(b) : /\ Known(origin, b[i]) /\ executed[b[i].by] < b[i].nr
                                /\ b[i].by = a => \A j \in 1 .. Len(q) : b[i].nr < q[j].nr
  <2>1. \A i \in 1 .. Len(b) : b[i].by = a => \A j \in 1 .. Len(q) : b[i].nr < q[j].nr
    BY <1>0 DEF LineSane
  <2> QED BY <1>0, <1>1, <2>1 DEF BatchSane
<1>4. n \in Nat /\ n <= Len(q) /\ Len(b) + n <= PullLimit
  BY <1>1, <1>2, <1>3, Bounds
<1>5. v.left \subseteq CmdAdapter /\ v.batch = b \o s /\ v.pc = "pull" /\ DOMAIN v = {"pc", "left", "batch", "ok"}
  BY <1>0, <1>1 DEF BatchSane
<1> HIDE DEF q, b, room, n, v
<1>6. s \in Seq(Command) /\ Len(s) = n /\ Ordered(s) /\ \A i \in 1 .. n : s[i] = q[i] /\ i \in 1 .. Len(q)
  <2>1. s \in Seq(Command) /\ Len(s) = n - 1 + 1 /\ \A i \in 1 .. n - 1 + 1 : s[i] = q[1 + i - 1]
    BY <1>2, <1>4, PartOf
  <2>2. Ordered(s)
    BY <1>2, <1>4, PartOrdered
  <2>3. n - 1 + 1 = n
    BY <1>4
  <2>4. \A i \in 1 .. n : 1 + i - 1 = i /\ i \in 1 .. Len(q)
    BY <1>2, <1>4
  <2> HIDE DEF s
  <2> QED BY <2>1, <2>2, <2>3, <2>4
<1>7. /\ t \in Seq(Command) /\ Len(t) = Len(q) - n /\ Ordered(t)
      /\ \A i \in 1 .. Len(q) - n : t[i] = q[n + i] /\ n + i \in 1 .. Len(q)
  <2>1. t \in Seq(Command) /\ Len(t) = Len(q) - (n + 1) + 1
        /\ \A i \in 1 .. Len(q) - (n + 1) + 1 : t[i] = q[n + 1 + i - 1]
    BY <1>2, <1>4, PartOf
  <2>2. Ordered(t)
    BY <1>2, <1>4, PartOrdered
  <2>3. Len(q) - (n + 1) + 1 = Len(q) - n
    BY <1>2, <1>4
  <2>4. \A i \in 1 .. Len(q) - n : n + 1 + i - 1 = n + i /\ n + i \in 1 .. Len(q)
    BY <1>2, <1>4
  <2> HIDE DEF t
  <2> QED BY <2>1, <2>2, <2>3, <2>4
<1> HIDE DEF s, t
<1>8. /\ b \o s \in Seq(Command) /\ Len(b \o s) = Len(b) + n
      /\ \A i \in 1 .. Len(b) : (b \o s)[i] = b[i]
      /\ \A i \in 1 .. n : (b \o s)[Len(b) + i] = s[i]
  <2>1. /\ b \o s \in Seq(Command) /\ Len(b \o s) = Len(b) + Len(s)
        /\ \A i \in 1 .. Len(b) : (b \o s)[i] = b[i]
        /\ \A i \in 1 .. Len(s) : (b \o s)[Len(b) + i] = s[i]
    <3>1. b \in Seq(Command) /\ s \in Seq(Command)
      BY <1>3, <1>6
    <3> QED BY ONLY <3>1, JoinOf
  <2>2. Len(s) = n
    BY <1>6
  <2> HIDE DEF n
  <2> QED BY <2>1, <2>2
<1>9. Ordered(b \o s)
  <2>1. \A i \in 1 .. Len(b), j \in 1 .. Len(s) : b[i].by = s[j].by => b[i].nr < s[j].nr
    BY <1>2, <1>3, <1>6
  <2> QED BY <1>3, <1>6, <2>1, JoinOrdered
<1>10. /\ commandQueue'[a] = t /\ \A c \in CmdAdapter : c # a => commandQueue'[c] = commandQueue[c]
       /\ commandQueue' \in [CmdAdapter -> Seq(Command)]
  BY <1>0, <1>1, <1>7 DEF QueuesSane
<1>11. QueuesSane'
  <2>1. ASSUME NEW c \in CmdAdapter
        PROVE  /\ Len(commandQueue'[c]) <= CommandCap /\ Ordered(commandQueue'[c])
               /\ \A i \in 1 .. Len(commandQueue'[c]) :
                    /\ Known(origin, commandQueue'[c][i]) /\ commandQueue'[c][i].by = c
                    /\ executed[c] < commandQueue'[c][i].nr
    <3>1. CASE c = a
      <4>1. Len(t) <= CommandCap /\ Ordered(t)
        BY <1>2, <1>4, <1>7, Bounds
      <4>2. \A i \in 1 .. Len(t) : Known(origin, t[i]) /\ t[i].by = a /\ executed[a] < t[i].nr
        BY <1>2, <1>7
      <4> QED BY <1>10, <3>1, <4>1, <4>2
    <3>2. CASE c # a
      BY <1>0, <1>10, <3>2 DEF QueuesSane
    <3> QED BY <3>1, <3>2
  <2> QED BY <1>1, <1>10, <2>1 DEF QueuesSane, Ordered
<1>12. ASSUME NEW i \in 1 .. Len(b \o s)
       PROVE  \/ i \in 1 .. Len(b) /\ (b \o s)[i] = b[i]
              \/ \E j \in 1 .. n : (b \o s)[i] = q[j]
  <2>1. CASE i <= Len(b)
    BY <1>3, <1>8, <2>1
  <2>2. CASE i > Len(b)
    <3> DEFINE k == i - Len(b)
    <3>1. k \in 1 .. n /\ i = Len(b) + k
      BY <1>3, <1>4, <1>8, <2>2
    <3> HIDE DEF k
    <3>2. (b \o s)[i] = q[k]
      BY <1>6, <1>8, <3>1
    <3> QED BY <3>1, <3>2
  <2> QED BY <1>3, <2>1, <2>2
<1> DEFINE w == b \o s
<1>13. w \in Seq(Command) /\ Len(w) <= PullLimit /\ Ordered(w) /\ v.batch = w
  BY <1>4, <1>5, <1>8, <1>9
<1>14. \A i \in 1 .. Len(w) : \/ i \in 1 .. Len(b) /\ w[i] = b[i]
                              \/ \E j \in 1 .. n : w[i] = q[j]
  BY <1>12
<1> HIDE DEF w
<1>15. BatchSane'
  <2>1. ASSUME NEW i \in 1 .. Len(w) PROVE Known(origin, w[i]) /\ executed[w[i].by] < w[i].nr
    <3>1. CASE i \in 1 .. Len(b) /\ w[i] = b[i]
      BY <1>3, <3>1
    <3>2. CASE \E j \in 1 .. n : w[i] = q[j]
      BY <1>2, <1>6, <3>2
    <3> QED BY <1>14, <3>1, <3>2
  <2> QED BY <1>1, <1>5, <1>13, <2>1 DEF BatchSane, Ordered
<1>16. LineSane'
  <2>1. ASSUME NEW i \in 1 .. Len(w), NEW j \in 1 .. Len(commandQueue'[w[i].by])
        PROVE  w[i].nr < commandQueue'[w[i].by][j].nr
    <3>1. CASE w[i].by = a
      <4>1. j \in 1 .. Len(q) - n /\ commandQueue'[w[i].by][j] = q[n + j] /\ n + j \in 1 .. Len(q)
        BY <1>7, <1>10, <2>1, <3>1
      <4>2. CASE i \in 1 .. Len(b) /\ w[i] = b[i]
        BY <1>3, <3>1, <4>1, <4>2
      <4>3. CASE \E k \in 1 .. n : w[i] = q[k]
        <5>1. PICK k \in 1 .. n : w[i] = q[k]
          BY <4>3
        <5>2. k \in 1 .. Len(q) /\ k < n + j /\ q[k].by = q[n + j].by
          BY <1>2, <1>4, <4>1, <5>1
        <5>3. q[k].nr < q[n + j].nr
          BY <1>2, <4>1, <5>2 DEF Ordered
        <5> QED BY <4>1, <5>1, <5>3
      <4> QED BY <1>14, <4>2, <4>3
    <3>2. CASE w[i].by # a
      <4>1. i \in 1 .. Len(b) /\ w[i] = b[i]
        BY <1>2, <1>6, <1>14, <3>2
      <4>2. w[i].by \in CmdAdapter
        BY <1>3, <4>1 DEF Known, Command
      <4>3. commandQueue'[w[i].by] = commandQueue[w[i].by]
        BY <1>10, <3>2, <4>2
      <4> QED BY <1>0, <2>1, <4>1, <4>3 DEF LineSane, b
    <3> QED BY <3>1, <3>2
  <2> QED BY <1>1, <1>13, <2>1 DEF LineSane
<1>17. ReportsSane'
  BY <1>0, <1>1, <1>5 DEF ReportsSane
<1>18. CountersTyped' /\ OriginsSane' /\ Below' /\ FailuresSane'
  BY <1>1 DEF CommandsInv, CountersTyped, OriginsSane, Below, FailuresSane
<1>19. HandlersSane' /\ StatesSane'
  BY <1>1 DEF CommandsInv, HandlersSane, StatesSane
<1>20. AnswersWhole'
  BY <1>1, NothingPromised
<1> QED BY <1>11, <1>15, <1>16, <1>17, <1>18, <1>19, <1>20 DEF CommandsInv

-----------------------------------------------------------------------------
(* The worker runs a command and reports its result.                        *)

\* A failure that was not reported yet, or is no command of the request,
\* changes nothing for its state.
LEMMA MoreRun ==
    ASSUME NEW R, NEW Q, NEW N, NEW n \in Nat, NEW state, StateFits(R, N, n, state), R \subseteq Q
    PROVE  StateFits(Q, N, n, state)
<1>1. PICK f \in Nat, l \in Nat : Span(N, f, l) /\ f <= l /\ Counts(R, f, l, n, state.pending)
  BY DEF StateFits
<1>2. Counts(Q, f, l, n, state.pending)
  BY <1>1 DEF Counts
<1> QED BY <1>1, <1>2 DEF StateFits

LEMMA HeadIsFirst ==
    ASSUME BatchSane, poll.pc \in {"run", "report"}
    PROVE  /\ Len(poll.batch) \in Nat /\ Len(poll.batch) >= 1 /\ 1 \in 1 .. Len(poll.batch)
           /\ Head(poll.batch) = poll.batch[1] /\ Known(origin, poll.batch[1])
<1>1. poll.batch \in Seq(Command) /\ poll.batch # <<>>
  BY DEF BatchSane
<1>2. Len(poll.batch) \in Nat /\ Len(poll.batch) >= 1 /\ 1 \in 1 .. Len(poll.batch) /\ Head(poll.batch) = poll.batch[1]
  BY <1>1
<1> QED BY <1>2 DEF BatchSane

LEMMA RunFacts ==
    ASSUME CommandsInv, NEW ok \in BOOLEAN, Execute(ok), NEW c, c = poll.batch[1]
    PROVE  /\ c.by \in CmdAdapter /\ c.nr \in Nat /\ c.nr \in CommandNr /\ c.nr < nextNr
           /\ Known(origin, c) /\ executed[c.by] < c.nr
           /\ executed' = [executed EXCEPT ![c.by] = c.nr]
           /\ executed'[c.by] = c.nr /\ \A a \in CmdAdapter : a # c.by => executed'[a] = executed[a]
           /\ \A a \in CmdAdapter : executed[a] \in Nat /\ executed'[a] \in Nat /\ executed[a] <= executed'[a]
                                    /\ reported[a] \in Nat
           /\ failedRun' \subseteq failedRun \cup {c.nr} /\ (ok = TRUE => failedRun' = failedRun)
           /\ ran \subseteq ran' /\ (c.by \in IThings => c.nr \in ran' /\ (ok = FALSE => c.nr \in failedRun'))
           /\ poll' = [poll EXCEPT !.pc = "report", !.ok = ok, !.left = enabledAdapters]
           /\ poll.pc = "run" /\ reply' = {}
           /\ UNCHANGED <<enabledAdapters, commandQueue, requestStates, handler, messages, nextNr, origin, reported, cmdPanicked>>
<1>0. CountersTyped /\ OriginsSane /\ BatchSane
  BY DEF CommandsInv
<1>1. poll.pc = "run" /\ reply' = {}
      /\ UNCHANGED <<enabledAdapters, commandQueue, requestStates, handler, messages, nextNr, origin, reported, cmdPanicked>>
      /\ poll' = [poll EXCEPT !.pc = "report", !.ok = ok, !.left = enabledAdapters]
  BY DEF Execute
<1>2. 1 \in 1 .. Len(poll.batch) /\ Head(poll.batch) = c /\ Known(origin, c)
  BY <1>0, <1>1, HeadIsFirst
<1>3. executed' = [executed EXCEPT ![c.by] = c.nr]
  BY <1>2 DEF Execute
<1>3a. ran' = IF c.by \in IThings THEN ran \cup {c.nr} ELSE ran
  BY <1>2 DEF Execute
<1>3b. failedRun' = IF ok = TRUE \/ c.by \notin IThings THEN failedRun ELSE failedRun \cup {c.nr}
  BY <1>2 DEF Execute
<1>4. c.nr \in Nat /\ c.nr < nextNr /\ c.by \in CmdAdapter /\ c.nr \in CommandNr
  BY <1>0, <1>2, KnownBelow DEF Known, Command
<1>5. executed[c.by] < c.nr
  BY <1>0, <1>1, <1>2 DEF BatchSane
<1>6. \A a \in CmdAdapter : executed[a] \in Nat /\ reported[a] \in Nat
  BY <1>0, Bounds DEF CountersTyped, CommandNr
<1>7. executed'[c.by] = c.nr /\ \A a \in CmdAdapter : a # c.by => executed'[a] = executed[a]
  BY <1>0, <1>3, <1>4 DEF CountersTyped
<1>8. \A a \in CmdAdapter : executed[a] \in Nat /\ executed'[a] \in Nat /\ executed[a] <= executed'[a] /\ reported[a] \in Nat
  BY <1>4, <1>5, <1>6, <1>7
<1>9. failedRun' \subseteq failedRun \cup {c.nr}
  BY <1>3b
<1>10. ok = TRUE => failedRun' = failedRun
  BY <1>3b
<1>11. ran \subseteq ran' /\ (c.by \in IThings => c.nr \in ran' /\ (ok = FALSE => c.nr \in failedRun'))
  BY <1>3a, <1>3b
<1> QED BY <1>1, <1>2, <1>3, <1>4, <1>5, <1>7, <1>8, <1>9, <1>10, <1>11

LEMMA ExecuteStep ==
    ASSUME CommandsInv, NEW ok \in BOOLEAN, Execute(ok)
    PROVE  CommandsInv'
<1>0. CountersTyped /\ OriginsSane /\ QueuesSane /\ BatchSane /\ LineSane /\ ReportsSane /\ Below /\ FailuresSane /\ StatesSane
  BY DEF CommandsInv
<1> DEFINE c == poll.batch[1]
<1>1. /\ c.by \in CmdAdapter /\ c.nr \in Nat /\ c.nr \in CommandNr /\ c.nr < nextNr
      /\ Known(origin, c) /\ executed[c.by] < c.nr
      /\ executed' = [executed EXCEPT ![c.by] = c.nr]
      /\ executed'[c.by] = c.nr /\ \A a \in CmdAdapter : a # c.by => executed'[a] = executed[a]
      /\ \A a \in CmdAdapter : executed[a] \in Nat /\ executed'[a] \in Nat /\ executed[a] <= executed'[a]
                               /\ reported[a] \in Nat
      /\ failedRun' \subseteq failedRun \cup {c.nr} /\ (ok = TRUE => failedRun' = failedRun)
      /\ ran \subseteq ran' /\ (c.by \in IThings => c.nr \in ran' /\ (ok = FALSE => c.nr \in failedRun'))
      /\ poll' = [poll EXCEPT !.pc = "report", !.ok = ok, !.left = enabledAdapters]
      /\ poll.pc = "run" /\ reply' = {}
      /\ UNCHANGED <<enabledAdapters, commandQueue, requestStates, handler, messages, nextNr, origin, reported, cmdPanicked>>
  BY RunFacts
<1>2. /\ poll'.pc = "report" /\ poll'.ok = ok /\ poll'.left = enabledAdapters /\ poll'.batch = poll.batch
      /\ DOMAIN poll' = {"pc", "left", "batch", "ok"}
  BY <1>0, <1>1 DEF BatchSane
<1>3. 1 \in 1 .. Len(poll.batch) /\ Len(poll.batch) \in Nat
  BY <1>0, <1>1, HeadIsFirst
<1>4. c.req \in DOMAIN origin /\ origin[c.req].by = c.by /\ c.nr \in origin[c.req].nrs
  BY <1>1 DEF Known
<1>5. ASSUME NEW r \in DOMAIN origin, c.nr \in origin[r].nrs PROVE r = c.req
  BY <1>0, <1>4, <1>5 DEF OriginsSane
<1>6. \A i \in 1 .. Len(poll.batch) : /\ Known(origin, poll.batch[i]) /\ poll.batch[i].by \in CmdAdapter
                                      /\ executed[poll.batch[i].by] < poll.batch[i].nr /\ poll.batch[i].nr \in Nat
  BY <1>0, <1>1, KnownBelow DEF BatchSane
<1>7. \A i \in 1 .. Len(poll.batch) : i > 1 /\ poll.batch[i].by = c.by => c.nr < poll.batch[i].nr
  BY <1>0, <1>3 DEF BatchSane, Ordered
<1>8. \A j \in 1 .. Len(commandQueue[c.by]) : c.nr < commandQueue[c.by][j].nr
  BY <1>0, <1>3 DEF LineSane
<1> HIDE DEF c
<1>9. CountersTyped'
  BY <1>0, <1>1 DEF CountersTyped
<1>10. OriginsSane' /\ HandlersSane'
  BY <1>1 DEF CommandsInv, OriginsSane, HandlersSane
<1>11. QueuesSane'
  <2>1. ASSUME NEW a \in CmdAdapter, NEW i \in 1 .. Len(commandQueue[a])
        PROVE  executed'[a] < commandQueue[a][i].nr
    <3>1. CASE a = c.by
      BY <1>1, <1>8, <2>1, <3>1
    <3>2. CASE a # c.by
      BY <1>0, <1>1, <3>2 DEF QueuesSane
    <3> QED BY <3>1, <3>2
  <2> QED BY <1>0, <1>1, <2>1 DEF QueuesSane, Ordered
<1>12. BatchSane'
  <2>1. ASSUME NEW i \in 1 .. Len(poll.batch), i > 1 PROVE executed'[poll.batch[i].by] < poll.batch[i].nr
    <3>1. CASE poll.batch[i].by = c.by
      BY <1>1, <1>7, <2>1, <3>1
    <3>2. CASE poll.batch[i].by # c.by
      BY <1>1, <1>6, <2>1, <3>2
    <3> QED BY <3>1, <3>2
  <2>2. enabledAdapters \subseteq CmdAdapter
    BY <1>0 DEF CountersTyped
  <2>3. poll.batch \in Seq(Command) /\ Len(poll.batch) <= PullLimit /\ Ordered(poll.batch) /\ poll.batch # <<>>
    BY <1>0, <1>1 DEF BatchSane
  <2> QED BY <1>1, <1>2, <1>6, <2>1, <2>2, <2>3 DEF BatchSane, Ordered
<1>13. LineSane'
  BY <1>0, <1>1, <1>2 DEF LineSane
<1>14. ReportsSane'
  <2>1. \A a \in CmdAdapter : reported[a] <= executed'[a]
    BY <1>0, <1>1 DEF ReportsSane
  <2>2. reported[c.by] < c.nr
    BY <1>0, <1>1 DEF ReportsSane
  <2>3. ASSUME ok = TRUE PROVE c.nr \notin failedRun'
    <3>1. failedRun' = failedRun
      BY <1>1, <2>3
    <3>2. \A m \in failedRun \cap origin[c.req].nrs : m <= executed[c.by]
      BY <1>0, <1>4 DEF FailuresSane
    <3>3. c.nr \notin failedRun
      BY <1>1, <1>4, <3>2
    <3> QED BY <3>1, <3>3
  <2>4. poll'.batch[1] = c
    BY <1>2 DEF c
  <2>5. poll'.ok \in BOOLEAN
    BY <1>2
  <2>6. c.by \in IThings => c.nr \in ran' /\ (poll'.ok = TRUE <=> c.nr \notin failedRun')
    BY <1>1, <1>2, <2>3
  <2> QED BY <1>1, <1>2, <2>1, <2>2, <2>4, <2>5, <2>6 DEF ReportsSane
<1>15. Below'
  <2> SUFFICES ASSUME NEW a \in CmdAdapter PROVE executed'[a] < nextNr
    BY <1>1 DEF Below
  <2>1. CASE a = c.by
    BY <1>1, <2>1
  <2>2. CASE a # c.by
    BY <1>0, <1>1, <2>2 DEF Below
  <2> QED BY <2>1, <2>2
<1>16. FailuresSane'
  <2>1. \A m \in failedRun' : m \in Nat /\ m < nextNr
    BY <1>0, <1>1 DEF FailuresSane
  <2>2. ASSUME NEW r \in DOMAIN origin, NEW m \in failedRun' \cap origin[r].nrs
        PROVE  m <= executed'[origin[r].by]
    <3>1. CASE m = c.nr
      <4>1. r = c.req
        BY <1>5, <2>2, <3>1 DEF c
      <4>2. executed'[origin[r].by] = c.nr
        BY <1>1, <1>4, <4>1
      <4> QED BY <1>1, <3>1, <4>2
    <3>2. CASE m # c.nr
      <4>1. m \in failedRun \cap origin[r].nrs
        BY <1>1, <2>2, <3>2
      <4>2. m <= executed[origin[r].by] /\ m \in Nat
        BY <1>0, <4>1 DEF FailuresSane
      <4>3. origin[r].by \in CmdAdapter
        BY <1>0 DEF OriginsSane
      <4>4. executed[origin[r].by] \in Nat /\ executed'[origin[r].by] \in Nat /\ executed[origin[r].by] <= executed'[origin[r].by]
        BY <1>1, <4>3
      <4> QED BY <4>2, <4>4
    <3> QED BY <3>1, <3>2
  <2> QED BY <1>1, <2>1, <2>2 DEF FailuresSane
<1>17. StatesSane'
  <2>1. ASSUME NEW a \in CmdAdapter, NEW r \in DOMAIN requestStates[a]
        PROVE  StateFits(ran', origin[r].nrs, reported[a], requestStates[a][r])
    <3>1. r \in DOMAIN origin /\ origin[r].by = a /\ StateFits(ran, origin[r].nrs, reported[a], requestStates[a][r])
      BY <1>0 DEF StatesSane
    <3> QED BY <1>1, <3>1, MoreRun
  <2> QED BY <1>0, <1>1, <2>1 DEF StatesSane
<1>18. AnswersWhole'
  BY <1>1, NothingPromised
<1> QED BY <1>9, <1>10, <1>11, <1>12, <1>13, <1>14, <1>15, <1>16, <1>17, <1>18 DEF CommandsInv

\* A result that is reported and not counted only makes less missing.
LEMMA LaterReport ==
    ASSUME NEW F, NEW N, NEW n \in Nat, NEW m \in Nat, m > n, NEW state, StateFits(F, N, n, state)
    PROVE  StateFits(F, N, m, state)
<1>1. PICK f \in Nat, l \in Nat : Span(N, f, l) /\ f <= l /\ Counts(F, f, l, n, state.pending)
  BY DEF StateFits
<1>2. state \in [kind : Kind, pending : 1 .. MaxFields, ok : BOOLEAN]
  BY DEF StateFits
<1> DEFINE p == state.pending
<1>3. p \in Nat /\ p >= 1
  BY <1>2, Bounds
<1>4. (n < f => p >= l - f + 1) /\ (n >= f => p >= l - n)
  BY <1>1 DEF Counts
<1> HIDE DEF p
<1>5. (m < f => p >= l - f + 1) /\ (m >= f => p >= l - m)
  BY <1>3, <1>4
<1>6. ASSUME NEW x \in f .. l, x <= m, x \notin F PROVE p >= l - m + 1
  BY <1>3, <1>4, <1>6
<1>7. Counts(F, f, l, m, p)
  BY <1>5, <1>6 DEF Counts
<1> QED BY <1>1, <1>2, <1>7 DEF StateFits, p

\* The result of command m is counted by a state that was kept up to n.
Counted(R, N, n, m, state, ok, next) ==
    /\ n \in Nat /\ StateFits(R, N, n, state)
    /\ m \in Nat /\ m \in N /\ m > n /\ m \in R
    /\ ok \in BOOLEAN
    /\ next = Applied(state, ok)

\* When none is missing, every one of the request's commands was run, and this
\* is the newest.
Settled(R, N, m, ok, next) ==
    /\ next.ok = ok
    /\ next.pending > 0 => StateFits(R, N, m, next)
    /\ ~(next.pending > 0) => N \subseteq R /\ m \in N /\ \A x \in N : x <= m /\ x \in Nat

LEMMA CountedResult ==
    ASSUME NEW R, NEW N, NEW n, NEW m, NEW state, NEW ok, NEW next, Counted(R, N, n, m, state, ok, next)
    PROVE  Settled(R, N, m, ok, next)
<1>0. /\ n \in Nat /\ StateFits(R, N, n, state) /\ m \in Nat /\ m \in N /\ m > n /\ m \in R
      /\ ok \in BOOLEAN /\ next = Applied(state, ok)
  BY DEF Counted
<1>1. PICK f \in Nat, l \in Nat : Span(N, f, l) /\ f <= l /\ Counts(R, f, l, n, state.pending)
  BY <1>0 DEF StateFits
<1>2. state \in [kind : Kind, pending : 1 .. MaxFields, ok : BOOLEAN]
  BY <1>0 DEF StateFits
<1> DEFINE p == state.pending
<1>3. p \in Nat /\ p >= 1 /\ p <= MaxFields /\ N = f .. l
  BY <1>1, <1>2, Bounds DEF Span
<1>4. /\ next.pending = p - 1 /\ next.kind = state.kind /\ next.ok = ok
      /\ next = [kind |-> next.kind, pending |-> next.pending, ok |-> next.ok]
  <2> DEFINE left == IF state.pending > 0 THEN state.pending - 1 ELSE 0
  <2>1. next = [state EXCEPT !.pending = left, !.ok = ok]
    BY <1>0 DEF Applied
  <2>2. left = p - 1
    BY <1>3
  <2>3. DOMAIN state = {"kind", "pending", "ok"} /\ state = [kind |-> state.kind, pending |-> state.pending, ok |-> state.ok]
    BY <1>2
  <2> HIDE DEF left
  <2>4. next = [kind |-> state.kind, pending |-> left, ok |-> ok]
    BY <2>1, <2>3
  <2> QED BY <2>2, <2>4
<1>7. (n < f => p >= l - f + 1) /\ (n >= f => p >= l - n)
  BY <1>1 DEF Counts
<1>8. \A x \in f .. l : x <= n /\ x \notin R => p >= l - n + 1
  BY <1>1 DEF Counts
<1> HIDE DEF p
<1>9. f <= m /\ m <= l
  BY <1>0, <1>3
<1>10. p - 1 >= l - m
  BY <1>0, <1>3, <1>7, <1>9
<1>11. ASSUME NEW x \in f .. l, x <= m, x \notin R PROVE p - 1 >= l - m + 1
  <2>1. x # m
    BY <1>0, <1>11
  <2>2. x \in Nat /\ x < m /\ f <= x
    BY <1>0, <1>11, <2>1
  <2>3. CASE x <= n
    <3>1. p >= l - n + 1
      BY <1>8, <1>11, <2>3
    <3> QED BY <1>0, <1>3, <1>9, <3>1
  <2>4. CASE x > n
    BY <1>0, <1>3, <1>7, <1>9, <2>2, <2>4
  <2> QED BY <1>0, <2>2, <2>3, <2>4
<1>12. Counts(R, f, l, m, p - 1)
  <2>1. (m < f => p - 1 >= l - f + 1) /\ (m >= f => p - 1 >= l - m)
    BY <1>0, <1>9, <1>10
  <2> QED BY <1>11, <2>1 DEF Counts
<1>13. ASSUME next.pending > 0 PROVE StateFits(R, N, m, next)
  <2>1. p - 1 \in 1 .. MaxFields
    BY <1>3, <1>4, <1>13, Bounds
  <2>2. next.kind \in Kind
    BY <1>2, <1>4
  <2>3. next \in [kind : Kind, pending : 1 .. MaxFields, ok : BOOLEAN]
    BY <1>0, <1>4, <2>1, <2>2
  <2> QED BY <1>1, <1>4, <1>12, <2>3 DEF StateFits
<1>14. ASSUME ~(next.pending > 0) PROVE N \subseteq R /\ m \in N /\ \A x \in N : x <= m /\ x \in Nat
  <2>1. p - 1 = 0 /\ m = l
    BY <1>0, <1>3, <1>4, <1>9, <1>10, <1>14
  <2>2. \A x \in f .. l : x <= m /\ x \in Nat
    BY <1>0, <2>1
  <2>3. ASSUME NEW x \in f .. l, x \notin R PROVE FALSE
    <3>1. p - 1 >= l - m + 1
      BY <1>11, <2>2, <2>3
    <3> QED BY <1>0, <1>9, <2>1, <3>1
  <2> QED BY <1>0, <1>3, <2>2, <2>3
<1> QED BY <1>4, <1>13, <1>14 DEF Settled

LEMMA ReportFacts ==
    ASSUME CommandsInv, NEW a \in CmdAdapter, Reporting(a), NEW c, c = poll.batch[1]
    PROVE  /\ poll.pc = "report" /\ a \in poll.left /\ Head(poll.batch) = c
           /\ poll'.pc = poll.pc /\ poll'.left = poll.left \ {a} /\ poll'.batch = poll.batch /\ poll'.ok = poll.ok
           /\ DOMAIN poll' = {"pc", "left", "batch", "ok"}
           /\ UNCHANGED <<enabledAdapters, commandQueue, handler, messages, nextNr,
                          origin, executed, ran, failedRun, cmdPanicked>>
           /\ Known(origin, c) /\ c.nr \in Nat /\ c.nr \in CommandNr /\ executed[c.by] = c.nr
           /\ c.by = a => reported' = [reported EXCEPT ![a] = c.nr] /\ reported'[a] = c.nr /\ reported[a] < c.nr
           /\ c.by # a => reported' = reported
           /\ \A b \in CmdAdapter : b # a => reported'[b] = reported[b]
           /\ \A b \in CmdAdapter : reported[b] \in Nat /\ reported'[b] \in Nat
<1>0. CountersTyped /\ OriginsSane /\ BatchSane /\ ReportsSane
  BY DEF CommandsInv
<1>1. /\ poll.pc = "report" /\ a \in poll.left
      /\ poll' = [poll EXCEPT !.left = @ \ {a}]
      /\ UNCHANGED <<enabledAdapters, commandQueue, handler, messages, nextNr,
                     origin, executed, ran, failedRun, cmdPanicked>>
  BY DEF Reporting
<1>2. poll'.pc = poll.pc /\ poll'.left = poll.left \ {a} /\ poll'.batch = poll.batch /\ poll'.ok = poll.ok
      /\ DOMAIN poll' = {"pc", "left", "batch", "ok"}
  BY <1>0, <1>1 DEF BatchSane
<1>3. Head(poll.batch) = c /\ Known(origin, c)
  BY <1>0, <1>1, HeadIsFirst
<1>4. reported' = IF c.by = a THEN [reported EXCEPT ![a] = c.nr] ELSE reported
  BY <1>3 DEF Reporting
<1>5. c.nr \in Nat /\ c.nr \in CommandNr
  BY <1>0, <1>3, KnownBelow DEF Known, Command
<1>6. executed[c.by] = c.nr /\ (c.by \in poll.left => reported[c.by] < c.nr)
  BY <1>0, <1>1 DEF ReportsSane
<1>7. reported \in [CmdAdapter -> CommandNr \cup {0}] /\ \A b \in CmdAdapter : reported[b] \in Nat
  BY <1>0, Bounds DEF CountersTyped, CommandNr
<1>8. CASE c.by = a
  <2>1. reported' = [reported EXCEPT ![a] = c.nr]
    BY <1>4, <1>8
  <2>2. reported'[a] = c.nr /\ \A b \in CmdAdapter : b # a => reported'[b] = reported[b]
    BY <1>7, <2>1
  <2>3. reported[a] < c.nr
    BY <1>1, <1>6, <1>8
  <2>4. \A b \in CmdAdapter : reported'[b] \in Nat
    BY <1>5, <1>7, <2>2
  <2> QED BY <1>1, <1>2, <1>3, <1>5, <1>6, <1>7, <1>8, <2>1, <2>2, <2>3, <2>4
<1>9. CASE c.by # a
  <2>1. reported' = reported
    BY <1>4, <1>9
  <2> QED BY <1>1, <1>2, <1>3, <1>5, <1>6, <1>7, <1>9, <2>1
<1> QED BY <1>8, <1>9

LEMMA ReportStep ==
    ASSUME CommandsInv, NEW a \in CmdAdapter, Reporting(a), StatesSane', AnswersWhole'
    PROVE  CommandsInv'
<1>0. CountersTyped /\ OriginsSane /\ QueuesSane /\ BatchSane /\ LineSane /\ ReportsSane /\ Below /\ FailuresSane /\ HandlersSane
  BY DEF CommandsInv
<1> DEFINE c == poll.batch[1]
<1>1. /\ poll.pc = "report" /\ a \in poll.left
      /\ poll'.pc = poll.pc /\ poll'.left = poll.left \ {a} /\ poll'.batch = poll.batch /\ poll'.ok = poll.ok
      /\ DOMAIN poll' = {"pc", "left", "batch", "ok"}
      /\ UNCHANGED <<enabledAdapters, commandQueue, handler, messages, nextNr,
                     origin, executed, ran, failedRun, cmdPanicked>>
      /\ Known(origin, c) /\ c.nr \in Nat /\ c.nr \in CommandNr /\ executed[c.by] = c.nr
      /\ c.by = a => reported' = [reported EXCEPT ![a] = c.nr] /\ reported'[a] = c.nr /\ reported[a] < c.nr
      /\ c.by # a => reported' = reported
      /\ \A b \in CmdAdapter : b # a => reported'[b] = reported[b]
  BY ReportFacts
<1>2. reported' \in [CmdAdapter -> CommandNr \cup {0}]
  <2>1. reported \in [CmdAdapter -> CommandNr \cup {0}]
    BY <1>0 DEF CountersTyped
  <2>2. CASE c.by = a
    BY <1>1, <2>1, <2>2
  <2>3. CASE c.by # a
    BY <1>1, <2>1, <2>3
  <2> QED BY <2>2, <2>3
<1>3. CountersTyped'
  BY <1>0, <1>1, <1>2 DEF CountersTyped
<1>4. OriginsSane' /\ Below' /\ FailuresSane' /\ HandlersSane'
  BY <1>0, <1>1 DEF OriginsSane, Below, FailuresSane, HandlersSane
<1>5. QueuesSane' /\ LineSane'
  BY <1>0, <1>1 DEF QueuesSane, LineSane, Ordered
<1>6. BatchSane'
  BY <1>0, <1>1 DEF BatchSane, Ordered
<1>7. ReportsSane'
  <2>1. ASSUME NEW b \in CmdAdapter PROVE reported'[b] <= executed[b]
    <3>1. reported[b] <= executed[b]
      BY <1>0 DEF ReportsSane
    <3>2. CASE b = a /\ c.by = a
      BY <1>1, <3>2
    <3>3. CASE b # a \/ c.by # a
      BY <1>1, <3>1, <3>3
    <3> QED BY <3>2, <3>3
  <2>2. poll'.batch[1] = c
    BY <1>1
  <2>3. ASSUME c.by \in poll'.left PROVE reported'[c.by] < c.nr
    <3>1. c.by # a /\ c.by \in poll.left
      BY <1>1, <2>3
    <3>2. reported[c.by] < c.nr
      BY <1>0, <1>1, <3>1 DEF ReportsSane
    <3> QED BY <1>1, <3>1, <3>2
  <2>4. c.by \in IThings => c.nr \in ran' /\ (poll'.ok = TRUE <=> c.nr \notin failedRun')
    BY <1>0, <1>1 DEF ReportsSane
  <2>5. poll'.ok \in BOOLEAN
    BY <1>0, <1>1 DEF ReportsSane
  <2> HIDE DEF c
  <2> QED BY <1>1, <2>1, <2>2, <2>3, <2>4, <2>5 DEF ReportsSane
<1> QED BY <1>3, <1>4, <1>5, <1>6, <1>7 DEF CommandsInv

\* A result that goes out by itself.
LEMMA ReportAloneStep ==
    ASSUME CommandsInv, NEW a \in CmdAdapter, Reporting(a), ReportAlone(a)
    PROVE  CommandsInv'
<1>0. StatesSane
  BY DEF CommandsInv
<1> DEFINE c == poll.batch[1]
<1>1. UNCHANGED <<requestStates, origin, ran, failedRun>>
  BY ReportFacts DEF ReportAlone
<1>2. AnswersWhole'
  <2>1. CASE a \in enabledAdapters
    <3>1. reply' = {[by |-> a, req |-> Head(poll.batch).req, kind |-> "control", ok |-> poll.ok, from |-> "result"]}
      BY <2>1 DEF ReportAlone, Says
    <3> QED BY <3>1, NothingPromised
  <2>2. CASE a \notin enabledAdapters
    <3>1. reply' = {}
      BY <2>2 DEF ReportAlone
    <3> QED BY <3>1, NothingPromised
  <2> QED BY <2>1, <2>2
<1>3. /\ c.nr \in Nat
      /\ c.by = a => reported'[a] = c.nr /\ reported[a] < c.nr
      /\ c.by # a => reported' = reported
      /\ \A b \in CmdAdapter : b # a => reported'[b] = reported[b]
      /\ \A b \in CmdAdapter : reported[b] \in Nat /\ reported'[b] \in Nat
  BY ReportFacts
<1> HIDE DEF c
<1>4. \A b \in CmdAdapter : reported'[b] = reported[b] \/ reported'[b] > reported[b]
  BY <1>3
<1>5. ASSUME NEW b \in CmdAdapter, NEW r \in DOMAIN requestStates[b]
      PROVE  StateFits(ran, origin[r].nrs, reported'[b], requestStates[b][r])
  <2>1. StateFits(ran, origin[r].nrs, reported[b], requestStates[b][r])
    BY <1>0 DEF StatesSane
  <2>2. CASE reported'[b] = reported[b]
    BY <2>1, <2>2
  <2>3. CASE reported'[b] > reported[b]
    BY <1>3, <2>1, <2>3, LaterReport
  <2> QED BY <1>4, <2>2, <2>3
<1>6. StatesSane'
  BY <1>0, <1>1, <1>5 DEF StatesSane
<1> QED BY <1>2, <1>6, ReportStep

\* A result that is counted; the last one answers the request.
LEMMA ReportCountedStep ==
    ASSUME CommandsInv, NEW a \in CmdAdapter, IThingsReport(a),
           Head(poll.batch).req \in DOMAIN requestStates[a]
    PROVE  CommandsInv'
<1>0. StatesSane /\ OriginsSane /\ ReportsSane /\ BatchSane
  BY DEF CommandsInv
<1> DEFINE c == poll.batch[1]
           r == c.req
           old == requestStates[a][r]
           next == Applied(old, poll.ok)
<1>1. Reporting(a)
  BY DEF IThingsReport
<1>2. /\ Head(poll.batch) = c /\ poll.pc = "report" /\ a \in poll.left
      /\ UNCHANGED <<origin, ran, failedRun>> /\ Known(origin, c) /\ c.nr \in Nat
      /\ c.by = a => reported'[a] = c.nr /\ reported[a] < c.nr
      /\ \A b \in CmdAdapter : b # a => reported'[b] = reported[b]
      /\ \A b \in CmdAdapter : reported[b] \in Nat /\ reported'[b] \in Nat
  BY <1>1, ReportFacts
<1>3. r \in DOMAIN requestStates[a]
  BY <1>2
<1>4. IF next.pending > 0
      THEN requestStates' = [requestStates EXCEPT ![a][r] = next] /\ reply' = {}
      ELSE /\ requestStates' = [requestStates EXCEPT ![a] = [x \in DOMAIN requestStates[a] \ {r} |-> requestStates[a][x]]]
           /\ reply' = {[by |-> a, req |-> r, kind |-> next.kind, ok |-> next.ok, from |-> "state"]}
  BY <1>2, <1>3 DEF IThingsReport, Says
<1>5. r \in DOMAIN origin /\ origin[r].by = a /\ StateFits(ran, origin[r].nrs, reported[a], old)
  BY <1>0, <1>3 DEF StatesSane
<1>6. c.by = a /\ c.nr \in origin[r].nrs
  BY <1>2, <1>5 DEF Known
<1>7. reported'[a] = c.nr /\ c.nr > reported[a] /\ reported[a] \in Nat
  BY <1>2, <1>6
<1>8. c.nr \in ran /\ (poll.ok = TRUE <=> c.nr \notin failedRun)
  <2>1. c.by \in IThings
    BY <1>6 DEF IThingsReport
  <2> QED BY <1>0, <1>2, <2>1 DEF ReportsSane
<1>9. poll.ok \in BOOLEAN
  BY <1>0, <1>2 DEF ReportsSane
<1>10. /\ next.pending > 0 => StateFits(ran, origin[r].nrs, c.nr, next)
       /\ next.ok = poll.ok
       /\ ~(next.pending > 0) => /\ origin[r].nrs \subseteq ran /\ c.nr \in origin[r].nrs
                                 /\ \A x \in origin[r].nrs : x <= c.nr /\ x \in Nat
  <2>1. reported[a] \in Nat /\ c.nr \in Nat /\ c.nr \in origin[r].nrs /\ c.nr > reported[a]
    BY <1>2, <1>6, <1>7
  <2>2. Counted(ran, origin[r].nrs, reported[a], c.nr, old, poll.ok, next)
    BY <1>5, <1>8, <1>9, <2>1 DEF Counted
  <2> HIDE DEF next, old, c, r
  <2>3. Settled(ran, origin[r].nrs, c.nr, poll.ok, next)
    BY <2>2, CountedResult
  <2> QED BY <2>3 DEF Settled
<1> HIDE DEF next, old
<1>11. \A x \in DOMAIN requestStates[a] : /\ x \in DOMAIN origin /\ origin[x].by = a
                                          /\ StateFits(ran, origin[x].nrs, reported'[a], requestStates[a][x])
  <2> SUFFICES ASSUME NEW x \in DOMAIN requestStates[a]
               PROVE  /\ x \in DOMAIN origin /\ origin[x].by = a
                      /\ StateFits(ran, origin[x].nrs, reported'[a], requestStates[a][x])
    OBVIOUS
  <2>1. x \in DOMAIN origin /\ origin[x].by = a /\ StateFits(ran, origin[x].nrs, reported[a], requestStates[a][x])
    BY <1>0 DEF StatesSane
  <2>2. StateFits(ran, origin[x].nrs, c.nr, requestStates[a][x])
    BY <1>2, <1>7, <2>1, LaterReport
  <2> QED BY <1>7, <2>1, <2>2
<1>12. DOMAIN requestStates = CmdAdapter /\ a \in IThings
  BY <1>0 DEF StatesSane, IThingsReport
<1>13. ASSUME NEW S, requestStates' = [requestStates EXCEPT ![a] = S],
              \A x \in DOMAIN S : /\ x \in DOMAIN origin /\ origin[x].by = a
                                  /\ StateFits(ran, origin[x].nrs, reported'[a], S[x])
       PROVE  StatesSane'
  <2>1. DOMAIN requestStates' = CmdAdapter /\ requestStates'[a] = S
        /\ \A b \in CmdAdapter : b # a => requestStates'[b] = requestStates[b]
    BY <1>12, <1>13
  <2>2. ASSUME NEW b \in CmdAdapter
        PROVE  /\ b \notin IThings => requestStates'[b] = NoStates
               /\ \A x \in DOMAIN requestStates'[b] :
                      /\ x \in DOMAIN origin /\ origin[x].by = b
                      /\ StateFits(ran, origin[x].nrs, reported'[b], requestStates'[b][x])
    <3>1. CASE b = a
      BY <1>12, <1>13, <2>1, <3>1
    <3>2. CASE b # a
      BY <1>0, <1>2, <2>1, <3>2 DEF StatesSane
    <3> QED BY <3>1, <3>2
  <2> QED BY <1>2, <2>1, <2>2 DEF StatesSane
<1>14. CASE next.pending > 0
  <2> DEFINE S == [requestStates[a] EXCEPT ![r] = next]
  <2>1. requestStates' = [requestStates EXCEPT ![a] = S] /\ reply' = {}
    BY <1>4, <1>14
  <2>2. \A x \in DOMAIN S : /\ x \in DOMAIN origin /\ origin[x].by = a
                            /\ StateFits(ran, origin[x].nrs, reported'[a], S[x])
    <3> SUFFICES ASSUME NEW x \in DOMAIN requestStates[a]
                 PROVE  /\ x \in DOMAIN origin /\ origin[x].by = a
                        /\ StateFits(ran, origin[x].nrs, reported'[a], S[x])
      OBVIOUS
    <3>1. CASE x = r
      <4>1. S[x] = next
        BY <1>3, <3>1
      <4> QED BY <1>5, <1>7, <1>10, <1>14, <3>1, <4>1
    <3>2. CASE x # r
      <4>1. S[x] = requestStates[a][x]
        BY <3>2
      <4> QED BY <1>11, <4>1
    <3> QED BY <3>1, <3>2
  <2> HIDE DEF S
  <2>3. StatesSane'
    BY <1>13, <2>1, <2>2
  <2>4. AnswersWhole'
    BY <2>1, NothingPromised
  <2> QED BY <1>1, <2>3, <2>4, ReportStep
<1>15. CASE ~(next.pending > 0)
  <2> DEFINE S == [x \in DOMAIN requestStates[a] \ {r} |-> requestStates[a][x]]
  <2>1. /\ requestStates' = [requestStates EXCEPT ![a] = S]
        /\ reply' = {[by |-> a, req |-> r, kind |-> next.kind, ok |-> next.ok, from |-> "state"]}
    BY <1>4, <1>15
  <2>2. \A x \in DOMAIN S : /\ x \in DOMAIN origin /\ origin[x].by = a
                            /\ StateFits(ran, origin[x].nrs, reported'[a], S[x])
    BY <1>11
  <2> HIDE DEF S
  <2>3. StatesSane'
    BY <1>13, <2>1, <2>2
  <2>4. AnswersWhole'
    <3> SUFFICES ASSUME NEW p \in reply'
                 PROVE  /\ origin[p.req].nrs \subseteq ran
                        /\ \A n \in origin[p.req].nrs :
                            (\A m \in origin[p.req].nrs : m <= n) => (p.ok <=> n \notin failedRun)
      BY <1>2 DEF AnswersWhole
    <3>1. p = [by |-> a, req |-> r, kind |-> next.kind, ok |-> next.ok, from |-> "state"]
      BY <2>1
    <3>2. p.req = r /\ p.ok = next.ok
      BY <3>1
    <3>3. /\ origin[r].nrs \subseteq ran /\ c.nr \in origin[r].nrs
          /\ \A x \in origin[r].nrs : x <= c.nr /\ x \in Nat
      BY <1>10, <1>15
    <3>4. ASSUME NEW n \in origin[r].nrs, \A m \in origin[r].nrs : m <= n PROVE n = c.nr
      BY <1>2, <3>3, <3>4
    <3>5. p.ok = poll.ok
      BY <1>10, <3>2
    <3>6. p.ok <=> c.nr \notin failedRun
      BY <1>8, <1>9, <3>5
    <3> QED BY <3>2, <3>3, <3>4, <3>6
  <2> QED BY <1>1, <2>3, <2>4, ReportStep
<1> QED BY <1>14, <1>15

-----------------------------------------------------------------------------
LEMMA CommandsStart == CommandsInit => CommandsInv
<1> SUFFICES ASSUME CommandsInit PROVE CommandsInv
  OBVIOUS
<1>1. /\ enabledAdapters = CmdAdapter /\ commandQueue = [a \in CmdAdapter |-> <<>>]
      /\ requestStates = [a \in CmdAdapter |-> NoStates]
      /\ handler = [a \in CmdAdapter |-> NoMessage]
      /\ poll = NoPoll /\ messages = 0 /\ nextNr = 1
      /\ origin = [r \in {} |-> NoMessage]
      /\ executed = [a \in CmdAdapter |-> 0] /\ reported = [a \in CmdAdapter |-> 0]
      /\ ran = {} /\ failedRun = {} /\ reply = {} /\ cmdPanicked = FALSE
  BY DEF CommandsInit
<1>2. CountersTyped
  <2>1. 0 * MaxFields + 1 = 1 /\ 0 \in 0 .. MaxMessages
    BY Bounds
  <2>2. enabledAdapters \subseteq CmdAdapter /\ cmdPanicked \in BOOLEAN
    BY <1>1
  <2>3. nextNr \in Nat /\ 1 <= nextNr /\ nextNr <= messages * MaxFields + 1
    BY <1>1, <2>1
  <2>4. executed \in [CmdAdapter -> CommandNr \cup {0}] /\ reported \in [CmdAdapter -> CommandNr \cup {0}]
    BY <1>1
  <2> QED BY <1>1, <2>1, <2>2, <2>3, <2>4 DEF CountersTyped
<1>3. OriginsSane
  BY <1>1 DEF OriginsSane
<1>4. QueuesSane
  BY <1>1, Bounds DEF QueuesSane, Ordered
<1>5. NoPoll.batch = <<>> /\ NoPoll.pc = "idle" /\ NoPoll.left = {} /\ NoPoll.ok = TRUE
      /\ DOMAIN NoPoll = {"pc", "left", "batch", "ok"}
  BY DEF NoPoll
<1>6. BatchSane /\ LineSane /\ ReportsSane
  <2>1. poll.batch = <<>> /\ Len(poll.batch) = 0 /\ poll.pc = "idle" /\ poll.left = {}
        /\ DOMAIN poll = {"pc", "left", "batch", "ok"}
    BY <1>1, <1>5
  <2>2. BatchSane
    BY <2>1, Bounds DEF BatchSane, Ordered
  <2>3. LineSane
    BY <2>1 DEF LineSane
  <2>4. ReportsSane
    BY <1>1, <2>1 DEF ReportsSane
  <2> QED BY <2>2, <2>3, <2>4
<1>7. Below /\ FailuresSane
  BY <1>1 DEF Below, FailuresSane
<1>8. HandlersSane
  BY <1>1 DEF HandlersSane
<1>9. StatesSane
  BY <1>1 DEF StatesSane, NoStates
<1>10. AnswersWhole
  BY <1>1 DEF AnswersWhole
<1> QED BY <1>2, <1>3, <1>4, <1>6, <1>7, <1>8, <1>9, <1>10 DEF CommandsInv

LEMMA CommandsStep == CommandsInv /\ [CommandsNext]_CommandsVars => CommandsInv'
<1> SUFFICES ASSUME CommandsInv, [CommandsNext]_CommandsVars PROVE CommandsInv'
  OBVIOUS
<1>1. CASE UNCHANGED CommandsVars
  <2>1. /\ UNCHANGED <<enabledAdapters, commandQueue, requestStates, handler, poll, messages, nextNr, reply, cmdPanicked>>
        /\ UNCHANGED <<origin, executed, ran, failedRun, reported>>
    BY <1>1 DEF CommandsVars, ghosts
  <2>2. CountersTyped' /\ OriginsSane' /\ Below' /\ FailuresSane'
    BY <2>1 DEF CommandsInv, CountersTyped, OriginsSane, Below, FailuresSane
  <2>3. QueuesSane'
    BY <2>1 DEF CommandsInv, QueuesSane, Ordered
  <2>4. BatchSane' /\ LineSane' /\ ReportsSane'
    BY <2>1 DEF CommandsInv, BatchSane, LineSane, ReportsSane, Ordered
  <2>5. HandlersSane' /\ StatesSane'
    BY <2>1 DEF CommandsInv, HandlersSane, StatesSane
  <2>6. AnswersWhole'
    BY <2>1 DEF CommandsInv, AnswersWhole
  <2> QED BY <2>2, <2>3, <2>4, <2>5, <2>6 DEF CommandsInv
<1>2. CASE PollStep
  <2>1. CASE PollTick
    BY <2>1, TickStep
  <2>2. CASE PullEnds
    BY <2>2, PullEndsStep
  <2>3. CASE ReportEnds
    BY <2>3, ReportEndsStep
  <2>4. ASSUME NEW ok \in BOOLEAN, Execute(ok) PROVE CommandsInv'
    BY <2>4, ExecuteStep
  <2>5. ASSUME NEW a \in CmdAdapter, IThingsPull(a) \/ SagooPull(a) \/ PandaXPull(a) PROVE CommandsInv'
    <3>1. Pulling(a)
      BY <2>5 DEF IThingsPull, SagooPull, PandaXPull
    <3> QED BY <3>1, PullStep
  <2>6. ASSUME NEW a \in CmdAdapter, SagooReport(a) \/ PandaXReport(a) PROVE CommandsInv'
    <3>1. Reporting(a) /\ ReportAlone(a)
      BY <2>6 DEF SagooReport, PandaXReport
    <3> QED BY <3>1, ReportAloneStep
  <2>7. ASSUME NEW a \in CmdAdapter, IThingsReport(a) PROVE CommandsInv'
    <3>1. CASE Head(poll.batch).req \in DOMAIN requestStates[a]
      BY <2>7, <3>1, ReportCountedStep
    <3>2. CASE Head(poll.batch).req \notin DOMAIN requestStates[a]
      <4>1. Reporting(a) /\ ReportAlone(a)
        BY <2>7, <3>2 DEF IThingsReport
      <4> QED BY <4>1, ReportAloneStep
    <3> QED BY <3>1, <3>2
  <2> QED BY <1>2, <2>1, <2>2, <2>3, <2>4, <2>5, <2>6, <2>7 DEF PollStep
<1>3. ASSUME NEW a \in CmdAdapter, RegisterRequest(a) \/ RemoveAdapter(a) PROVE CommandsInv'
  BY <1>3, RegisterStep, RemoveStep
<1>4. ASSUME NEW a \in CmdAdapter, NEW r \in Request, NEW n \in 0 .. MaxFields, NEW k \in Kind, IThingsDownlink(a, r, k, n)
      PROVE  CommandsInv'
  BY <1>4, IThingsDownlinkStep
<1>5. ASSUME NEW a \in CmdAdapter, NEW r \in Request, NEW n \in 0 .. MaxFields,
             SagooPropertySet(a, r, n) \/ SagooServiceCall(a, r, n) \/ PandaXRequest(a, r, n)
      PROVE  CommandsInv'
  BY <1>5, SagooStep, PandaXStep
<1>6. ASSUME NEW a \in CmdAdapter, NEW r \in Request, SagooConfigPush(a, r) PROVE CommandsInv'
  <2>1. 0 \in 0 .. MaxFields
    BY Bounds
  <2> QED BY <1>6, <2>1, SagooStep
<1> QED BY <1>1, <1>2, <1>3, <1>4, <1>5, <1>6 DEF CommandsNext

LEMMA CommandsInvImplies == CommandsInv => AnswersTrue
<1> SUFFICES ASSUME CommandsInv PROVE AnswersTrue
  OBVIOUS
<1>0. CountersTyped /\ OriginsSane /\ QueuesSane /\ BatchSane /\ HandlersSane /\ StatesSane /\ AnswersWhole
  BY DEF CommandsInv
<1>1. DOMAIN origin \subseteq Request
  BY <1>0, Bounds DEF OriginsSane, CountersTyped, Request
<1>2. ASSUME NEW a \in CmdAdapter
      PROVE  /\ Len(commandQueue[a]) <= CommandCap /\ commandQueue[a] \in Seq(Command)
             /\ DOMAIN requestStates[a] \subseteq Request /\ (a \notin IThings => requestStates[a] = NoStates)
             /\ \A r \in DOMAIN requestStates[a] :
                    requestStates[a][r] \in [kind : Kind, pending : 1 .. MaxFields, ok : BOOLEAN]
             /\ handler[a].req \in Request \cup {0}
             /\ {executed[a], reported[a]} \subseteq CommandNr \cup {0}
  <2>1. Len(commandQueue[a]) <= CommandCap /\ commandQueue[a] \in Seq(Command)
    BY <1>0 DEF QueuesSane
  <2>2. DOMAIN requestStates[a] \subseteq Request /\ (a \notin IThings => requestStates[a] = NoStates)
    BY <1>0, <1>1 DEF StatesSane
  <2>3. \A r \in DOMAIN requestStates[a] :
            requestStates[a][r] \in [kind : Kind, pending : 1 .. MaxFields, ok : BOOLEAN]
    BY <1>0 DEF StatesSane, StateFits
  <2>4. handler[a].req \in Request \cup {0}
    <3>1. CASE handler[a] = NoMessage
      BY <3>1 DEF NoMessage
    <3>2. CASE handler[a] # NoMessage
      BY <1>0, <1>1, <3>2 DEF HandlersSane
    <3> QED BY <3>1, <3>2
  <2>5. {executed[a], reported[a]} \subseteq CommandNr \cup {0}
    BY <1>0 DEF CountersTyped
  <2> QED BY <2>1, <2>2, <2>3, <2>4, <2>5
<1>3. CommandsTypeOK
  BY <1>0, <1>2 DEF CommandsTypeOK, CountersTyped, BatchSane
<1> QED BY <1>0, <1>3 DEF AnswersTrue

\* A command is only run after those of its adapter that came before it.
LEMMA RunsInOrder ==
    ASSUME CommandsInv, [CommandsNext]_CommandsVars, NEW a \in CmdAdapter
    PROVE  /\ executed'[a] >= executed[a]
           /\ poll.pc = "run" /\ poll'.pc = "report" /\ Head(poll.batch).by = a => executed'[a] > executed[a]
<1>0. BatchSane /\ CountersTyped
  BY DEF CommandsInv
<1>1. executed[a] \in Nat
  BY <1>0, Bounds DEF CountersTyped, CommandNr
<1>2. ASSUME NEW ok \in BOOLEAN, Execute(ok)
      PROVE  executed'[a] >= executed[a] /\ (Head(poll.batch).by = a => executed'[a] > executed[a])
  <2> DEFINE c == poll.batch[1]
  <2>1. /\ poll.pc = "run" /\ executed'[c.by] = c.nr /\ executed[c.by] < c.nr /\ c.nr \in Nat
        /\ \A b \in CmdAdapter : executed[b] \in Nat /\ executed'[b] \in Nat /\ executed[b] <= executed'[b]
    BY <1>2, RunFacts
  <2>2. Head(poll.batch) = c
    BY <1>0, <2>1, HeadIsFirst
  <2> HIDE DEF c
  <2> QED BY <2>1, <2>2
<1>3. ASSUME UNCHANGED executed, poll'.pc # "report" \/ poll.pc # "run"
      PROVE  /\ executed'[a] >= executed[a]
             /\ poll.pc = "run" /\ poll'.pc = "report" /\ Head(poll.batch).by = a => executed'[a] > executed[a]
  BY <1>1, <1>3
<1>4. UNCHANGED CommandsVars => UNCHANGED executed /\ poll' = poll
  BY DEF CommandsVars, ghosts
<1>5. PollTick \/ PullEnds \/ ReportEnds => UNCHANGED executed /\ poll.pc # "run"
  BY DEF PollTick, PullEnds, ReportEnds, ghosts
<1>6. ASSUME NEW b \in CmdAdapter, IThingsPull(b) \/ SagooPull(b) \/ PandaXPull(b)
      PROVE  UNCHANGED executed /\ poll.pc # "run"
  BY <1>6 DEF IThingsPull, SagooPull, PandaXPull, Pulling, ghosts
<1>7. ASSUME NEW b \in CmdAdapter, IThingsReport(b) \/ SagooReport(b) \/ PandaXReport(b)
      PROVE  UNCHANGED executed /\ poll.pc # "run"
  BY <1>7 DEF IThingsReport, SagooReport, PandaXReport, Reporting
<1>8. ASSUME NEW b \in CmdAdapter, RegisterRequest(b) \/ RemoveAdapter(b)
      PROVE  UNCHANGED executed /\ poll' = poll
  BY <1>8 DEF RegisterRequest, RemoveAdapter, ghosts
<1>9. ASSUME NEW b, NEW r, NEW kind, NEW s, Receive(b, r, kind, s)
      PROVE  UNCHANGED executed /\ poll' = poll
  BY <1>9 DEF Receive
<1>10. ASSUME NEW b \in CmdAdapter, NEW r \in Request, NEW n \in 0 .. MaxFields,
              \/ \E k \in Kind : IThingsDownlink(b, r, k, n)
              \/ SagooPropertySet(b, r, n) \/ SagooServiceCall(b, r, n) \/ PandaXRequest(b, r, n)
              \/ SagooConfigPush(b, r)
       PROVE  UNCHANGED executed /\ poll' = poll
  <2>1. \E kind, s : Receive(b, r, kind, s)
    BY <1>10 DEF IThingsDownlink, SagooPropertySet, SagooServiceCall, PandaXRequest, SagooConfigPush
  <2> QED BY <1>9, <2>1
<1>11. (UNCHANGED executed /\ poll' = poll) => poll'.pc # "report" \/ poll.pc # "run"
  OBVIOUS
<1>12. 0 \in 0 .. MaxFields
  BY Bounds
<1>13. CASE PollStep
  BY <1>2, <1>3, <1>5, <1>6, <1>7, <1>13 DEF PollStep
<1>14. CASE ~PollStep
  <2>1. UNCHANGED executed /\ poll' = poll
    BY <1>4, <1>8, <1>10, <1>12, <1>14 DEF CommandsNext
  <2> QED BY <1>3, <1>11, <2>1
<1> QED BY <1>13, <1>14

\* A platform is answered from a request's state only when every command of the
\* request has been run, and with the outcome of the newest, however the handler
\* that keeps the state, the worker, full queues and removed adapters interleave.
THEOREM AnswersKept == CommandsSpec => []AnswersTrue
<1>1. CommandsInit => CommandsInv
  BY CommandsStart
<1>2. CommandsInv /\ [CommandsNext]_CommandsVars => CommandsInv'
  BY CommandsStep
<1>3. CommandsInv => AnswersTrue
  BY CommandsInvImplies
<1> QED BY <1>1, <1>2, <1>3, PTL DEF CommandsSpec

\* The commands of an adapter are run in the order they came in, each at most
\* once.
THEOREM OrderKept == CommandsSpec => CommandsInOrder
<1>1. CommandsInit => CommandsInv
  BY CommandsStart
<1>2. CommandsInv /\ [CommandsNext]_CommandsVars => CommandsInv'
  BY CommandsStep
<1>3. CommandsInv /\ [CommandsNext]_CommandsVars =>
        [\A a \in CmdAdapter : executed'[a] >= executed[a]
            /\ (poll.pc = "run" /\ poll'.pc = "report" /\ Head(poll.batch).by = a =>
                    executed'[a] > executed[a])]_CommandsVars
  BY RunsInOrder
<1> QED BY <1>1, <1>2, <1>3, PTL DEF CommandsSpec, CommandsInOrder

-----------------------------------------------------------------------------
(* Sums: what FoldSeq adds up, over any finite set of indices.              *)

\* A relation that WFMin can be applied to.
LEMMA LessIsWellFounded == \E R : IsWellFoundedOn(R, Nat) /\ \A x, y \in Nat : x < y => <<x, y>> \in R
<1>1. \A x, y \in Nat : x < y => <<x, y>> \in OpToRel(<, Nat)
  BY DEF OpToRel
<1> QED BY <1>1, NatLessThanWellFounded

LEMMA Minimal ==
    ASSUME NEW R, IsWellFoundedOn(R, Nat), NEW T, T \subseteq Nat, T # {}
    PROVE  \E x \in T : \A y \in T : ~ (<<y, x>> \in R)
BY WFMin, Zenon

LEMMA LeastIs ==
    ASSUME NEW T, T \subseteq Nat, T # {}
    PROVE  \E x \in T : \A y \in T : x <= y
<1>1. PICK R : IsWellFoundedOn(R, Nat) /\ \A x, y \in Nat : x < y => <<x, y>> \in R
  BY LessIsWellFounded
<1>2. PICK x \in T : \A y \in T : ~(<<y, x>> \in R)
  BY <1>1, Minimal
<1>3. \A y \in T : ~(y < x)
  BY <1>1, <1>2
<1>4. \A y \in T : y \in Nat /\ x \in Nat
  OBVIOUS
<1> QED BY <1>3, <1>4

LEMMA SubsetsByRemoval ==
    ASSUME NEW S, IsFiniteSet(S), NEW G,
           \A s \in SUBSET S : (\A x \in s : s \ {x} \in G) => s \in G
    PROVE  SUBSET S \subseteq G
<1> DEFINE T == {Cardinality(s) : s \in (SUBSET S) \ G}
<1> SUFFICES ASSUME T # {} PROVE FALSE
  OBVIOUS
<1>1. \A s \in SUBSET S : IsFiniteSet(s) /\ Cardinality(s) \in Nat
  BY FS_Subset, FS_CardinalityType
<1>2. T \subseteq Nat
  BY <1>1
<1>3. PICK n \in T : \A m \in T : n <= m
  BY <1>2, LeastIs
<1>4. PICK s \in (SUBSET S) \ G : n = Cardinality(s)
  OBVIOUS
<1>5. ASSUME NEW x \in s PROVE s \ {x} \in G
  <2>1. IsFiniteSet(s) /\ n \in Nat
    BY <1>1, <1>4
  <2>2. Cardinality(s \ {x}) = n - 1
    BY <1>4, <2>1, FS_RemoveElement
  <2>3. ~(n <= n - 1)
    BY <2>1
  <2>4. s \ {x} \in SUBSET S
    OBVIOUS
  <2> QED BY <1>3, <2>2, <2>3, <2>4
<1> QED BY <1>4, <1>5

Some(s) == CHOOSE x \in s : TRUE
SumStep(g, f, S) == g = [s \in SUBSET S |-> IF s = {} THEN 0 ELSE f[Some(s)] + g[s \ {Some(s)}]]
Total(f, S) == (CHOOSE g : SumStep(g, f, S))[S]

LEMMA SomeIs == ASSUME NEW s, s # {} PROVE Some(s) \in s
BY DEF Some

UpTo(S, n) == {s \in SUBSET S : Cardinality(s) <= n}
SumUp(g, f, S, n) == g = [s \in UpTo(S, n) |-> IF s = {} THEN 0 ELSE f[Some(s)] + g[s \ {Some(s)}]]
LEMMA SumExists == ASSUME NEW S, IsFiniteSet(S), NEW f PROVE \E g : SumStep(g, f, S)
<1>1. \A s \in SUBSET S : IsFiniteSet(s) /\ Cardinality(s) \in Nat
  BY FS_Subset, FS_CardinalityType
<1> DEFINE T == {n \in Nat : ~\E g : SumUp(g, f, S, n)}
<1>2. T = {}
  <2> SUFFICES ASSUME T # {} PROVE FALSE
    OBVIOUS
  <2>1. T \subseteq Nat
    OBVIOUS
  <2>2. PICK n \in T : \A m \in T : n <= m
    BY <2>1, LeastIs
  <2>3. n # 0
    <3> DEFINE g == [s \in UpTo(S, 0) |-> 0]
    <3>1. \A s \in UpTo(S, 0) : s = {}
      <4> SUFFICES ASSUME NEW s \in UpTo(S, 0) PROVE s = {}
        OBVIOUS
      <4>1. s \in SUBSET S /\ Cardinality(s) <= 0
        BY DEF UpTo
      <4>2. IsFiniteSet(s) /\ Cardinality(s) = 0
        BY <1>1, <4>1
      <4> QED BY <4>2, FS_EmptySet
    <3>2. SumUp(g, f, S, 0)
      BY <3>1 DEF SumUp
    <3> QED BY <3>2
  <2>4. n \in Nat /\ n - 1 \in Nat /\ ~(n <= n - 1)
    BY <2>1, <2>3
  <2>5. PICK g : SumUp(g, f, S, n - 1)
    BY <2>2, <2>4
  <2> DEFINE h == [s \in UpTo(S, n) |-> IF s = {} THEN 0 ELSE f[Some(s)] + g[s \ {Some(s)}]]
  <2>6. \A s \in UpTo(S, n - 1) : s \in UpTo(S, n) /\ h[s] = g[s]
    <3> SUFFICES ASSUME NEW s \in UpTo(S, n - 1) PROVE s \in UpTo(S, n) /\ h[s] = g[s]
      OBVIOUS
    <3>1. s \in UpTo(S, n)
      <4>1. s \in SUBSET S /\ Cardinality(s) <= n - 1 /\ Cardinality(s) \in Nat
        BY <1>1 DEF UpTo
      <4>2. Cardinality(s) <= n
        BY <2>4, <4>1
      <4> QED BY <4>1, <4>2 DEF UpTo
    <3>2. g[s] = IF s = {} THEN 0 ELSE f[Some(s)] + g[s \ {Some(s)}]
      BY <2>5 DEF SumUp
    <3> QED BY <3>1, <3>2
  <2>7. \A s \in UpTo(S, n) : s # {} => s \ {Some(s)} \in UpTo(S, n - 1)
    <3> SUFFICES ASSUME NEW s \in UpTo(S, n), s # {} PROVE s \ {Some(s)} \in UpTo(S, n - 1)
      OBVIOUS
    <3>1. s \in SUBSET S /\ Cardinality(s) <= n /\ IsFiniteSet(s) /\ Cardinality(s) \in Nat
      BY <1>1 DEF UpTo
    <3>2. Some(s) \in s
      BY SomeIs
    <3>3. Cardinality(s \ {Some(s)}) = Cardinality(s) - 1
      BY <3>1, <3>2, FS_RemoveElement
    <3>4. Cardinality(s) - 1 <= n - 1
      BY <2>4, <3>1
    <3> QED BY <3>1, <3>3, <3>4 DEF UpTo
  <2>8. \A s \in UpTo(S, n) : h[s] = IF s = {} THEN 0 ELSE f[Some(s)] + h[s \ {Some(s)}]
    <3> SUFFICES ASSUME NEW s \in UpTo(S, n)
                 PROVE  h[s] = IF s = {} THEN 0 ELSE f[Some(s)] + h[s \ {Some(s)}]
      OBVIOUS
    <3>1. h[s] = IF s = {} THEN 0 ELSE f[Some(s)] + g[s \ {Some(s)}]
      OBVIOUS
    <3>2. s # {} => h[s \ {Some(s)}] = g[s \ {Some(s)}]
      BY <2>6, <2>7
    <3> HIDE DEF h
    <3> QED BY <3>1, <3>2
  <2>9. h = [s \in UpTo(S, n) |-> h[s]]
    OBVIOUS
  <2> HIDE DEF h
  <2>10. SumUp(h, f, S, n)
    BY <2>8, <2>9 DEF SumUp
  <2> QED BY <2>10
<1>3. Cardinality(S) \in Nat
  BY FS_CardinalityType
<1>4. PICK g : SumUp(g, f, S, Cardinality(S))
  BY <1>2, <1>3
<1>5. UpTo(S, Cardinality(S)) = SUBSET S
  BY FS_Subset DEF UpTo
<1> QED BY <1>4, <1>5 DEF SumUp, SumStep

LEMMA SumUnique ==
    ASSUME NEW S, IsFiniteSet(S), NEW T, S \subseteq T, NEW f, NEW g, SumStep(g, f, S), NEW h, SumStep(h, f, T)
    PROVE  \A s \in SUBSET S : g[s] = h[s]
<1> DEFINE G == {s \in SUBSET S : g[s] = h[s]}
<1>1. ASSUME NEW s \in SUBSET S, \A x \in s : s \ {x} \in G PROVE s \in G
  <2>1. g[s] = IF s = {} THEN 0 ELSE f[Some(s)] + g[s \ {Some(s)}]
    BY DEF SumStep
  <2>2. h[s] = IF s = {} THEN 0 ELSE f[Some(s)] + h[s \ {Some(s)}]
    BY DEF SumStep
  <2>3. s # {} => Some(s) \in s
    BY SomeIs
  <2> QED BY <1>1, <2>1, <2>2, <2>3
<1> HIDE DEF G
<1>2. SUBSET S \subseteq G
  BY <1>1, SubsetsByRemoval
<1> QED BY <1>2 DEF G

\* One index, whichever, at a time.
LEMMA TotalBy ==
    ASSUME NEW S, IsFiniteSet(S), NEW f
    PROVE  Total(f, S) = IF S = {} THEN 0 ELSE f[Some(S)] + Total(f, S \ {Some(S)})
<1> DEFINE R == S \ {Some(S)}
<1>1. IsFiniteSet(R)
  BY FS_Subset
<1> DEFINE g == CHOOSE g : SumStep(g, f, S)
           h == CHOOSE h : SumStep(h, f, R)
<1>2. SumStep(g, f, S)
  BY SumExists
<1>3. SumStep(h, f, R)
  BY <1>1, SumExists
<1>4. Total(f, S) = g[S] /\ Total(f, R) = h[R]
  BY DEF Total
<1> HIDE DEF g, h
<1>5. h[R] = g[R]
  <2>1. R \subseteq S /\ R \in SUBSET R
    OBVIOUS
  <2> HIDE DEF R
  <2>2. \A s \in SUBSET R : h[s] = g[s]
    BY <1>1, <1>2, <1>3, <2>1, SumUnique
  <2> QED BY <2>1, <2>2
<1>6. g[S] = IF S = {} THEN 0 ELSE f[Some(S)] + g[R]
  BY <1>2 DEF SumStep
<1> QED BY <1>4, <1>5, <1>6

Whole(f, S) == \A x \in S : f[x] \in Int
LEMMA TotalWhole == ASSUME NEW S, IsFiniteSet(S), NEW f, Whole(f, S) PROVE \A s \in SUBSET S : Total(f, s) \in Int
<1> DEFINE G == {s \in SUBSET S : Total(f, s) \in Int}
<1>1. ASSUME NEW s \in SUBSET S, \A x \in s : s \ {x} \in G PROVE s \in G
  <2>1. IsFiniteSet(s)
    BY FS_Subset
  <2>2. Total(f, s) = IF s = {} THEN 0 ELSE f[Some(s)] + Total(f, s \ {Some(s)})
    BY <2>1, TotalBy
  <2>3. s # {} => Some(s) \in s /\ f[Some(s)] \in Int /\ Total(f, s \ {Some(s)}) \in Int
    BY <1>1, SomeIs DEF Whole
  <2> QED BY <2>2, <2>3
<1> HIDE DEF G
<1>2. SUBSET S \subseteq G
  BY <1>1, SubsetsByRemoval
<1> QED BY <1>2 DEF G

LEMMA TotalWithout ==
    ASSUME NEW S, IsFiniteSet(S), NEW f, Whole(f, S), NEW y \in S
    PROVE  Total(f, S) = f[y] + Total(f, S \ {y})
<1> DEFINE G == {s \in SUBSET S : \A x \in s : Total(f, s) = f[x] + Total(f, s \ {x})}
<1>1. ASSUME NEW s \in SUBSET S, \A x \in s : s \ {x} \in G PROVE s \in G
  <2> SUFFICES ASSUME NEW x \in s PROVE Total(f, s) = f[x] + Total(f, s \ {x})
    OBVIOUS
  <2> DEFINE c == Some(s)
  <2>1. c \in s
    BY SomeIs
  <2>2. IsFiniteSet(s) /\ IsFiniteSet(s \ {c})
    BY FS_Subset
  <2>3. Total(f, s) = f[c] + Total(f, s \ {c})
    BY <2>2, TotalBy
  <2> HIDE DEF c
  <2>4. CASE x = c
    BY <2>3, <2>4
  <2>5. CASE x # c
    <3> DEFINE r == (s \ {c}) \ {x}
    <3>1. x \in s \ {c} /\ c \in s \ {x} /\ r = (s \ {x}) \ {c}
      BY <2>1, <2>5
    <3>2. s \ {c} \in G /\ s \ {x} \in G
      BY <1>1, <2>1
    <3> HIDE DEF r
    <3>3. Total(f, s \ {c}) = f[x] + Total(f, r)
      BY <3>1, <3>2 DEF r
    <3>4. Total(f, s \ {x}) = f[c] + Total(f, r)
      BY <3>1, <3>2
    <3>5. f[x] \in Int /\ f[c] \in Int
      BY <2>1 DEF Whole
    <3>6. Total(f, r) \in Int
      <4>1. r \in SUBSET S
        BY DEF r
      <4> QED BY <4>1, TotalWhole
    <3> QED BY <2>3, <3>3, <3>4, <3>5, <3>6
  <2> QED BY <2>4, <2>5
<1> HIDE DEF G
<1>2. SUBSET S \subseteq G
  BY <1>1, SubsetsByRemoval
<1>3. S \in G
  BY <1>2
<1> QED BY <1>3 DEF G

LEMMA TotalNone == ASSUME NEW f PROVE Total(f, {}) = 0
BY FS_EmptySet, TotalBy

LEMMA FoldIsTotal == ASSUME NEW f PROVE FoldSeq(+, 0, f) = Total(f, DOMAIN f)
BY DEF FoldSeq, FoldFunction, FoldFunctionOnSet, MapThenFoldSet, Total, SumStep, Some

-----------------------------------------------------------------------------
(* SystemStats: counters modulo Word.                                       *)

LEMMA Spread == \A x, y, w \in Int : (x + y) * w = x * w + y * w /\ (x - y) * w = x * w - y * w /\ x * w \in Int
OBVIOUS

Modulo(x, w) == x % w
IsModulo(x, w, r) == r \in 0 .. w - 1 /\ \E q \in Int : x = q * w + r
LEMMA ModuloIs ==
    ASSUME NEW w \in Nat \ {0}, NEW x \in Int
    PROVE  IsModulo(x, w, Modulo(x, w))
<1> DEFINE q == x \div w
<1>1. w > 0 /\ q \in Int
  OBVIOUS
<1>2. Modulo(x, w) \in 0 .. w - 1 /\ Modulo(x, w) = x - w * q
  BY <1>1 DEF Modulo
<1> HIDE DEF q
<1>3. w * q = q * w /\ q * w \in Int
  BY <1>1
<1>4. x = q * w + Modulo(x, w)
  BY <1>2, <1>3
<1> QED BY <1>1, <1>2, <1>4 DEF IsModulo

LEMMA ModuloUnique ==
    ASSUME NEW w \in Nat \ {0}, NEW r \in 0 .. w - 1, NEW s \in 0 .. w - 1, NEW k \in Int, r = s + k * w
    PROVE  r = s
<1>1. CASE k = 0
  BY <1>1
<1>2. CASE k >= 1
  <2>1. k * w >= w
    BY <1>2
  <2> QED BY <2>1
<1>3. CASE k <= -1
  <2>1. k * w <= -w
    BY <1>3
  <2> QED BY <2>1
<1> QED BY <1>1, <1>2, <1>3

\* The difference of two sums that wrapped around, if the true one is small.
LEMMA MinusOfSums ==
    ASSUME NEW w \in Nat \ {0}, NEW a \in Int, NEW b \in Int, NEW t \in 0 .. w - 1, NEW k \in Int, a - b = t + k * w
    PROVE  Modulo(Modulo(a, w) - Modulo(b, w), w) = t
<1> DEFINE aw == Modulo(a, w)
           bw == Modulo(b, w)
<1>0. IsModulo(a, w, aw) /\ IsModulo(b, w, bw)
  BY ModuloIs
<1> HIDE DEF aw, bw
<1>1. aw \in Int /\ bw \in Int
  BY <1>0 DEF IsModulo
<1>2. PICK q \in Int : a = q * w + aw
  BY <1>0 DEF IsModulo
<1>12. PICK p \in Int : b = p * w + bw
  BY <1>0 DEF IsModulo
<1> DEFINE x == aw - bw
           y == Modulo(x, w)
<1>3. x \in Int
  BY <1>1
<1> HIDE DEF x
<1>4. IsModulo(x, w, y)
  BY <1>3, ModuloIs
<1> HIDE DEF y
<1>5. PICK o \in Int : x = o * w + y
  BY <1>4 DEF IsModulo
<1> DEFINE kw == k * w
           qw == q * w
           pw == p * w
           ow == o * w
<1>6. kw \in Int /\ qw \in Int /\ pw \in Int /\ ow \in Int /\ w \in Int
  BY Spread
<1>7. (((k - q) + p) - o) * w = ((kw - qw) + pw) - ow
  BY Spread
<1>8. x = aw - bw /\ a = qw + aw /\ b = pw + bw /\ x = ow + y /\ a - b = t + kw
  BY <1>2, <1>5, <1>12 DEF x
<1> HIDE DEF kw, qw, pw, ow
<1>9. y = t + (((kw - qw) + pw) - ow)
  BY <1>1, <1>4, <1>6, <1>8 DEF IsModulo
<1> DEFINE m == ((k - q) + p) - o
<1>10. m \in Int /\ y = t + m * w
  BY <1>7, <1>9
<1> HIDE DEF m
<1>11. y = t
  BY <1>4, <1>10, ModuloUnique DEF IsModulo
<1> QED BY <1>11 DEF y, x, aw, bw

\* A counter's difference, and how far it is from that of the numbers.
DiffersBy(a, b) == Minus(a, b) \in 0 .. Word - 1 /\ \E k \in Int : a - b = Minus(a, b) + k * Word
LEMMA MinusIs ==
    ASSUME NEW a \in 0 .. Word - 1, NEW b \in 0 .. Word - 1
    PROVE  DiffersBy(a, b)
<1>1. Word \in Nat \ {0}
  BY SystemStatsAssumption
<1> DEFINE x == a - b
<1>2. x \in Int
  BY <1>1
<1> HIDE DEF x
<1> DEFINE y == Modulo(x, Word)
<1>0. IsModulo(x, Word, y)
  BY <1>1, <1>2, ModuloIs
<1> HIDE DEF y
<1>3. y \in 0 .. Word - 1 /\ \E q \in Int : x = q * Word + y
  BY <1>0 DEF IsModulo
<1>4. PICK q \in Int : x = q * Word + y
  BY <1>3
<1>5. q * Word \in Int /\ y \in Int
  BY <1>1, <1>3
<1>6. x = y + q * Word
  BY <1>4, <1>5
<1> QED BY <1>3, <1>6 DEF DiffersBy, Minus, Modulo, x, y

Differences(from, to) == [i \in DOMAIN from |-> Minus(to[i], from[i])]
LineOf(x, n) == DOMAIN x = 1 .. n /\ \A i \in 1 .. n : x[i] \in 0 .. Word - 1

LEMMA SumsDiffer ==
    ASSUME NEW n \in Nat, NEW from, LineOf(from, n), NEW to, LineOf(to, n)
    PROVE  \E k \in Int : Total(to, 1 .. n) - Total(from, 1 .. n) = Total(Differences(from, to), 1 .. n) + k * Word
<1> DEFINE S == 1 .. n
           d == Differences(from, to)
           G == {s \in SUBSET S : \E k \in Int : Total(to, s) - Total(from, s) = Total(d, s) + k * Word}
<1>1. IsFiniteSet(S) /\ Word \in Nat \ {0}
  BY FS_Interval, SystemStatsAssumption
<1>2. \A i \in S : d[i] = Minus(to[i], from[i])
  BY DEF Differences, LineOf
<1>3. \A i \in S : from[i] \in 0 .. Word - 1 /\ to[i] \in 0 .. Word - 1
  BY DEF LineOf
<1>4. \A i \in S : d[i] \in 0 .. Word - 1 /\ \E k \in Int : to[i] - from[i] = d[i] + k * Word
  <2> SUFFICES ASSUME NEW i \in S PROVE d[i] \in 0 .. Word - 1 /\ \E k \in Int : to[i] - from[i] = d[i] + k * Word
    OBVIOUS
  <2>1. DiffersBy(to[i], from[i])
    BY <1>3, MinusIs
  <2> QED BY <1>2, <2>1 DEF DiffersBy
<1> HIDE DEF S, d
<1>5. Whole(from, S) /\ Whole(to, S) /\ Whole(d, S)
  BY <1>1, <1>3, <1>4 DEF Whole
<1>6. ASSUME NEW s \in SUBSET S, \A x \in s : s \ {x} \in G PROVE s \in G
  <2>1. CASE s = {}
    <3>1. Total(to, s) = 0 /\ Total(from, s) = 0 /\ Total(d, s) = 0
      BY <2>1, TotalNone
    <3>2. 0 - 0 = 0 + 0 * Word
      BY <1>1
    <3> QED BY <3>1, <3>2
  <2>2. CASE s # {}
    <3>1. PICK x \in s : TRUE
      BY <2>2
    <3> DEFINE r == s \ {x}
    <3>2. IsFiniteSet(s) /\ r \in SUBSET S /\ r \in G /\ x \in S
      BY <1>1, <1>6, FS_Subset
    <3>3. Whole(from, s) /\ Whole(to, s) /\ Whole(d, s)
      BY <1>5 DEF Whole
    <3>4. Total(to, s) = to[x] + Total(to, r) /\ Total(from, s) = from[x] + Total(from, r)
      BY <3>2, <3>3, TotalWithout
    <3>5. Total(d, s) = d[x] + Total(d, r)
      BY <3>2, <3>3, TotalWithout
    <3> HIDE DEF r
    <3>6. Total(to, r) \in Int /\ Total(from, r) \in Int /\ Total(d, r) \in Int
      BY <1>1, <1>5, <3>2, TotalWhole
    <3>7. PICK k \in Int : Total(to, r) - Total(from, r) = Total(d, r) + k * Word
      BY <3>2
    <3>8. PICK j \in Int : to[x] - from[x] = d[x] + j * Word
      BY <1>4, <3>2
    <3>9. to[x] \in Int /\ from[x] \in Int /\ d[x] \in Int /\ k * Word \in Int /\ j * Word \in Int
      BY <1>1, <1>5, <3>2, Spread DEF Whole
    <3>10. (j + k) * Word = j * Word + k * Word
      BY <1>1, Spread
    <3> DEFINE kw == k * Word
               jw == j * Word
    <3>11. kw \in Int /\ jw \in Int /\ (j + k) * Word = jw + kw /\ Total(to, r) - Total(from, r) = Total(d, r) + kw
           /\ to[x] - from[x] = d[x] + jw
      BY <3>7, <3>8, <3>9, <3>10
    <3> HIDE DEF kw, jw
    <3>12. Total(to, s) - Total(from, s) = Total(d, s) + (jw + kw)
      BY <3>4, <3>5, <3>6, <3>9, <3>11
    <3>13. j + k \in Int
      OBVIOUS
    <3> QED BY <3>11, <3>12, <3>13
  <2> QED BY <2>1, <2>2
<1> HIDE DEF G
<1>7. SUBSET S \subseteq G
  BY <1>1, <1>6, SubsetsByRemoval
<1>8. S \in G
  BY <1>7
<1> QED BY <1>8 DEF G, S, d

\* Sums of numbers from 0 to b.
Bounded(f, S, b) == \A x \in S : f[x] \in 0 .. b
SumBounded(f, s, b) ==
    /\ Total(f, s) \in Nat /\ Total(f, s) <= Cardinality(s) * b
    /\ \A x \in s : f[x] <= Total(f, s)
LEMMA TotalBounded ==
    ASSUME NEW S, IsFiniteSet(S), NEW f, NEW b \in Nat, Bounded(f, S, b)
    PROVE  SumBounded(f, S, b)
<1> DEFINE G == {s \in SUBSET S : Total(f, s) \in Nat /\ Total(f, s) <= Cardinality(s) * b}
<1>0. \A s \in SUBSET S : IsFiniteSet(s) /\ Whole(f, s) /\ Cardinality(s) \in Nat
  BY FS_Subset, FS_CardinalityType DEF Bounded, Whole
<1>1. ASSUME NEW s \in SUBSET S, \A x \in s : s \ {x} \in G PROVE s \in G
  <2>1. CASE s = {}
    <3>1. Total(f, s) = 0 /\ Cardinality(s) = 0
      BY <2>1, TotalNone, FS_EmptySet
    <3> QED BY <3>1
  <2>2. CASE s # {}
    <3>1. PICK x \in s : TRUE
      BY <2>2
    <3> DEFINE r == s \ {x}
               c == Cardinality(s)
               k == Cardinality(r)
    <3>2. Total(f, s) = f[x] + Total(f, r)
      BY <1>0, TotalWithout
    <3>3. k = c - 1 /\ c \in Nat /\ k \in Nat
      BY <1>0, FS_RemoveElement
    <3>4. Total(f, r) \in Nat /\ Total(f, r) <= k * b
      BY <1>1
    <3>5. f[x] \in 0 .. b
      BY DEF Bounded
    <3> HIDE DEF r, c, k
    <3> DEFINE kb == k * b
    <3>6. c * b = kb + b /\ kb \in Int
      BY <3>3
    <3>7. Total(f, r) <= kb
      BY <3>4
    <3> HIDE DEF kb
    <3>8. Total(f, s) \in Nat /\ Total(f, s) <= c * b
      BY <3>2, <3>4, <3>5, <3>6, <3>7
    <3> QED BY <3>8 DEF c
  <2> QED BY <2>1, <2>2
<1> HIDE DEF G
<1>2. SUBSET S \subseteq G
  BY <1>1, SubsetsByRemoval
<1>3. ASSUME NEW x \in S PROVE f[x] <= Total(f, S)
  <2>1. Total(f, S) = f[x] + Total(f, S \ {x})
    BY <1>0, TotalWithout
  <2>2. S \ {x} \in G
    BY <1>2
  <2>3. Total(f, S \ {x}) \in Nat /\ f[x] \in Nat
    BY <2>2 DEF G, Bounded
  <2> QED BY <2>1, <2>3
<1>4. S \in G
  BY <1>2
<1> QED BY <1>3, <1>4 DEF G, SumBounded

LEMMA ModuloSmall == ASSUME NEW w \in Nat \ {0}, NEW x \in 0 .. w - 1 PROVE Modulo(x, w) = x
<1> DEFINE y == Modulo(x, w)
<1>1. IsModulo(x, w, y)
  BY ModuloIs
<1> HIDE DEF y
<1>2. PICK q \in Int : x = q * w + y
  BY <1>1 DEF IsModulo
<1>3. y \in 0 .. w - 1 /\ q * w \in Int
  BY <1>1 DEF IsModulo
<1>4. x = y + q * w
  BY <1>2, <1>3
<1>5. x = y
  BY <1>3, <1>4, ModuloUnique
<1> QED BY <1>5 DEF y

\* A share in percent.
LEMMA Percent ==
    ASSUME NEW t \in Nat, t > 0, NEW b \in Nat
    PROVE  (100 * b) \div t \in Nat /\ (b <= t => (100 * b) \div t <= 100)
<1> DEFINE h == 100 * b
           q == h \div t
<1>1. h \in Nat /\ (b <= t => h <= 100 * t)
  OBVIOUS
<1> HIDE DEF h
<1>2. q \in Int /\ t * q <= h /\ h < t * (q + 1)
  BY <1>1
<1> HIDE DEF q
<1>3. q >= 0
  <2> SUFFICES ASSUME q <= -1 PROVE FALSE
    BY <1>2
  <2>1. t * (q + 1) <= 0
    BY <1>2
  <2>2. t * (q + 1) \in Int
    BY <1>2
  <2> QED BY <1>1, <1>2, <2>1, <2>2
<1>4. ASSUME b <= t PROVE q <= 100
  <2> SUFFICES ASSUME q >= 101 PROVE FALSE
    BY <1>2
  <2>1. t * q >= t * 101
    BY <1>2
  <2>2. t * 101 > 100 * t /\ t * q \in Int
    BY <1>2
  <2> QED BY <1>1, <1>2, <1>4, <2>1, <2>2
<1> QED BY <1>2, <1>3, <1>4 DEF q, h

Quotient(x, k) == x \div k
LEMMA QuotientIs ==
    ASSUME NEW x \in Nat, NEW k \in Nat, k > 0
    PROVE  Quotient(x, k) \in Nat /\ k * Quotient(x, k) <= x
<1> DEFINE q == Quotient(x, k)
<1>1. q \in Int /\ k * q <= x /\ x < k * (q + 1)
  BY DEF Quotient
<1> HIDE DEF q
<1>2. q >= 0
  <2> SUFFICES ASSUME q <= -1 PROVE FALSE
    BY <1>1
  <2>1. k * (q + 1) <= 0 /\ k * (q + 1) \in Int
    BY <1>1
  <2> QED BY <1>1, <2>1
<1> QED BY <1>1, <1>2 DEF q

\* A usage, of two lines that could be read.
Share(from, to) ==
    LET delta == Differences(from, to)
        total == FoldSeq(+, 0, delta)
    IN  IF total = 0 THEN 0 ELSE (100 * (total - delta[4])) \div total
Forward(from, to) == \A i \in DOMAIN from : Differences(from, to)[i] < Word \div (2 * Len(from))
LEMMA ItemsOf ==
    ASSUME NEW W, NEW x \in Seq(W)
    PROVE  DOMAIN x = 1 .. Len(x) /\ Len(x) \in Nat /\ \A i \in 1 .. Len(x) : x[i] \in W
OBVIOUS
LEMMA LineIs == ASSUME NEW x \in Seq(0 .. Word - 1) PROVE LineOf(x, Len(x))
BY ItemsOf DEF LineOf
LEMMA UsageRight ==
    ASSUME NEW from \in Seq(0 .. Word - 1), NEW to \in Seq(0 .. Word - 1), Len(to) = Len(from), Parsed(from)
    PROVE  Usage(from, to) \in 0 .. 100 /\ (Forward(from, to) => Usage(from, to) = Share(from, to))
<1> DEFINE n == Len(from)
           S == 1 .. n
           d == Differences(from, to)
           t == Total(d, S)
<1>1. n \in Nat /\ n >= 4 /\ 4 \in S /\ DOMAIN from = S /\ DOMAIN to = S /\ DOMAIN d = S /\ Parsed(to)
  BY DEF Parsed, Differences
<1>2. LineOf(from, n) /\ LineOf(to, n) /\ Word \in Nat \ {0} /\ IsFiniteSet(S) /\ Cardinality(S) = n
  <2>1. LineOf(from, n) /\ LineOf(to, n)
    BY LineIs
  <2>2. 1 \in Int /\ n \in Int /\ n - 1 + 1 = n /\ ~(1 > n)
    BY <1>1
  <2> HIDE DEF n
  <2>3. IsFiniteSet(S) /\ Cardinality(S) = n
    BY <2>2, FS_Interval
  <2> QED BY <2>1, <2>3, SystemStatsAssumption
<1>3. \A i \in S : d[i] = Minus(to[i], from[i]) /\ d[i] \in 0 .. Word - 1
  <2> SUFFICES ASSUME NEW i \in S PROVE d[i] = Minus(to[i], from[i]) /\ d[i] \in 0 .. Word - 1
    OBVIOUS
  <2>1. from[i] \in 0 .. Word - 1 /\ to[i] \in 0 .. Word - 1
    BY <1>2 DEF LineOf
  <2>2. DiffersBy(to[i], from[i])
    BY <2>1, MinusIs
  <2> QED BY <1>1, <2>2 DEF DiffersBy, Differences
<1> DEFINE a == Total(to, S)
           b == Total(from, S)
<1> HIDE DEF d
<1>4. a \in Int /\ b \in Int
  <2>1. Whole(to, S) /\ Whole(from, S)
    BY <1>2 DEF Whole, LineOf
  <2> QED BY <1>2, <2>1, TotalWhole
<1>5. CounterSum(to) = Modulo(a, Word) /\ CounterSum(from) = Modulo(b, Word)
  BY <1>1, FoldIsTotal DEF CounterSum, Modulo
<1> HIDE DEF n, S, a, b
<1>6. Modulo(a, Word) \in 0 .. Word - 1 /\ Modulo(b, Word) \in 0 .. Word - 1
  BY <1>2, <1>4, ModuloIs DEF IsModulo
<1> DEFINE total == Minus(CounterSum(to), CounterSum(from))
           idle == Minus(to[4], from[4])
           busy == Minus(total, idle)
<1>7. idle = d[4] /\ idle \in 0 .. Word - 1
  BY <1>1, <1>3
<1>8. total \in 0 .. Word - 1
  <2>1. DiffersBy(CounterSum(to), CounterSum(from))
    BY <1>5, <1>6, MinusIs
  <2> QED BY <2>1 DEF DiffersBy
<1> HIDE DEF total, idle
<1>9. busy \in 0 .. Word - 1
  <2>1. DiffersBy(total, idle)
    BY <1>7, <1>8, MinusIs
  <2> QED BY <2>1 DEF DiffersBy
<1> HIDE DEF busy
<1> DEFINE usage == (100 * busy) \div total
<1>10. Usage(from, to) = IF total = 0 THEN 0 ELSE IF usage > 100 THEN 100 ELSE usage
  BY <1>1 DEF Usage, TotalIdle, total, idle, busy
<1>11. total # 0 => usage \in Nat /\ (busy <= total => usage <= 100)
  <2> SUFFICES ASSUME total # 0 PROVE usage \in Nat /\ (busy <= total => usage <= 100)
    OBVIOUS
  <2>1. total \in Nat /\ total > 0 /\ busy \in Nat
    BY <1>2, <1>8, <1>9
  <2> QED BY <2>1, Percent
<1>12. Usage(from, to) \in 0 .. 100
  <2> HIDE DEF usage
  <2>1. CASE total = 0
    BY <1>10, <2>1
  <2>2. CASE total # 0
    <3>1. usage \in Nat /\ Usage(from, to) = IF usage > 100 THEN 100 ELSE usage
      BY <1>10, <1>11, <2>2
    <3> QED BY <3>1
  <2> QED BY <2>1, <2>2
<1>13. ASSUME Forward(from, to) PROVE Usage(from, to) = Share(from, to)
  <2> DEFINE m == Quotient(Word, 2 * n)
  <2>1. m \in Nat /\ (2 * n) * m <= Word
    <3>1. 2 * n \in Nat /\ 2 * n > 0 /\ Word \in Nat
      BY <1>1, <1>2
    <3> QED BY <3>1, QuotientIs
  <2>2. Bounded(d, S, m)
    <3> SUFFICES ASSUME NEW i \in S PROVE d[i] \in 0 .. m
      BY DEF Bounded
    <3>1. d[i] < m
      BY <1>1, <1>13 DEF Forward, d, n, Quotient
    <3> HIDE DEF m
    <3> QED BY <1>2, <1>3, <2>1, <3>1
  <2> HIDE DEF m
  <2>3. SumBounded(d, S, m)
    BY <1>2, <2>1, <2>2, TotalBounded
  <2>4. t \in Nat /\ t <= n * m /\ d[4] <= t
    BY <1>1, <1>2, <2>3 DEF SumBounded
  <2> HIDE DEF t
  <2>5. t \in 0 .. Word - 1
    <3> DEFINE nm == n * m
    <3>1. nm \in Int /\ (2 * n) * m = 2 * nm
      BY <1>1, <2>1
    <3>2. t <= nm /\ 2 * nm <= Word
      BY <2>1, <2>4, <3>1
    <3> HIDE DEF nm
    <3> QED BY <1>2, <2>4, <3>1, <3>2
  <2>6. total = t
    <3>1. PICK k \in Int : a - b = t + k * Word
      BY <1>1, <1>2, SumsDiffer DEF a, b, t, d, S
    <3>2. Modulo(Modulo(a, Word) - Modulo(b, Word), Word) = t
      BY <1>2, <1>4, <2>5, <3>1, MinusOfSums
    <3> QED BY <1>5, <3>2 DEF total, Minus, Modulo
  <2>7. busy = t - d[4]
    <3> DEFINE x == t - d[4]
    <3>1. x \in 0 .. Word - 1
      BY <1>2, <1>7, <2>4, <2>5
    <3> HIDE DEF x
    <3>2. Modulo(x, Word) = x
      BY <1>2, <3>1, ModuloSmall
    <3> QED BY <1>7, <2>6, <3>2 DEF busy, Minus, Modulo, x
  <2>8. busy <= total
    BY <1>7, <2>4, <2>6, <2>7
  <2>9. FoldSeq(+, 0, d) = t
    BY <1>1, FoldIsTotal DEF t
  <2>10. Share(from, to) = IF t = 0 THEN 0 ELSE (100 * (t - d[4])) \div t
    BY <2>9 DEF Share, d
  <2>11. Usage(from, to) = IF t = 0 THEN 0 ELSE usage
    <3>1. total # 0 => usage \in Nat /\ usage <= 100
      BY <1>11, <2>8
    <3> HIDE DEF usage
    <3>2. CASE total = 0
      BY <1>10, <2>6, <3>2
    <3>3. CASE total # 0
      <4>1. ~(usage > 100)
        BY <3>1, <3>3
      <4> QED BY <1>10, <2>6, <3>3, <4>1
    <3> QED BY <3>2, <3>3
  <2> QED BY <2>6, <2>7, <2>10, <2>11 DEF usage
<1> QED BY <1>12, <1>13

LEMMA SeqOfLen ==
    ASSUME NEW W, NEW n \in Nat, NEW x \in [1 .. n -> W]
    PROVE  x \in Seq(W) /\ Len(x) = n
OBVIOUS

\* The inductive invariant.
LineLike(x) == x = Unreadable \/ (x \in Seq(0 .. Word - 1) /\ Len(x) = Len(counters))
Place == {"none", "idle", "collect", "sleep", "send", "select"}
Task(r) == r \in [pc : Place, first : Seq(0 .. Word - 1)]
LoopInv ==
    /\ stopChan \in 0 .. MaxStarts /\ statsRunning \in BOOLEAN /\ statsCaller \in {"idle", "wait"}
    /\ statsCaller = "wait" => ~statsRunning
    /\ DOMAIN worker = Measurer /\ \A m \in Measurer : Task(worker[m])
    /\ OneStatsLoop
UsageInv ==
    /\ counters \in Seq(0 .. Word - 1) /\ \A step \in Steps : Len(counters) <= Len(step)
    /\ \A m \in Measurer : LineLike(worker[m].first)
    /\ LineLike(measured.from) /\ LineLike(measured.to)
    /\ measured.usage = Usage(measured.from, measured.to)
StatsInv == LoopInv /\ UsageInv

LEMMA EmptyLine == Unreadable \in Seq(0 .. Word - 1) /\ ~Parsed(Unreadable)
BY DEF Unreadable, Parsed

LEMMA StatsInitOk == ASSUME SystemStatsInit PROVE StatsInv
<1>1. /\ statsRunning = FALSE /\ stopChan = 0 /\ statsCaller = "idle" /\ counters \in Counters0
      /\ worker = [m \in Measurer |-> [pc |-> IF m \in Loop THEN "none" ELSE "idle", first |-> Unreadable]]
      /\ measured = [from |-> Unreadable, to |-> Unreadable, usage |-> 0]
  BY DEF SystemStatsInit
<1>2. MaxStarts \in Nat
  BY SystemStatsAssumption
<1>3. \A m \in Measurer : Task(worker[m]) /\ worker[m].first = Unreadable /\ (m \in Loop => worker[m].pc = "none")
  BY <1>1, EmptyLine DEF Task, Place
<1>4. LoopInv
  <2>1. \A l \in Loop : worker[l].pc = "none"
    BY <1>3 DEF Measurer
  <2>2. OneStatsLoop
    BY <2>1 DEF OneStatsLoop, NoLoop
  <2>3. DOMAIN worker = Measurer
    BY <1>1
  <2>4. stopChan \in 0 .. MaxStarts
    BY <1>1, <1>2
  <2>5. statsRunning \in BOOLEAN /\ statsCaller \in {"idle", "wait"} /\ ~statsRunning
    BY <1>1, Zenon
  <2> QED BY <1>3, <2>2, <2>3, <2>4, <2>5 DEF LoopInv
<1>5. UsageInv
  <2>1. counters \in Seq(0 .. Word - 1) /\ \A step \in Steps : Len(counters) <= Len(step)
    BY <1>1, SystemStatsAssumption
  <2>2. measured.usage = Usage(measured.from, measured.to)
    BY <1>1, EmptyLine DEF Usage
  <2> QED BY <1>1, <1>3, <2>1, <2>2 DEF UsageInv, LineLike
<1> QED BY <1>4, <1>5 DEF StatsInv

\* A loop that runs, or a request, goes on to r.
Goes(m, r) ==
    /\ m \in Measurer /\ Task(r) /\ worker' = [worker EXCEPT ![m] = r]
    /\ m \in Loop => worker[m].pc # "none"
    /\ UNCHANGED <<statsRunning, stopChan, statsCaller>>
LEMMA WorkerGoes == ASSUME LoopInv, NEW m, NEW r, Goes(m, r) PROVE LoopInv'
<1>1. \A k \in Measurer : worker'[k] = IF k = m THEN r ELSE worker[k]
  BY DEF LoopInv, Goes
<1>2. \A k \in Loop : worker'[k].pc # "none" => worker[k].pc # "none"
  BY <1>1 DEF Goes, Measurer
<1>3. OneStatsLoop'
  BY <1>2 DEF LoopInv, OneStatsLoop, NoLoop, Goes
<1>4. DOMAIN worker' = Measurer /\ \A k \in Measurer : Task(worker'[k])
  BY <1>1 DEF LoopInv, Goes
<1> QED BY <1>3, <1>4 DEF LoopInv, Goes

\* No measurement ends.
LEMMA UsageKept ==
    ASSUME UsageInv, UNCHANGED <<counters, measured>>, \A m \in Measurer : LineLike(worker'[m].first)
    PROVE  UsageInv'
<1>1. \A x : LineLike(x)' <=> LineLike(x)
  BY DEF LineLike
<1>2. \A m \in Measurer : (LineLike(worker[m].first))'
  BY DEF LineLike
<1>3. (LineLike(measured.from) /\ LineLike(measured.to))'
  BY DEF LineLike, UsageInv
<1> QED BY <1>2, <1>3 DEF UsageInv

LEMMA PcMoves ==
    ASSUME StatsInv, NEW m \in Measurer, NEW p \in Place, worker' = [worker EXCEPT ![m].pc = p],
           m \in Loop => worker[m].pc # "none",
           UNCHANGED <<statsRunning, stopChan, statsCaller, counters, measured>>
    PROVE  StatsInv'
<1> DEFINE r == [worker[m] EXCEPT !.pc = p]
<1>1. Task(worker[m]) /\ DOMAIN worker = Measurer /\ LoopInv /\ UsageInv
  BY DEF StatsInv, LoopInv
<1>2. Task(r) /\ r.first = worker[m].first
  BY <1>1 DEF Task, Place
<1>3. worker' = [worker EXCEPT ![m] = r]
  OBVIOUS
<1> HIDE DEF r
<1>4. LoopInv'
  BY <1>1, <1>2, <1>3, WorkerGoes DEF Goes
<1>5. \A k \in Measurer : LineLike(worker'[k].first)
  BY <1>1, <1>2, <1>3 DEF UsageInv
<1>6. UsageInv'
  BY <1>1, <1>5, UsageKept
<1> QED BY <1>4, <1>6 DEF StatsInv

LEMMA LoopNamed == Loop \subseteq Measurer /\ StatsRequest \subseteq Measurer /\ StatsRequest \cap Loop = {} /\ MaxStarts \in Nat
BY SystemStatsAssumption DEF Loop, Measurer

LEMMA StartStatsOk == ASSUME StatsInv, StartStats PROVE StatsInv'
<1>1. /\ statsCaller = "idle" /\ ~statsRunning /\ stopChan < MaxStarts /\ statsRunning' = TRUE /\ stopChan' = stopChan + 1
      /\ worker' = [worker EXCEPT ![stopChan + 1].pc = "collect"]
      /\ UNCHANGED <<statsCaller, counters, measured>>
  BY DEF StartStats
<1>2. stopChan \in 0 .. MaxStarts /\ NoLoop /\ LoopInv /\ UsageInv
  BY <1>1 DEF StatsInv, LoopInv, OneStatsLoop
<1> DEFINE m == stopChan + 1
           r == [worker[m] EXCEPT !.pc = "collect"]
<1>3. m \in Loop /\ m \in Measurer /\ stopChan' \in 0 .. MaxStarts
  BY <1>1, <1>2, LoopNamed DEF Loop
<1>4. worker' = [worker EXCEPT ![m] = r]
  BY <1>1
<1> HIDE DEF m
<1>5. Task(r) /\ r.first = worker[m].first /\ DOMAIN worker = Measurer
  BY <1>2, <1>3 DEF LoopInv, Task, Place
<1> HIDE DEF r
<1>6. \A k \in Measurer : worker'[k] = IF k = m THEN r ELSE worker[k]
  BY <1>4, <1>5
<1>7. \A k \in Measurer : Task(worker'[k]) /\ LineLike(worker'[k].first)
  BY <1>2, <1>3, <1>5, <1>6 DEF LoopInv, UsageInv
<1>8. \A k \in Loop : worker'[k].pc # "none" => k = m
  BY <1>2, <1>6, LoopNamed DEF NoLoop
<1>9. LoopInv'
  <2>1. OneStatsLoop'
    BY <1>1, <1>8 DEF OneStatsLoop
  <2>2. DOMAIN worker' = Measurer
    BY <1>4, <1>5
  <2> QED BY <1>1, <1>3, <1>7, <2>1, <2>2 DEF LoopInv
<1>10. UsageInv'
  BY <1>1, <1>2, <1>7, UsageKept
<1> QED BY <1>9, <1>10 DEF StatsInv

LEMMA StopOk == ASSUME StatsInv, StopStats \/ StopReturns PROVE StatsInv'
<1>1. UNCHANGED <<worker, stopChan, counters, measured>>
  BY DEF StopStats, StopReturns
<1>2. UsageInv'
  <2>1. UsageInv /\ \A m \in Measurer : LineLike(worker'[m].first)
    BY <1>1 DEF StatsInv, UsageInv
  <2> QED BY <1>1, <2>1, UsageKept
<1>3. LoopInv'
  <2>1. /\ \/ statsCaller' = "wait" /\ statsRunning' = FALSE
           \/ statsCaller' = "idle" /\ statsRunning' = statsRunning /\ NoLoop
        /\ UNCHANGED <<worker, stopChan>>
    BY DEF StopStats, StopReturns
  <2> QED BY <2>1 DEF StatsInv, LoopInv, OneStatsLoop, NoLoop
<1> QED BY <1>2, <1>3 DEF StatsInv

LEMMA ReadFirstOk == ASSUME StatsInv, NEW m \in Measurer, ReadFirst(m) PROVE StatsInv'
<1>1. PICK line \in {counters, Unreadable} : worker' = [worker EXCEPT ![m] = [pc |-> "sleep", first |-> line]]
  BY DEF ReadFirst
<1>2. worker[m].pc = "collect" /\ UNCHANGED <<statsRunning, stopChan, statsCaller, counters, measured>>
  BY DEF ReadFirst
<1> DEFINE r == [pc |-> "sleep", first |-> line]
<1>3. LoopInv /\ UsageInv /\ DOMAIN worker = Measurer
  BY DEF StatsInv, LoopInv
<1>4. Task(r) /\ r.first = line /\ LineLike(line)
  BY <1>3, EmptyLine DEF Task, Place, LineLike, UsageInv
<1> HIDE DEF r
<1>5. LoopInv'
  BY <1>1, <1>2, <1>3, <1>4, WorkerGoes DEF Goes, r
<1>6. \A k \in Measurer : LineLike(worker'[k].first)
  BY <1>1, <1>3, <1>4 DEF UsageInv, r
<1>7. UsageInv'
  BY <1>2, <1>3, <1>6, UsageKept
<1> QED BY <1>5, <1>7 DEF StatsInv

LEMMA ReadSecondOk == ASSUME StatsInv, NEW m \in Measurer, ReadSecond(m) PROVE StatsInv'
<1>1. PICK step \in Steps : counters' = Moved(step)
  BY DEF ReadSecond
<1>2. PICK line \in {counters', Unreadable} :
        measured' = [from |-> worker[m].first, to |-> line, usage |-> Usage(worker[m].first, line)]
  BY DEF ReadSecond
<1> DEFINE r == [pc |-> IF m \in Loop THEN "send" ELSE "idle", first |-> Unreadable]
<1>3. worker[m].pc = "sleep" /\ worker' = [worker EXCEPT ![m] = r] /\ UNCHANGED <<statsRunning, stopChan, statsCaller>>
  BY DEF ReadSecond
<1>4. LoopInv /\ UsageInv /\ DOMAIN worker = Measurer
  BY DEF StatsInv, LoopInv
<1>5. Task(r) /\ r.first = Unreadable
  BY EmptyLine DEF Task, Place
<1> HIDE DEF r
<1>6. LoopInv'
  BY <1>3, <1>4, <1>5, WorkerGoes DEF Goes
<1>7. counters' \in Seq(0 .. Word - 1) /\ Len(counters') = Len(counters)
  <2>1. counters \in Seq(0 .. Word - 1) /\ step \in Seq(Int) /\ Len(counters) <= Len(step) /\ Word \in Nat \ {0}
    BY <1>4, SystemStatsAssumption DEF UsageInv
  <2> DEFINE n == Len(counters)
  <2>2. n \in Nat /\ DOMAIN counters = 1 .. n /\ \A i \in 1 .. n : counters[i] \in 0 .. Word - 1
    BY <2>1, ItemsOf
  <2>3. \A i \in 1 .. n : step[i] \in Int
    BY <2>1, <2>2, ItemsOf
  <2> HIDE DEF n
  <2>4. \A i \in 1 .. n : (counters[i] + step[i]) % Word \in 0 .. Word - 1
    BY <2>1, <2>2, <2>3
  <2>5. counters' = [i \in 1 .. n |-> (counters[i] + step[i]) % Word]
    BY <1>1, <2>2 DEF Moved
  <2>6. counters' \in [1 .. n -> 0 .. Word - 1]
    BY <2>4, <2>5
  <2> QED BY <2>2, <2>6, SeqOfLen DEF n
<1>8. \A x : LineLike(x)' <=> x' = Unreadable \/ (x' \in Seq(0 .. Word - 1) /\ Len(x') = Len(counters))
  BY <1>7 DEF LineLike
<1>9. \A k \in Measurer : worker'[k] = IF k = m THEN r ELSE worker[k]
  BY <1>3, <1>4
<1>10. \A k \in Measurer : worker'[k].first = Unreadable \/ worker'[k].first = worker[k].first
  BY <1>5, <1>9
<1>11. \A k \in Measurer : (LineLike(worker[k].first))'
  BY <1>4, <1>7, <1>10 DEF UsageInv, LineLike
<1>12. measured'.from = worker[m].first /\ measured'.to = line /\ measured'.usage = Usage(measured'.from, measured'.to)
  BY <1>2
<1>13. (LineLike(measured.from))' /\ (LineLike(measured.to))'
  BY <1>4, <1>7, <1>12 DEF UsageInv, LineLike
<1>14. \A s \in Steps : Len(counters') <= Len(s)
  BY <1>4, <1>7 DEF UsageInv
<1>15. (measured.usage = Usage(measured.from, measured.to))'
  BY <1>12
<1>16. UsageInv'
  BY <1>7, <1>11, <1>13, <1>14, <1>15 DEF UsageInv
<1> QED BY <1>6, <1>16 DEF StatsInv

LEMMA OtherStatsSteps ==
    ASSUME StatsInv,
           \/ \E l \in Loop : LoopStops(l) \/ LoopTicks(l) \/ SendStats(l)
           \/ \E q \in StatsRequest : RequestStats(q)
    PROVE  StatsInv'
<1>1. CASE \E l \in Loop : LoopStops(l) \/ LoopTicks(l) \/ SendStats(l)
  <2>1. PICK l \in Loop : LoopStops(l) \/ LoopTicks(l) \/ SendStats(l)
    BY <1>1
  <2>2. PICK p \in {"none", "collect", "select"} : worker' = [worker EXCEPT ![l].pc = p]
    BY <2>1 DEF LoopStops, LoopTicks, SendStats
  <2>3. worker[l].pc # "none" /\ UNCHANGED <<statsRunning, stopChan, statsCaller, counters, measured>>
    BY <2>1 DEF LoopStops, LoopTicks, SendStats
  <2>4. l \in Measurer /\ p \in Place
    BY LoopNamed DEF Place
  <2> QED BY <2>2, <2>3, <2>4, PcMoves
<1>2. CASE \E q \in StatsRequest : RequestStats(q)
  <2>1. PICK q \in StatsRequest : RequestStats(q)
    BY <1>2
  <2>2. /\ worker' = [worker EXCEPT ![q].pc = "collect"]
        /\ UNCHANGED <<statsRunning, stopChan, statsCaller, counters, measured>>
    BY <2>1 DEF RequestStats
  <2>3. q \in Measurer /\ q \notin Loop /\ "collect" \in Place
    BY LoopNamed DEF Place
  <2> QED BY <2>2, <2>3, PcMoves
<1> QED BY <1>1, <1>2

LEMMA StatsInvSound == ASSUME StatsInv PROVE StatsSound
<1> DEFINE from == measured.from
           to == measured.to
<1>1. LineLike(from) /\ LineLike(to) /\ measured.usage = Usage(from, to) /\ OneStatsLoop
  BY DEF StatsInv, UsageInv, LoopInv
<1> HIDE DEF from, to
<1>2. CASE from = Unreadable \/ to = Unreadable
  <2>1. measured.usage = 0 /\ measured.usage \in 0 .. 100
    BY <1>1, <1>2, EmptyLine DEF Usage
  <2>2. CpuUsageSound
    BY <1>2, <2>1 DEF CpuUsageSound, from, to
  <2> QED BY <1>1, <2>2 DEF StatsSound
<1>3. CASE from # Unreadable /\ to # Unreadable
  <2>1. from \in Seq(0 .. Word - 1) /\ to \in Seq(0 .. Word - 1) /\ Len(to) = Len(from)
    BY <1>1, <1>3 DEF LineLike
  <2>2. CASE ~Parsed(from)
    <3>1. measured.usage = 0 /\ measured.usage \in 0 .. 100
      BY <1>1, <2>2 DEF Usage
    <3>2. CpuUsageSound
      BY <1>3, <2>2, <3>1 DEF CpuUsageSound, from, to
    <3> QED BY <1>1, <3>2 DEF StatsSound
  <2>3. CASE Parsed(from)
    <3>1. Usage(from, to) \in 0 .. 100 /\ (Forward(from, to) => Usage(from, to) = Share(from, to))
      BY <2>1, <2>3, UsageRight
    <3>2. CpuUsageSound
      BY <1>1, <1>3, <2>3, <3>1 DEF CpuUsageSound, Forward, Share, Differences, from, to
    <3> QED BY <1>1, <3>2 DEF StatsSound
  <2> QED BY <2>2, <2>3
<1> QED BY <1>2, <1>3

\* There is one loop at most, and none once Stop has returned, however often the
\* collector is started and stopped; and the usage it measures is right for
\* counters of any width that wrap around, in lines of any length.
THEOREM StatsAreSound == SystemStatsSpec => []StatsSound
<1>1. SystemStatsInit => StatsInv
  BY StatsInitOk
<1>2. StatsInv /\ [SystemStatsNext]_SystemStatsVars => StatsInv'
  <2> SUFFICES ASSUME StatsInv, [SystemStatsNext]_SystemStatsVars PROVE StatsInv'
    OBVIOUS
  <2>1. CASE StartStats
    BY <2>1, StartStatsOk
  <2>2. CASE StopStats \/ StopReturns
    BY <2>2, StopOk
  <2>3. CASE \/ \E l \in Loop : LoopStops(l) \/ LoopTicks(l) \/ SendStats(l)
             \/ \E q \in StatsRequest : RequestStats(q)
    BY <2>3, OtherStatsSteps
  <2>4. CASE \E m \in Measurer : ReadFirst(m) \/ ReadSecond(m)
    BY <2>4, ReadFirstOk, ReadSecondOk
  <2>5. CASE UNCHANGED SystemStatsVars
    <3>1. UNCHANGED <<statsRunning, stopChan, statsCaller, counters, worker, measured>>
      BY <2>5 DEF SystemStatsVars
    <3>2. UsageInv'
      <4>1. UsageInv /\ \A m \in Measurer : LineLike(worker'[m].first)
        BY <3>1 DEF StatsInv, UsageInv
      <4> QED BY <3>1, <4>1, UsageKept
    <3> QED BY <3>1, <3>2 DEF StatsInv, LoopInv, OneStatsLoop, NoLoop
  <2> QED BY <2>1, <2>2, <2>3, <2>4, <2>5 DEF SystemStatsNext
<1>3. StatsInv => StatsSound
  BY StatsInvSound
<1> QED BY <1>1, <1>2, <1>3, PTL DEF SystemStatsSpec

-----------------------------------------------------------------------------
(* LogRotation: the files, the current one with what the buffer will add.   *)

LEMMA TotalAgree ==
    ASSUME NEW S, IsFiniteSet(S), NEW f, NEW h, \A x \in S : f[x] = h[x]
    PROVE  Total(f, S) = Total(h, S)
<1> DEFINE G == {s \in SUBSET S : Total(f, s) = Total(h, s)}
<1>1. ASSUME NEW s \in SUBSET S, \A x \in s : s \ {x} \in G PROVE s \in G
  <2>1. IsFiniteSet(s)
    BY FS_Subset
  <2>2. Total(f, s) = IF s = {} THEN 0 ELSE f[Some(s)] + Total(f, s \ {Some(s)})
    BY <2>1, TotalBy
  <2>3. Total(h, s) = IF s = {} THEN 0 ELSE h[Some(s)] + Total(h, s \ {Some(s)})
    BY <2>1, TotalBy
  <2>4. s # {} => Some(s) \in s
    BY SomeIs
  <2> QED BY <1>1, <2>2, <2>3, <2>4
<1> HIDE DEF G
<1>2. SUBSET S \subseteq G
  BY <1>1, SubsetsByRemoval
<1>3. S \in G
  BY <1>2
<1> QED BY <1>3 DEF G

Naturals(f, S) == \A x \in S : f[x] \in Nat
LEMMA TotalOfPart ==
    ASSUME NEW T, IsFiniteSet(T), NEW f, Naturals(f, T), NEW S, S \subseteq T
    PROVE  Total(f, S) \in Nat /\ Total(f, S) <= Total(f, T)
<1> DEFINE G == {s \in SUBSET T : /\ Total(f, s \cap S) \in Nat /\ Total(f, s) \in Nat
                                  /\ Total(f, s \cap S) <= Total(f, s)}
<1>0. \A s \in SUBSET T : IsFiniteSet(s) /\ Whole(f, s)
  BY FS_Subset DEF Naturals, Whole
<1>1. ASSUME NEW s \in SUBSET T, \A x \in s : s \ {x} \in G PROVE s \in G
  <2>1. CASE s = {}
    <3>1. Total(f, s) = 0 /\ s \cap S = {} /\ Total(f, s \cap S) = 0
      BY <2>1, TotalNone
    <3> QED BY <3>1
  <2>2. CASE s # {}
    <3>1. PICK x \in s : TRUE
      BY <2>2
    <3> DEFINE r == s \ {x}
               q == s \cap S
               p == r \cap S
    <3>2. Total(f, s) = f[x] + Total(f, r)
      BY <1>0, TotalWithout
    <3>3. f[x] \in Nat
      BY DEF Naturals
    <3>4. Total(f, p) \in Nat /\ Total(f, r) \in Nat /\ Total(f, p) <= Total(f, r)
      BY <1>1
    <3>5. Total(f, q) = IF x \in S THEN f[x] + Total(f, p) ELSE Total(f, p)
      <4>1. CASE x \notin S
        <5>1. q = p
          BY <4>1
        <5> QED BY <4>1, <5>1
      <4>2. CASE x \in S
        <5>1. q \ {x} = p /\ x \in q /\ q \in SUBSET T
          BY <4>2
        <5> HIDE DEF q, p
        <5>2. Total(f, q) = f[x] + Total(f, q \ {x})
          BY <1>0, <5>1, TotalWithout
        <5> QED BY <4>2, <5>1, <5>2
      <4> QED BY <4>1, <4>2
    <3> HIDE DEF r, q, p
    <3>6. Total(f, q) \in Nat /\ Total(f, s) \in Nat /\ Total(f, q) <= Total(f, s)
      BY <3>2, <3>3, <3>4, <3>5
    <3> QED BY <3>6 DEF q
  <2> QED BY <2>1, <2>2
<1> HIDE DEF G
<1>2. SUBSET T \subseteq G
  BY <1>1, SubsetsByRemoval
<1>3. T \in G /\ T \cap S = S
  BY <1>2
<1> QED BY <1>3 DEF G

\* Lines, and how long a file of them is.
Record == [id : Nat, len : Nat]
LenOf(s) == [i \in DOMAIN s |-> s[i].len]
LenStep(g, s, S) ==
    g = [t \in SUBSET S |-> IF t = {} THEN 0 ELSE s[Some(t)].len + g[t \ {Some(t)}]]
LEMMA LengthIsTotal ==
    ASSUME NEW s, IsFiniteSet(DOMAIN s)
    PROVE  Length(s) = Total(LenOf(s), DOMAIN s)
<1> DEFINE S == DOMAIN s
           f == LenOf(s)
<1>1. Length(s) = (CHOOSE g : LenStep(g, s, DOMAIN s))[DOMAIN s]
  BY DEF Length, FoldSeq, FoldFunction, FoldFunctionOnSet, MapThenFoldSet, LenStep, Some
<1>2. \A x \in S : f[x] = s[x].len
  BY DEF LenOf
<1> HIDE DEF S, f
<1>3. ASSUME NEW g PROVE LenStep(g, s, S) <=> SumStep(g, f, S)
  <2>1. \A t \in SUBSET S : t # {} => s[Some(t)].len = f[Some(t)]
    BY <1>2, SomeIs
  <2> QED BY <2>1 DEF LenStep, SumStep
<1> DEFINE g == CHOOSE g : LenStep(g, s, S)
           h == CHOOSE h : SumStep(h, f, S)
<1>4. SumStep(h, f, S)
  BY SumExists DEF S
<1>5. LenStep(g, s, S)
  <2>1. LenStep(h, s, S)
    BY <1>3, <1>4
  <2> QED BY <2>1
<1>6. SumStep(g, f, S)
  BY <1>3, <1>5
<1>7. Length(s) = g[S] /\ Total(f, S) = h[S]
  BY <1>1 DEF Total, S
<1> HIDE DEF g, h
<1>8. \A t \in SUBSET S : g[t] = h[t]
  BY <1>4, <1>6, SumUnique DEF S
<1> QED BY <1>7, <1>8 DEF S, f

LinesOf(s) ==
    /\ DOMAIN s = 1 .. Len(s) /\ Len(s) \in Nat /\ IsFiniteSet(DOMAIN s)
    /\ \A i \in DOMAIN s : s[i].len \in Nat /\ s[i].id \in Nat
LEMMA LinesAre == ASSUME NEW s \in Seq(Record) PROVE LinesOf(s) /\ Naturals(LenOf(s), DOMAIN s)
<1>1. DOMAIN s = 1 .. Len(s) /\ Len(s) \in Nat /\ \A i \in 1 .. Len(s) : s[i] \in Record
  BY ItemsOf
<1>2. \A i \in DOMAIN s : s[i].len \in Nat /\ s[i].id \in Nat
  BY <1>1 DEF Record
<1>3. IsFiniteSet(DOMAIN s)
  <2>1. 1 \in Int /\ Len(s) \in Int
    BY <1>1
  <2> QED BY <1>1, <2>1, FS_Interval
<1> QED BY <1>1, <1>2, <1>3 DEF LinesOf, Naturals, LenOf

LEMMA LengthIs == ASSUME NEW s \in Seq(Record) PROVE Length(s) \in Nat
BY LinesAre, LengthIsTotal, TotalOfPart DEF LinesOf

LEMMA LengthOfNone == Length(<<>>) = 0
<1>1. DOMAIN <<>> = {}
  OBVIOUS
<1>2. IsFiniteSet(DOMAIN <<>>)
  BY <1>1, FS_EmptySet
<1>3. Length(<<>>) = Total(LenOf(<<>>), {})
  BY <1>1, <1>2, LengthIsTotal
<1> QED BY <1>3, TotalNone

LEMMA LengthAppended ==
    ASSUME NEW s \in Seq(Record), NEW l \in Record
    PROVE  Length(Append(s, l)) = Length(s) + l.len
<1> DEFINE t == Append(s, l)
           n == Len(s)
<1>1. t \in Seq(Record) /\ Len(t) = n + 1 /\ n \in Nat /\ t[n + 1] = l /\ \A i \in 1 .. n : t[i] = s[i]
  OBVIOUS
<1> HIDE DEF t
<1>2. LinesOf(s) /\ LinesOf(t) /\ Naturals(LenOf(t), DOMAIN t)
  BY <1>1, LinesAre
<1>3. DOMAIN t = 1 .. n + 1 /\ DOMAIN s = 1 .. n /\ n + 1 \in DOMAIN t /\ (DOMAIN t) \ {n + 1} = DOMAIN s
  BY <1>1, <1>2 DEF LinesOf
<1> HIDE DEF n
<1>4. Total(LenOf(t), DOMAIN t) = LenOf(t)[n + 1] + Total(LenOf(t), (DOMAIN t) \ {n + 1})
  <2>1. IsFiniteSet(DOMAIN t) /\ Whole(LenOf(t), DOMAIN t)
    BY <1>2 DEF LinesOf, Naturals, Whole
  <2> QED BY <1>3, <2>1, TotalWithout
<1>5. LenOf(t)[n + 1] = l.len
  BY <1>1, <1>3 DEF LenOf
<1>6. Total(LenOf(t), DOMAIN s) = Total(LenOf(s), DOMAIN s)
  <2>1. \A i \in DOMAIN s : LenOf(t)[i] = LenOf(s)[i]
    BY <1>1, <1>3 DEF LenOf
  <2>2. IsFiniteSet(DOMAIN s)
    BY <1>2 DEF LinesOf
  <2> QED BY <2>1, <2>2, TotalAgree
<1>7. Length(t) = l.len + Length(s)
  <2>1. Length(t) = Total(LenOf(t), DOMAIN t) /\ Length(s) = Total(LenOf(s), DOMAIN s)
    BY <1>2, LengthIsTotal DEF LinesOf
  <2> QED BY <1>3, <1>4, <1>5, <1>6, <2>1
<1>8. l.len \in Nat /\ Length(s) \in Nat
  BY LengthIs DEF Record
<1> QED BY <1>7, <1>8 DEF t

Prefix(s, k) == SubSeq(s, 1, k)
LEMMA PrefixIs ==
    ASSUME NEW s \in Seq(Record), NEW k \in 0 .. Len(s)
    PROVE  /\ Prefix(s, k) \in Seq(Record) /\ Len(Prefix(s, k)) = k
           /\ \A i \in 1 .. k : Prefix(s, k)[i] = s[i]
BY DEF Prefix

LEMMA LengthOfPrefix ==
    ASSUME NEW s \in Seq(Record), NEW k \in 0 .. Len(s)
    PROVE  Length(Prefix(s, k)) <= Length(s)
<1> DEFINE t == Prefix(s, k)
<1>1. t \in Seq(Record) /\ Len(t) = k /\ \A i \in 1 .. k : t[i] = s[i]
  BY PrefixIs
<1> HIDE DEF t
<1>2. LinesOf(s) /\ LinesOf(t) /\ Naturals(LenOf(s), DOMAIN s)
  BY <1>1, LinesAre
<1>3. DOMAIN t = 1 .. k /\ DOMAIN t \subseteq DOMAIN s
  BY <1>1, <1>2 DEF LinesOf
<1>4. Total(LenOf(t), DOMAIN t) = Total(LenOf(s), DOMAIN t)
  <2>1. \A i \in DOMAIN t : LenOf(t)[i] = LenOf(s)[i]
    BY <1>1, <1>3 DEF LenOf
  <2>2. IsFiniteSet(DOMAIN t)
    BY <1>2 DEF LinesOf
  <2> QED BY <2>1, <2>2, TotalAgree
<1>5. Total(LenOf(s), DOMAIN t) <= Total(LenOf(s), DOMAIN s)
  BY <1>2, <1>3, TotalOfPart DEF LinesOf
<1>6. Length(t) = Total(LenOf(t), DOMAIN t) /\ Length(s) = Total(LenOf(s), DOMAIN s)
  BY <1>2, LengthIsTotal DEF LinesOf
<1> QED BY <1>4, <1>5, <1>6 DEF t

LEMMA IdsAre == ASSUME NEW s \in Seq(Record) PROVE Ids(s) = {s[i].id : i \in 1 .. Len(s)}
<1>1. DOMAIN s = 1 .. Len(s)
  BY ItemsOf
<1> QED BY <1>1 DEF Ids, ToSet

LEMMA IdsOfNone == Ids(<<>>) = {}
BY DEF Ids, ToSet

LEMMA IdsOfLines == ASSUME NEW s \in Seq(Record) PROVE Ids(s) \subseteq Nat
BY IdsAre, LinesAre DEF LinesOf

LEMMA IdsOfAppended ==
    ASSUME NEW s \in Seq(Record), NEW l \in Record
    PROVE  Ids(Append(s, l)) = Ids(s) \cup {l.id}
<1> DEFINE n == Len(s)
<1>3. n \in Nat
  OBVIOUS
<1>4. Ids(Append(s, l)) = Ids(s) \cup {l.id}
  <2> DEFINE u == Append(s, l)
  <2>1. u \in Seq(Record) /\ Len(u) = n + 1 /\ u[n + 1] = l /\ \A i \in 1 .. n : u[i] = s[i]
    OBVIOUS
  <2> HIDE DEF u
  <2>2. Ids(u) = {u[i].id : i \in 1 .. n + 1} /\ Ids(s) = {s[i].id : i \in 1 .. n}
    BY <2>1, IdsAre
  <2> HIDE DEF n
  <2>3. 1 .. n + 1 = (1 .. n) \cup {n + 1}
    BY <1>3
  <2> QED BY <2>1, <2>2, <2>3 DEF u
<1> QED BY <1>4

LEMMA IdsOfBoth ==
    ASSUME NEW s \in Seq(Record), NEW t \in Seq(Record)
    PROVE  Ids(s \o t) = Ids(s) \cup Ids(t)
<1> DEFINE n == Len(s)
           m == Len(t)
<1>3. n \in Nat /\ m \in Nat
  OBVIOUS
<1>5. Ids(s \o t) = Ids(s) \cup Ids(t)
  <2> DEFINE u == s \o t
  <2>1. u \in Seq(Record) /\ Len(u) = n + m /\ (\A i \in 1 .. n : u[i] = s[i]) /\ \A i \in 1 .. m : u[n + i] = t[i]
    OBVIOUS
  <2> HIDE DEF u
  <2>2. Ids(u) = {u[i].id : i \in 1 .. n + m} /\ Ids(s) = {s[i].id : i \in 1 .. n} /\ Ids(t) = {t[i].id : i \in 1 .. m}
    BY <2>1, IdsAre
  <2> HIDE DEF n, m
  <2>3. \A i \in 1 .. n + m : i \in 1 .. n \/ \E j \in 1 .. m : i = n + j
    <3> SUFFICES ASSUME NEW i \in 1 .. n + m, i \notin 1 .. n PROVE \E j \in 1 .. m : i = n + j
      OBVIOUS
    <3>1. i - n \in 1 .. m /\ i = n + (i - n)
      BY <1>3
    <3> QED BY <3>1
  <2>4. (\A i \in 1 .. n : i \in 1 .. n + m) /\ \A j \in 1 .. m : n + j \in 1 .. n + m
    BY <1>3
  <2>5. Ids(u) \subseteq Ids(s) \cup Ids(t)
    <3> SUFFICES ASSUME NEW i \in 1 .. n + m PROVE u[i].id \in Ids(s) \cup Ids(t)
      BY <2>2
    <3>1. CASE i \in 1 .. n
      BY <2>1, <2>2, <3>1
    <3>2. CASE \E j \in 1 .. m : i = n + j
      <4>1. PICK j \in 1 .. m : i = n + j
        BY <3>2
      <4>2. u[i] = t[j]
        BY <2>1, <4>1
      <4> QED BY <2>2, <4>2
    <3> QED BY <2>3, <3>1, <3>2
  <2>6. Ids(s) \subseteq Ids(u)
    BY <2>1, <2>2, <2>4
  <2>7. Ids(t) \subseteq Ids(u)
    BY <2>1, <2>2, <2>4
  <2> QED BY <2>5, <2>6, <2>7 DEF u
<1> QED BY <1>5

LEMMA IdsOfPrefix ==
    ASSUME NEW s \in Seq(Record), NEW k \in 0 .. Len(s)
    PROVE  Ids(Prefix(s, k)) \subseteq Ids(s)
<1> DEFINE n == Len(s)
<1>3. n \in Nat
  OBVIOUS
<1>6. Ids(Prefix(s, k)) \subseteq Ids(s)
  <2> DEFINE u == Prefix(s, k)
  <2>1. u \in Seq(Record) /\ Len(u) = k /\ \A i \in 1 .. k : u[i] = s[i]
    BY PrefixIs
  <2> HIDE DEF u
  <2>2. Ids(u) = {u[i].id : i \in 1 .. k} /\ Ids(s) = {s[i].id : i \in 1 .. n}
    BY <2>1, IdsAre
  <2>3. \A i \in 1 .. k : i \in 1 .. n
    BY <1>3
  <2> QED BY <2>1, <2>2, <2>3 DEF u
<1> QED BY <1>6

\* The files of a directory, up to line n, in order; each within the limit.
Rising(s) == \A m, n \in DOMAIN s : m < n => s[m].id < s[n].id
Before(s, t) == \A old \in Ids(s), new \in Ids(t) : old < new
InOrder(g, n) ==
    /\ g \in [Backup -> Seq(Record)]
    /\ \A i \in Backup : Rising(g[i]) /\ \A e \in Ids(g[i]) : e <= n
    /\ \A i, j \in Backup : j < i => Before(g[i], g[j])
Small(s) == Length(s) <= MaxSizeBytes \/ Len(s) = 1
AllSmall(g) == \A i \in Backup : Small(g[i])
LEMMA BackupIs == MaxBackups \in Nat /\ MaxBackups >= 1 /\ 0 \in Backup /\ MaxSizeBytes \in Nat
BY LogRotationAssumption DEF Backup

LEMMA OrderLater ==
    ASSUME NEW g, NEW n \in Nat, InOrder(g, n)
    PROVE  InOrder(g, n + 1)
<1>1. ASSUME NEW i \in Backup, NEW e \in Ids(g[i]) PROVE e <= n + 1
  <2>1. e \in Nat /\ e <= n
    BY IdsAre, LinesAre DEF InOrder, LinesOf
  <2> QED BY <2>1
<1> QED BY <1>1 DEF InOrder

LEMMA OrderAppended ==
    ASSUME NEW g, NEW n \in Nat, InOrder(g, n), NEW l \in Record, l.id = n + 1
    PROVE  InOrder([g EXCEPT ![0] = Append(g[0], l)], n + 1)
<1> DEFINE s == g[0]
           t == Append(s, l)
           h == [g EXCEPT ![0] = t]
<1>1. s \in Seq(Record) /\ g \in [Backup -> Seq(Record)]
  BY BackupIs DEF InOrder
<1>2. t \in Seq(Record) /\ Len(t) = Len(s) + 1 /\ t[Len(s) + 1] = l /\ Len(s) \in Nat /\ \A i \in 1 .. Len(s) : t[i] = s[i]
  BY <1>1
<1>3. Ids(t) = Ids(s) \cup {n + 1} /\ Ids(s) \subseteq Nat
  BY <1>1, IdsOfAppended, IdsOfLines
<1>4. \A i \in Backup : h[i] = IF i = 0 THEN t ELSE g[i]
  BY <1>1
<1>5. h \in [Backup -> Seq(Record)]
  BY <1>1, <1>2
<1> HIDE DEF h, t
<1>6. Rising(t)
  <2>1. DOMAIN t = 1 .. Len(s) + 1 /\ DOMAIN s = 1 .. Len(s)
    BY <1>1, <1>2
  <2>2. \A i \in 1 .. Len(s) : s[i].id \in Ids(s)
    BY <1>1, IdsAre
  <2>3. \A i \in 1 .. Len(s) : s[i].id \in Nat /\ s[i].id <= n
    BY <1>3, <2>2, BackupIs DEF InOrder
  <2>4. Rising(s)
    BY BackupIs DEF InOrder
  <2> HIDE DEF s
  <2> SUFFICES ASSUME NEW i \in 1 .. Len(s) + 1, NEW j \in 1 .. Len(s) + 1, i < j PROVE t[i].id < t[j].id
    BY <2>1 DEF Rising
  <2>5. i \in 1 .. Len(s) /\ t[i] = s[i]
    BY <1>2
  <2>6. CASE j = Len(s) + 1
    <3>1. t[j].id = n + 1
      BY <1>2, <2>6
    <3> QED BY <2>3, <2>5, <3>1
  <2>7. CASE j # Len(s) + 1
    <3>1. j \in 1 .. Len(s) /\ t[j] = s[j]
      BY <1>2, <2>7
    <3> QED BY <2>1, <2>4, <2>5, <3>1 DEF Rising
  <2> QED BY <2>6, <2>7
<1>7. \A i \in Backup : Ids(g[i]) \subseteq Nat /\ \A e \in Ids(g[i]) : e <= n
  <2>1. \A i \in Backup : g[i] \in Seq(Record)
    BY <1>1
  <2> QED BY <2>1, IdsOfLines DEF InOrder
<1>8. ASSUME NEW i \in Backup PROVE Rising(h[i]) /\ \A e \in Ids(h[i]) : e <= n + 1
  <2>1. CASE i = 0
    BY <1>3, <1>4, <1>6, <1>7, <2>1, BackupIs
  <2>2. CASE i # 0
    BY <1>4, <1>7, <2>2 DEF InOrder
  <2> QED BY <2>1, <2>2
<1>9. ASSUME NEW i \in Backup, NEW j \in Backup, j < i PROVE Before(h[i], h[j])
  <2>1. Before(g[i], g[j]) /\ h[i] = g[i]
    <3>1. i # 0
      BY <1>9, BackupIs DEF Backup
    <3> QED BY <1>4, <1>9, <3>1 DEF InOrder
  <2>2. CASE j # 0
    BY <1>4, <2>1, <2>2
  <2>3. CASE j = 0
    <3>1. \A old \in Ids(g[i]) : old < n + 1
      BY <1>7
    <3> QED BY <1>3, <1>4, <2>1, <2>3, <3>1 DEF Before
  <2> QED BY <2>2, <2>3
<1>10. InOrder(h, n + 1)
  BY <1>5, <1>8, <1>9 DEF InOrder
<1> QED BY <1>10 DEF h, t

LEMMA OrderCut ==
    ASSUME NEW g, NEW n \in Nat, InOrder(g, n), NEW k \in 0 .. Len(g[0])
    PROVE  /\ InOrder([g EXCEPT ![0] = Prefix(g[0], k)], n)
           /\ AllSmall(g) => AllSmall([g EXCEPT ![0] = Prefix(g[0], k)])
<1> DEFINE s == g[0]
           t == Prefix(s, k)
           h == [g EXCEPT ![0] = t]
<1>1. s \in Seq(Record) /\ g \in [Backup -> Seq(Record)]
  BY BackupIs DEF InOrder
<1>2. t \in Seq(Record) /\ Len(t) = k /\ \A i \in 1 .. k : t[i] = s[i]
  BY <1>1, PrefixIs
<1>3. Ids(t) \subseteq Ids(s)
  BY <1>1, IdsOfPrefix
<1>4. Length(t) <= Length(s) /\ Length(s) \in Nat /\ Length(t) \in Nat
  BY <1>1, <1>2, LengthOfPrefix, LengthIs
<1> HIDE DEF t
<1>5. \A i \in Backup : h[i] = IF i = 0 THEN t ELSE g[i]
  BY <1>1
<1>6. h \in [Backup -> Seq(Record)]
  BY <1>1, <1>2
<1> HIDE DEF h
<1>7. Rising(t)
  <2>1. DOMAIN t = 1 .. k /\ DOMAIN s = 1 .. Len(s) /\ Len(s) \in Nat
    BY <1>1, <1>2
  <2>2. \A i \in 1 .. k : i \in 1 .. Len(s)
    BY <2>1
  <2>3. Rising(s)
    BY BackupIs DEF InOrder
  <2> QED BY <1>2, <2>1, <2>2, <2>3 DEF Rising
<1>8. InOrder(h, n)
  <2>1. ASSUME NEW i \in Backup PROVE Rising(h[i]) /\ \A e \in Ids(h[i]) : e <= n
    BY <1>3, <1>5, <1>7, BackupIs DEF InOrder
  <2>2. ASSUME NEW i \in Backup, NEW j \in Backup, j < i PROVE Before(h[i], h[j])
    <3>1. Ids(h[i]) \subseteq Ids(g[i]) /\ Ids(h[j]) \subseteq Ids(g[j]) /\ Before(g[i], g[j])
      BY <1>3, <1>5, <2>2 DEF InOrder
    <3> QED BY <3>1 DEF Before
  <2> QED BY <1>6, <2>1, <2>2 DEF InOrder
<1>9. ASSUME AllSmall(g) PROVE AllSmall(h)
  <2>1. Small(t)
    <3>1. Small(s)
      BY <1>9, BackupIs DEF AllSmall
    <3>2. CASE Length(s) <= MaxSizeBytes
      BY <1>4, <3>2, BackupIs DEF Small
    <3>3. CASE Len(s) = 1
      <4>1. k = 0 \/ k = 1
        BY <3>3
      <4>2. k = 0 => t = <<>>
        BY <1>2
      <4>3. k = 0 => Length(t) = 0
        BY <4>2, LengthOfNone
      <4> QED BY <1>2, <4>1, <4>3, BackupIs DEF Small
    <3> QED BY <3>1, <3>2, <3>3 DEF Small
  <2> QED BY <1>5, <1>9, <2>1 DEF AllSmall
<1> QED BY <1>8, <1>9 DEF h, t

Shifted(g, M) == [j \in Backup |-> IF j - 1 \in M THEN g[j - 1] ELSE IF j \in M THEN <<>> ELSE g[j]]
LEMMA OrderShifted ==
    ASSUME NEW g, NEW n \in Nat, InOrder(g, n), NEW M, M \subseteq 0 .. MaxBackups - 1
    PROVE  InOrder(Shifted(g, M), n) /\ (AllSmall(g) => AllSmall(Shifted(g, M)))
<1> DEFINE h == Shifted(g, M)
<1>1. g \in [Backup -> Seq(Record)] /\ \A j \in M : j \in Backup /\ j + 1 \in Backup /\ j \in Nat
  BY BackupIs DEF InOrder, Backup
<1>2. \A j \in Backup : j \in Nat /\ j - 1 \in Int
  BY BackupIs DEF Backup
\* Each file is empty or what another was.
<1>3. ASSUME NEW i \in Backup
      PROVE  \/ h[i] = <<>> \/ (i - 1 \in M /\ i - 1 \in Backup /\ h[i] = g[i - 1])
             \/ (i \notin M /\ h[i] = g[i])
  <2>1. h[i] = IF i - 1 \in M THEN g[i - 1] ELSE IF i \in M THEN <<>> ELSE g[i]
    BY DEF Shifted
  <2> HIDE DEF h
  <2> QED BY <1>1, <2>1
<1>4. \A S : <<>> \in Seq(S)
  OBVIOUS
<1>5. Rising(<<>>) /\ Ids(<<>>) = {} /\ Small(<<>>)
  BY LengthOfNone, BackupIs DEF Rising, Ids, ToSet, Small
<1>6. h \in [Backup -> Seq(Record)]
  <2>1. \A i \in Backup : h[i] \in Seq(Record)
    BY <1>1, <1>3, <1>4
  <2> QED BY <2>1 DEF Shifted
<1> HIDE DEF h
<1>7. ASSUME NEW i \in Backup PROVE Rising(h[i]) /\ \A e \in Ids(h[i]) : e <= n
  BY <1>3, <1>5 DEF InOrder
<1>8. ASSUME NEW i \in Backup, NEW j \in Backup, j < i PROVE Before(h[i], h[j])
  <2>1. CASE h[i] = <<>> \/ h[j] = <<>>
    BY <1>5, <2>1 DEF Before
  <2>2. CASE h[i] # <<>> /\ h[j] # <<>>
    <3>1. PICK x \in Backup : h[i] = g[x] /\ ((x = i /\ i \notin M) \/ (x = i - 1 /\ i - 1 \in M))
      BY <1>3, <2>2
    <3>2. PICK y \in Backup : h[j] = g[y] /\ ((y = j /\ j \notin M) \/ (y = j - 1 /\ j - 1 \in M))
      BY <1>3, <2>2
    <3>3. y < x
      BY <1>2, <1>8, <3>1, <3>2
    <3> QED BY <3>1, <3>2, <3>3 DEF InOrder
  <2> QED BY <2>1, <2>2
<1>9. AllSmall(g) => AllSmall(h)
  BY <1>3, <1>5 DEF AllSmall
<1> QED BY <1>6, <1>7, <1>8, <1>9 DEF InOrder, h

\* The inductive invariant: the current file as it will be, the others as they are.
View(f, b) == [i \in Backup |-> IF i = 0 THEN f[0] \o b ELSE f[i]]
Files == View(logFile, buffer)
KeptIn(g) == UNION {Ids(g[i]) : i \in Backup}
FileTypes ==
    /\ logFile \in [Backup -> Seq(Record)] /\ buffer \in Seq(Record)
    /\ exists \subseteq 1 .. MaxBackups /\ \A i \in Backup : i # 0 /\ i \notin exists => logFile[i] = <<>>
    /\ size \in Nat /\ lines \in Nat /\ broken \in BOOLEAN /\ open \in BOOLEAN /\ botched \in BOOLEAN
    /\ (broken => buffer = <<>>) /\ (~open => buffer = <<>> /\ ~broken)
LogInv ==
    /\ FileTypes
    /\ InOrder(Files, lines)
    /\ open => Length(Files[0]) <= size
    /\ ~botched => AllSmall(Files)

LEMMA NoneAfter == ASSUME NEW X, NEW s \in Seq(X) PROVE s \o <<>> = s /\ <<>> \in Seq(X) /\ \A x \in X : s \o <<x>> = Append(s, x)
OBVIOUS

LEMMA InUnion ==
    ASSUME NEW g, NEW x
    PROVE  x \in UNION {Ids(g[i]) : i \in Backup} <=> \E i \in Backup : x \in Ids(g[i])
BY Zenon

LEMMA ViewIs ==
    ASSUME NEW f \in [Backup -> Seq(Record)], NEW b \in Seq(Record)
    PROVE  /\ DOMAIN View(f, b) = Backup /\ View(f, b)[0] = f[0] \o b
           /\ \A i \in Backup : i # 0 => View(f, b)[i] = f[i]
           /\ b = <<>> => View(f, b) = f
           /\ KeptIn(View(f, b)) = (UNION {Ids(f[i]) : i \in Backup}) \cup Ids(b)
<1>1. /\ DOMAIN View(f, b) = Backup /\ View(f, b)[0] = f[0] \o b
      /\ \A i \in Backup : i # 0 => View(f, b)[i] = f[i]
  BY BackupIs DEF View
<1>2. f[0] \in Seq(Record)
  BY BackupIs
<1>3. ASSUME b = <<>> PROVE View(f, b) = f
  <2>1. f[0] \o b = f[0]
    BY <1>2, <1>3, NoneAfter
  <2> QED BY <2>1 DEF View
<1>4. KeptIn(View(f, b)) = (UNION {Ids(f[i]) : i \in Backup}) \cup Ids(b)
  <2> DEFINE v == View(f, b)
  <2>1. Ids(v[0]) = Ids(f[0]) \cup Ids(b)
    BY <1>1, <1>2, IdsOfBoth
  <2>2. 0 \in Backup /\ \A i \in Backup : i # 0 => v[i] = f[i]
    BY <1>1, BackupIs
  <2> HIDE DEF v
  <2>3. ASSUME NEW i \in Backup PROVE Ids(v[i]) = IF i = 0 THEN Ids(f[0]) \cup Ids(b) ELSE Ids(f[i])
    BY <2>1, <2>2
  <2>4. ASSUME NEW x
        PROVE  (\E i \in Backup : x \in Ids(v[i])) <=> (\E i \in Backup : x \in Ids(f[i])) \/ x \in Ids(b)
    BY <2>2, <2>3
  <2>5. ASSUME NEW x
        PROVE  x \in UNION {Ids(v[i]) : i \in Backup} <=> x \in (UNION {Ids(f[i]) : i \in Backup}) \cup Ids(b)
    <3>1. x \in UNION {Ids(v[i]) : i \in Backup} <=> \E i \in Backup : x \in Ids(v[i])
      BY InUnion
    <3>2. x \in UNION {Ids(f[i]) : i \in Backup} <=> \E i \in Backup : x \in Ids(f[i])
      BY InUnion
    <3>3. x \in (UNION {Ids(f[i]) : i \in Backup}) \cup Ids(b) <=> x \in UNION {Ids(f[i]) : i \in Backup} \/ x \in Ids(b)
      BY Zenon
    <3>4. (\E i \in Backup : x \in Ids(v[i])) <=> (\E i \in Backup : x \in Ids(f[i])) \/ x \in Ids(b)
      BY <2>4
    <3> QED BY <3>1, <3>2, <3>3, <3>4
  <2>6. UNION {Ids(v[i]) : i \in Backup} = (UNION {Ids(f[i]) : i \in Backup}) \cup Ids(b)
    BY <2>5, Zenon
  <2> QED BY <2>6 DEF KeptIn, v
<1> QED BY <1>1, <1>3, <1>4

\* What a step drops, said of the views.
LEMMA DropsAre ==
    ASSUME FileTypes, FileTypes', NEW g, g = Files, NEW h, h = Files',
           botched' \/ KeptIn(g) \ KeptIn(h) \subseteq Ids(g[MaxBackups]) \cup lost'
    PROVE  DropsOnlyOldest
<1>1. Kept = KeptIn(g)
  BY ViewIs DEF Kept, Files, FileTypes
<1>2. Kept' = KeptIn(h)
  <2>1. logFile' \in [Backup -> Seq(Record)] /\ buffer' \in Seq(Record) /\ h = View(logFile', buffer')
    BY DEF FileTypes, Files
  <2>2. KeptIn(h) = (UNION {Ids(logFile'[i]) : i \in Backup}) \cup Ids(buffer')
    BY <2>1, ViewIs
  <2> QED BY <2>2 DEF Kept
<1>3. g[MaxBackups] = logFile[MaxBackups]
  <2>1. logFile \in [Backup -> Seq(Record)] /\ buffer \in Seq(Record)
    BY DEF FileTypes
  <2>2. MaxBackups \in Backup /\ MaxBackups # 0
    BY BackupIs DEF Backup
  <2>3. View(logFile, buffer)[MaxBackups] = logFile[MaxBackups]
    BY <2>1, <2>2, ViewIs
  <2> QED BY <2>3 DEF Files
<1> QED BY <1>1, <1>2, <1>3 DEF DropsOnlyOldest

\* A step, from the views before and after it.
LEMMA LogStepOk ==
    ASSUME LogInv, FileTypes', NEW g, g = Files, NEW h, h = Files', InOrder(h, lines'),
           open' => Length(h[0]) <= size', ~botched' => AllSmall(h),
           botched' \/ KeptIn(g) \ KeptIn(h) \subseteq Ids(g[MaxBackups]) \cup lost'
    PROVE  LogInv' /\ DropsOnlyOldest
<1>1. DropsOnlyOldest
  BY DropsAre DEF LogInv
<1>2. LogInv'
  BY DEF LogInv
<1> QED BY <1>1, <1>2

LEMMA LogInitOk == ASSUME LogRotationInit PROVE LogInv
<1>1. /\ logFile = [i \in Backup |-> <<>>] /\ exists = {} /\ buffer = <<>> /\ broken = FALSE /\ open = TRUE /\ size = 0
      /\ lines = 0 /\ botched = FALSE
  BY DEF LogRotationInit
<1>2. \A S : <<>> \in Seq(S)
  OBVIOUS
<1>3. \A i \in Backup : logFile[i] = <<>>
  BY <1>1
<1>4. FileTypes
  <2>1. logFile \in [Backup -> Seq(Record)] /\ buffer \in Seq(Record)
    BY <1>1, <1>2
  <2>2. size \in Nat /\ lines \in Nat /\ broken \in BOOLEAN /\ open \in BOOLEAN /\ botched \in BOOLEAN /\ open
    BY <1>1
  <2> QED BY <1>1, <1>3, <2>1, <2>2 DEF FileTypes
<1>5. Files = logFile
  BY <1>1, <1>4, ViewIs DEF Files, FileTypes
<1>6. Rising(<<>>) /\ Ids(<<>>) = {} /\ Small(<<>>) /\ Length(<<>>) = 0
  BY LengthOfNone, BackupIs DEF Rising, Ids, ToSet, Small
<1>7. InOrder(logFile, 0)
  BY <1>3, <1>4, <1>6 DEF InOrder, Before, FileTypes
<1>8. AllSmall(logFile) /\ Length(logFile[0]) = 0
  BY <1>3, <1>6, BackupIs DEF AllSmall
<1> QED BY <1>1, <1>4, <1>5, <1>7, <1>8 DEF LogInv

LEMMA FlushedIs == ASSUME LogInv PROVE Flushed = Files[0] /\ [logFile EXCEPT ![0] = Flushed] = Files
<1>1. logFile \in [Backup -> Seq(Record)] /\ buffer \in Seq(Record) /\ logFile[0] \in Seq(Record)
  BY BackupIs DEF LogInv, FileTypes
<1>2. logFile[0] \o buffer = Flushed
  <2>1. broken => logFile[0] \o buffer = logFile[0]
    <3>1. logFile[0] \o <<>> = logFile[0]
      BY <1>1, NoneAfter
    <3> QED BY <3>1 DEF LogInv, FileTypes
  <2> QED BY <2>1 DEF Flushed
<1>3. Files[0] = Flushed /\ Files = View(logFile, buffer)
  BY <1>1, <1>2, ViewIs DEF Files
<1>4. [logFile EXCEPT ![0] = Flushed] = Files
  BY <1>1, <1>2, <1>3, BackupIs DEF View
<1> QED BY <1>3, <1>4

LEMMA FlushLogOk == ASSUME LogInv, FlushLog PROVE LogInv' /\ DropsOnlyOldest
<1>1. /\ logFile' = [logFile EXCEPT ![0] = Flushed] /\ buffer' = <<>>
      /\ UNCHANGED <<exists, broken, open, size, lines, lost, botched>> /\ ~broken
  BY DEF FlushLog
<1> DEFINE g == Files
<1>2. logFile' = g /\ g \in [Backup -> Seq(Record)]
  BY <1>1, FlushedIs DEF LogInv, InOrder
<1>3. Files' = g
  <2>1. <<>> \in Seq(Record)
    OBVIOUS
  <2>2. View(g, <<>>) = g
    BY <1>2, <2>1, ViewIs
  <2> QED BY <1>1, <1>2, <2>2 DEF Files
<1>4. FileTypes'
  <2>1. \A i \in Backup : i # 0 => g[i] = logFile[i]
    BY ViewIs DEF LogInv, FileTypes, Files
  <2>2. <<>> \in Seq(Record)
    OBVIOUS
  <2> HIDE DEF g
  <2> QED BY <1>1, <1>2, <2>1, <2>2 DEF LogInv, FileTypes
<1>5. InOrder(g, lines') /\ (open' => Length(g[0]) <= size') /\ (~botched' => AllSmall(g))
  BY <1>1 DEF LogInv
<1> QED BY <1>3, <1>4, <1>5, LogStepOk

LEMMA JoinIs ==
    ASSUME NEW X, NEW s \in Seq(X), NEW t \in Seq(X)
    PROVE  /\ s \o t \in Seq(X) /\ Len(s \o t) = Len(s) + Len(t) /\ (\A i \in 1 .. Len(s) : (s \o t)[i] = s[i])
           /\ \A i \in 1 .. Len(t) : (s \o t)[Len(s) + i] = t[i]
OBVIOUS

LEMMA SameSeq ==
    ASSUME NEW X, NEW s \in Seq(X), NEW t \in Seq(X), Len(s) = Len(t), \A i \in 1 .. Len(s) : s[i] = t[i]
    PROVE  s = t
OBVIOUS

LEMMA JoinMore ==
    ASSUME NEW X, NEW s \in Seq(X), NEW t \in Seq(X), NEW l \in X
    PROVE  Append(t, l) \in Seq(X) /\ s \o t \in Seq(X) /\ s \o Append(t, l) = Append(s \o t, l)
OBVIOUS

LEMMA SplitAt ==
    ASSUME NEW X, NEW s \in Seq(X), NEW n \in 0 .. Len(s)
    PROVE  SubSeq(s, n + 1, Len(s)) \in Seq(X) /\ s = SubSeq(s, 1, n) \o SubSeq(s, n + 1, Len(s))
<1> DEFINE m == Len(s)
           p == SubSeq(s, 1, n)
           q == SubSeq(s, n + 1, m)
           y == p \o q
<1>1. m \in Nat /\ n \in 0 .. m
  OBVIOUS
<1>2. p \in Seq(X) /\ Len(p) = n /\ \A i \in 1 .. n : p[i] = s[i]
  OBVIOUS
<1>3. q \in Seq(X) /\ Len(q) = m - n /\ \A i \in 1 .. m - n : q[i] = s[n + i]
  <2>1. \A i \in n + 1 .. m : s[i] \in X
    OBVIOUS
  <2>2. Len(q) = m - n
    OBVIOUS
  <2>3. \A i \in 1 .. m - n : q[i] = s[n + i]
    OBVIOUS
  <2> QED BY <2>1, <2>2, <2>3
<1> HIDE DEF p, q, m
<1>4. y \in Seq(X) /\ Len(y) = n + (m - n) /\ (\A i \in 1 .. n : y[i] = p[i]) /\ \A i \in 1 .. m - n : y[n + i] = q[i]
  <2>1. p \in Seq(X) /\ q \in Seq(X)
    BY <1>2, <1>3
  <2>2. /\ y \in Seq(X) /\ Len(y) = Len(p) + Len(q) /\ (\A i \in 1 .. Len(p) : y[i] = p[i])
        /\ \A i \in 1 .. Len(q) : y[Len(p) + i] = q[i]
    BY <2>1, JoinIs
  <2> HIDE DEF y
  <2> QED BY <1>2, <1>3, <2>2
<1> HIDE DEF y
<1>5. ASSUME NEW i \in 1 .. m PROVE s[i] = y[i]
  <2>1. CASE i \in 1 .. n
    BY <1>2, <1>4, <2>1
  <2>2. CASE i \notin 1 .. n
    <3> DEFINE j == i - n
    <3>1. j \in 1 .. m - n /\ i = n + j
      BY <1>1, <2>2
    <3> HIDE DEF j
    <3> QED BY <1>3, <1>4, <3>1
  <2> QED BY <2>1, <2>2
<1>6. Len(s) = Len(y)
  BY <1>1, <1>4 DEF m
<1>7. \A i \in 1 .. Len(s) : s[i] = y[i]
  BY <1>5 DEF m
<1>8. s = y
  BY <1>4, <1>6, <1>7, SameSeq
<1> QED BY <1>3, <1>8 DEF p, q, m, y

LEMMA LinesJoin ==
    ASSUME NEW s \in Seq(Record), NEW t \in Seq(Record)
    PROVE  /\ s \o t \in Seq(Record) /\ Len(s \o t) = Len(s) + Len(t) /\ (\A i \in 1 .. Len(s) : (s \o t)[i] = s[i])
           /\ \A i \in 1 .. Len(t) : (s \o t)[Len(s) + i] = t[i]
BY JoinIs

LEMMA LinesJoinMore ==
    ASSUME NEW s \in Seq(Record), NEW t \in Seq(Record), NEW l \in Record
    PROVE  Append(t, l) \in Seq(Record) /\ s \o t \in Seq(Record) /\ s \o Append(t, l) = Append(s \o t, l)
BY JoinMore

\* Views of a buffer that is cut, and of one with a line more.
LEMMA CutIs ==
    ASSUME NEW f \in [Backup -> Seq(Record)], NEW b \in Seq(Record), NEW n \in 0 .. Len(b)
    PROVE  /\ Prefix(b, n) \in Seq(Record)
           /\ Len(f[0]) + n \in 0 .. Len(View(f, b)[0])
           /\ View(f, Prefix(b, n)) = [View(f, b) EXCEPT ![0] = Prefix(View(f, b)[0], Len(f[0]) + n)]
<1> DEFINE s == f[0]
           p == Prefix(b, n)
           c == s \o b
           k == Len(s) + n
<1>1. s \in Seq(Record)
  BY BackupIs
<1>2. p \in Seq(Record) /\ Len(p) = n /\ \A i \in 1 .. n : p[i] = b[i]
  BY PrefixIs
<1>3. /\ c \in Seq(Record) /\ Len(c) = Len(s) + Len(b) /\ (\A i \in 1 .. Len(s) : c[i] = s[i])
      /\ \A i \in 1 .. Len(b) : c[Len(s) + i] = b[i]
  BY <1>1
<1>4. Len(s) \in Nat /\ Len(b) \in Nat /\ n \in Nat /\ n <= Len(b)
  BY <1>1
<1>5. k \in 0 .. Len(c)
  BY <1>3, <1>4
<1>6. Prefix(c, k) \in Seq(Record) /\ Len(Prefix(c, k)) = k /\ \A i \in 1 .. k : Prefix(c, k)[i] = c[i]
  BY <1>3, <1>5, PrefixIs
<1>7. Prefix(c, k) = s \o p
  <2> DEFINE x == Prefix(c, k)
             y == s \o p
  <2>1. /\ y \in Seq(Record) /\ Len(y) = Len(s) + n /\ (\A i \in 1 .. Len(s) : y[i] = s[i])
        /\ \A i \in 1 .. n : y[Len(s) + i] = p[i]
    <3>1. s \in Seq(Record) /\ p \in Seq(Record) /\ Len(p) = n
      BY <1>1, <1>2
    <3> HIDE DEF s, p
    <3> QED BY <3>1, LinesJoin
  <2>2. x \in Seq(Record) /\ Len(x) = Len(s) + n /\ \A i \in 1 .. Len(s) + n : x[i] = c[i]
    BY <1>6
  <2> HIDE DEF x, y, c
  <2>3. ASSUME NEW i \in 1 .. Len(s) + n PROVE x[i] = y[i]
    <3>1. CASE i \in 1 .. Len(s)
      BY <1>3, <2>1, <2>2, <3>1
    <3>2. CASE i \notin 1 .. Len(s)
      <4> DEFINE j == i - Len(s)
      <4>1. j \in 1 .. n /\ j \in 1 .. Len(b) /\ i = Len(s) + j
        BY <1>4, <3>2
      <4> HIDE DEF j
      <4>2. c[i] = b[j] /\ y[i] = p[j] /\ p[j] = b[j]
        BY <1>2, <1>3, <2>1, <4>1
      <4> QED BY <2>2, <4>2
    <3> QED BY <3>1, <3>2
  <2>4. Len(x) = Len(y) /\ \A i \in 1 .. Len(x) : x[i] = y[i]
    BY <2>1, <2>2, <2>3
  <2>5. x = y
    BY <2>1, <2>2, <2>4, SameSeq
  <2> QED BY <2>5 DEF x, y
<1>8. View(f, b)[0] = c /\ View(f, p)[0] = s \o p
  BY <1>2, ViewIs
<1>9. View(f, p) = [View(f, b) EXCEPT ![0] = Prefix(c, k)]
  <2>1. s \o p = Prefix(c, k)
    BY <1>7
  <2> HIDE DEF p, c, k
  <2>2. View(f, p) = [i \in Backup |-> IF i = 0 THEN Prefix(c, k) ELSE f[i]]
    BY <2>1 DEF View
  <2> QED BY <2>2 DEF View
<1> QED BY <1>2, <1>5, <1>8, <1>9

LEMMA MoreIs ==
    ASSUME NEW f \in [Backup -> Seq(Record)], NEW b \in Seq(Record), NEW l \in Record
    PROVE  /\ Append(b, l) \in Seq(Record)
           /\ View(f, Append(b, l)) = [View(f, b) EXCEPT ![0] = Append(View(f, b)[0], l)]
           /\ View(f, Append(b, l))[0] = Append(View(f, b)[0], l)
           /\ View(f, b)[0] \in Seq(Record)
           /\ KeptIn(View(f, b)) \subseteq KeptIn(View(f, Append(b, l)))
<1> DEFINE s == f[0]
           c == Append(b, l)
<1>1. s \in Seq(Record)
  BY BackupIs
<1>2. c \in Seq(Record) /\ s \o c = Append(s \o b, l) /\ s \o b \in Seq(Record)
  BY <1>1, LinesJoinMore
<1>3. View(f, b)[0] = s \o b /\ View(f, c)[0] = Append(s \o b, l)
  BY <1>2, ViewIs
<1>4. View(f, c) = [View(f, b) EXCEPT ![0] = Append(s \o b, l)]
  <2> DEFINE y == Append(s \o b, l)
  <2>1. s \o c = y
    BY <1>2
  <2> HIDE DEF c, y
  <2>2. View(f, c) = [i \in Backup |-> IF i = 0 THEN y ELSE f[i]]
    BY <2>1 DEF View
  <2>3. View(f, c) = [View(f, b) EXCEPT ![0] = y]
    BY <2>2 DEF View
  <2> QED BY <2>3 DEF y
<1>5. KeptIn(View(f, b)) \subseteq KeptIn(View(f, c))
  <2>1. Ids(c) = Ids(b) \cup {l.id}
    BY IdsOfAppended
  <2>2. KeptIn(View(f, b)) = (UNION {Ids(f[i]) : i \in Backup}) \cup Ids(b)
    BY ViewIs
  <2>3. KeptIn(View(f, c)) = (UNION {Ids(f[i]) : i \in Backup}) \cup Ids(c)
    BY <1>2, ViewIs
  <2> HIDE DEF c
  <2> DEFINE U == UNION {Ids(f[i]) : i \in Backup}
  <2> HIDE DEF U
  <2>4. KeptIn(View(f, b)) = U \cup Ids(b) /\ KeptIn(View(f, c)) = U \cup Ids(c)
    BY <2>2, <2>3 DEF U
  <2> QED BY <2>1, <2>4
<1> QED BY <1>2, <1>3, <1>4, <1>5

LEMMA LogFlushFailsOk == ASSUME LogInv, NEW n \in Nat, LogFlushFails(n) PROVE LogInv' /\ DropsOnlyOldest
<1> DEFINE g == Files
           p == Prefix(buffer, n)
           k == Len(logFile[0]) + n
           h == View(logFile, p)
<1>1. /\ logFile' = [logFile EXCEPT ![0] = @ \o p] /\ buffer' = <<>> /\ broken' /\ ~broken /\ n < Len(buffer)
      /\ broken' = TRUE /\ lost' = lost \cup Ids(SubSeq(buffer, n + 1, Len(buffer)))
      /\ UNCHANGED <<exists, open, size, lines, botched>>
  BY DEF LogFlushFails, Prefix
<1>2. FileTypes /\ logFile \in [Backup -> Seq(Record)] /\ buffer \in Seq(Record) /\ Len(buffer) \in Nat
  BY DEF LogInv, FileTypes
<1>3. n \in 0 .. Len(buffer)
  BY <1>1, <1>2
<1>4. p \in Seq(Record) /\ k \in 0 .. Len(g[0]) /\ h = [g EXCEPT ![0] = Prefix(g[0], k)]
  BY <1>2, <1>3, CutIs DEF Files
<1>5. open
  <2>1. ~open => Len(buffer) = 0
    BY DEF LogInv, FileTypes
  <2> QED BY <1>1, <1>3, <2>1
<1>6. logFile' = h
  <2>1. \A i \in Backup : h[i] = IF i = 0 THEN logFile[0] \o p ELSE logFile[i]
    BY DEF View
  <2>2. DOMAIN h = Backup /\ h = [i \in Backup |-> h[i]]
    BY DEF View
  <2> HIDE DEF h, p
  <2> QED BY <1>1, <1>2, <2>1, <2>2
<1>7. h \in [Backup -> Seq(Record)] /\ InOrder(h, lines) /\ (AllSmall(g) => AllSmall(h))
  <2>1. InOrder(g, lines) /\ lines \in Nat
    BY <1>2 DEF LogInv, FileTypes
  <2> HIDE DEF g, k, h
  <2>2. InOrder(h, lines) /\ (AllSmall(g) => AllSmall(h))
    BY <1>4, <2>1, OrderCut
  <2> QED BY <2>2 DEF InOrder
<1>8. Files' = h
  <2>1. <<>> \in Seq(Record)
    OBVIOUS
  <2> HIDE DEF h
  <2>2. View(h, <<>>) = h
    BY <1>7, <2>1, ViewIs
  <2> QED BY <1>1, <1>6, <2>2 DEF Files
<1>9. Length(h[0]) <= size
  <2>1. g[0] \in Seq(Record) /\ Length(g[0]) <= size /\ size \in Nat
    BY <1>2, <1>5, BackupIs DEF LogInv, InOrder, FileTypes
  <2>2. g \in [Backup -> Seq(Record)]
    BY DEF LogInv, InOrder
  <2> HIDE DEF g, k, h
  <2>3. h[0] = Prefix(g[0], k)
    BY <1>4, <2>2, BackupIs
  <2>4. Length(h[0]) <= Length(g[0]) /\ Length(g[0]) \in Nat
    BY <1>4, <2>1, <2>3, LengthOfPrefix, LengthIs
  <2>5. h[0] \in Seq(Record)
    BY <1>7, BackupIs
  <2>6. Length(h[0]) \in Nat
    BY <2>5, LengthIs
  <2> QED BY <2>1, <2>4, <2>6
<1>10. FileTypes'
  <2>1. \A i \in Backup : i # 0 => h[i] = logFile[i]
    BY DEF View
  <2>2. <<>> \in Seq(Record)
    OBVIOUS
  <2> HIDE DEF h
  <2> QED BY <1>1, <1>2, <1>5, <1>6, <1>7, <2>1, <2>2 DEF FileTypes
<1>11. KeptIn(g) \ KeptIn(h) \subseteq lost'
  <2> DEFINE U == UNION {Ids(logFile[i]) : i \in Backup}
             q == SubSeq(buffer, n + 1, Len(buffer))
  <2>1. KeptIn(g) = U \cup Ids(buffer)
    BY <1>2, ViewIs DEF Files
  <2>2. KeptIn(h) = U \cup Ids(p)
    BY <1>2, <1>4, ViewIs
  <2>3. buffer = p \o q /\ q \in Seq(Record)
    BY <1>2, <1>3, SplitAt DEF Prefix
  <2> HIDE DEF U, q, p, g, h
  <2>4. Ids(buffer) = Ids(p) \cup Ids(q)
    BY <1>4, <2>3, IdsOfBoth
  <2> QED BY <1>1, <2>1, <2>2, <2>4 DEF q
<1>12. InOrder(h, lines') /\ (open' => Length(h[0]) <= size') /\ (~botched' => AllSmall(h))
  BY <1>1, <1>7, <1>9 DEF LogInv
<1> HIDE DEF h, p, k
<1> QED BY <1>8, <1>10, <1>11, <1>12, LogStepOk

LEMMA ExitOk == ASSUME LogInv, Exit PROVE LogInv' /\ DropsOnlyOldest
<1> DEFINE g == Files
           h == logFile
           k == Len(logFile[0])
<1>1. /\ lost' = lost \cup Ids(buffer) /\ buffer' = <<>> /\ broken' = FALSE /\ open' = TRUE /\ size' = Length(logFile[0])
      /\ UNCHANGED <<logFile, exists, lines, botched>>
  BY DEF Exit, Opened
<1>2. FileTypes /\ logFile \in [Backup -> Seq(Record)] /\ buffer \in Seq(Record) /\ Len(buffer) \in Nat /\ k \in Nat /\ logFile[0] \in Seq(Record)
  <2>1. FileTypes /\ logFile \in [Backup -> Seq(Record)] /\ buffer \in Seq(Record)
    BY DEF LogInv, FileTypes
  <2>2. logFile[0] \in Seq(Record)
    BY <2>1, BackupIs
  <2> QED BY <2>1, <2>2
<1>3. Prefix(buffer, 0) = <<>> /\ 0 \in 0 .. Len(buffer)
  BY <1>2 DEF Prefix
<1>4. View(logFile, <<>>) = logFile
  <2>1. <<>> \in Seq(Record)
    OBVIOUS
  <2> QED BY <1>2, <2>1, ViewIs
<1>5. k \in 0 .. Len(g[0]) /\ h = [g EXCEPT ![0] = Prefix(g[0], k)]
  <2>1. k + 0 = k
    BY <1>2
  <2> QED BY <1>2, <1>3, <1>4, <2>1, CutIs DEF Files
<1>6. InOrder(h, lines) /\ (AllSmall(g) => AllSmall(h))
  <2>1. InOrder(g, lines) /\ lines \in Nat
    BY <1>2 DEF LogInv, FileTypes
  <2> HIDE DEF g, k, h
  <2> QED BY <1>5, <2>1, OrderCut
<1>7. Files' = h
  BY <1>1, <1>4 DEF Files
<1>8. Length(h[0]) \in Nat
  BY <1>2, LengthIs
<1>9. FileTypes'
  <2>1. <<>> \in Seq(Record)
    OBVIOUS
  <2> QED BY <1>1, <1>2, <1>8, <2>1 DEF FileTypes
<1>10. KeptIn(g) \ KeptIn(h) \subseteq lost'
  <2> DEFINE U == UNION {Ids(logFile[i]) : i \in Backup}
  <2>1. KeptIn(g) = U \cup Ids(buffer)
    BY <1>2, ViewIs DEF Files
  <2>2. KeptIn(h) = U
    BY DEF KeptIn
  <2> HIDE DEF U, g, h
  <2> QED BY <1>1, <2>1, <2>2
<1>11. InOrder(h, lines') /\ (open' => Length(h[0]) <= size') /\ (~botched' => AllSmall(h))
  BY <1>1, <1>6, <1>8 DEF LogInv
<1>12. botched' \/ KeptIn(g) \ KeptIn(h) \subseteq Ids(g[MaxBackups]) \cup lost'
  BY <1>10
<1> HIDE DEF k
<1> QED BY <1>7, <1>9, <1>11, <1>12, LogStepOk

LEMMA TypesFrom ==
    ASSUME logFile' \in [Backup -> Seq(Record)], buffer' \in Seq(Record),
           exists' \subseteq 1 .. MaxBackups, \A i \in Backup : i # 0 /\ i \notin exists' => logFile'[i] = <<>>,
           size' \in Nat, lines' \in Nat, broken' = FALSE, open' \in BOOLEAN, botched' \in BOOLEAN,
           open' = FALSE => buffer' = <<>>
    PROVE  FileTypes'
<1>1. broken' \in BOOLEAN /\ (broken' => buffer' = <<>>) /\ (~open' => buffer' = <<>> /\ ~broken')
  BY Zenon
<1> QED BY <1>1, Zenon DEF FileTypes

LEMMA LineOk ==
    ASSUME LogInv, NEW len \in LineSize
    PROVE  Line(len) \in Record /\ Line(len).id = lines + 1 /\ Line(len).len = len /\ len \in Nat /\ lines \in Nat
<1>1. len \in Nat /\ lines \in Nat
  BY LogRotationAssumption DEF LogInv, FileTypes
<1> QED BY <1>1 DEF Line, Record

\* A line that fits is appended to the view, or refused.
LEMMA WriteLineOk == ASSUME LogInv, NEW len \in LineSize, WriteLine(len) PROVE LogInv' /\ DropsOnlyOldest
<1> DEFINE g == Files
           l == Line(len)
<1>1. /\ lines' = lines + 1 /\ SizeNow + len <= MaxSizeBytes /\ open' = TRUE
      /\ UNCHANGED <<logFile, exists, lost, botched>>
  BY DEF WriteLine, Call, Fits
<1>2. FileTypes /\ logFile \in [Backup -> Seq(Record)] /\ buffer \in Seq(Record) /\ size \in Nat
  BY DEF LogInv, FileTypes
<1>3. l \in Record /\ l.id = lines + 1 /\ l.len = len /\ len \in Nat /\ lines \in Nat
  BY LineOk
<1>4. InOrder(g, lines) /\ (open => Length(g[0]) <= size) /\ (~botched => AllSmall(g))
  BY DEF LogInv
<1>5. CASE open /\ broken
  <2>1. UNCHANGED <<buffer, broken, size>>
    BY <1>5 DEF WriteLine
  <2>2. Files' = g
    BY <1>1, <2>1 DEF Files
  <2>3. FileTypes'
    BY <1>1, <1>2, <1>3, <1>5, <2>1 DEF FileTypes
  <2> HIDE DEF g
  <2>4. InOrder(g, lines + 1)
    BY <1>3, <1>4, OrderLater
  <2>5. InOrder(g, lines') /\ (open' => Length(g[0]) <= size') /\ (~botched' => AllSmall(g))
    BY <1>1, <1>4, <1>5, <2>1, <2>4
  <2>6. botched' \/ KeptIn(g) \ KeptIn(g) \subseteq Ids(g[MaxBackups]) \cup lost'
    OBVIOUS
  <2> QED BY <2>2, <2>3, <2>5, <2>6, LogStepOk DEF g
<1>6. CASE ~(open /\ broken)
  <2> DEFINE h == View(logFile, Append(buffer, l))
  <2>1. buffer' = Append(buffer, l) /\ size' = SizeNow + len /\ broken' = FALSE
    BY <1>6 DEF WriteLine
  <2>2. /\ Append(buffer, l) \in Seq(Record) /\ h = [g EXCEPT ![0] = Append(g[0], l)] /\ h[0] = Append(g[0], l)
        /\ g[0] \in Seq(Record) /\ KeptIn(g) \subseteq KeptIn(h)
    BY <1>2, <1>3, MoreIs DEF Files
  <2>3. Files' = h
    BY <1>1, <2>1 DEF Files
  <2>4. Length(g[0]) <= SizeNow /\ SizeNow \in Nat
    <3>1. CASE open
      BY <1>2, <1>4, <3>1 DEF SizeNow
    <3>2. CASE ~open
      <4>1. buffer = <<>>
        BY <1>2, <3>2 DEF FileTypes
      <4>2. g = logFile
        BY <1>2, <4>1, ViewIs DEF Files
      <4>3. Length(g[0]) \in Nat
        BY <2>2, LengthIs
      <4>4. SizeNow = Length(g[0])
        BY <3>2, <4>2 DEF SizeNow, Opened
      <4> QED BY <4>3, <4>4
    <3> QED BY <3>1, <3>2
  <2>5. FileTypes'
    <3>1. logFile' \in [Backup -> Seq(Record)] /\ buffer' \in Seq(Record) /\ open' \in BOOLEAN /\ (open' = FALSE => buffer' = <<>>)
      BY <1>1, <1>2, <2>1, <2>2
    <3>2. exists' \subseteq 1 .. MaxBackups /\ \A i \in Backup : i # 0 /\ i \notin exists' => logFile'[i] = <<>>
      BY <1>1, <1>2 DEF FileTypes
    <3>3. size' \in Nat /\ lines' \in Nat /\ broken' = FALSE
      BY <1>1, <1>3, <2>1, <2>4
    <3>4. botched' \in BOOLEAN
      BY <1>1, <1>2 DEF FileTypes
    <3> QED BY <3>1, <3>2, <3>3, <3>4, TypesFrom
  <2> HIDE DEF g, h, l
  <2>6. Length(h[0]) = Length(g[0]) + len /\ Length(g[0]) \in Nat
    BY <1>3, <2>2, LengthAppended, LengthIs
  <2>7. Length(h[0]) <= SizeNow + len /\ Length(h[0]) <= MaxSizeBytes
    BY <1>1, <1>3, <2>4, <2>6, BackupIs
  <2>8. InOrder(h, lines + 1)
    <3>1. InOrder([g EXCEPT ![0] = Append(g[0], l)], lines + 1)
      BY <1>3, <1>4, OrderAppended
    <3> QED BY <2>2, <3>1
  <2>9. AllSmall(g) => AllSmall(h)
    <3>1. \A i \in Backup : i # 0 => h[i] = g[i]
      BY <1>4, <2>2 DEF InOrder
    <3>2. Small(h[0])
      BY <2>7 DEF Small
    <3> QED BY <3>1, <3>2 DEF AllSmall
  <2>10. InOrder(h, lines') /\ (open' => Length(h[0]) <= size') /\ (~botched' => AllSmall(h))
    BY <1>1, <1>4, <2>1, <2>7, <2>8, <2>9
  <2>11. botched' \/ KeptIn(g) \ KeptIn(h) \subseteq Ids(g[MaxBackups]) \cup lost'
    BY <2>2
  <2> QED BY <2>3, <2>5, <2>10, <2>11, LogStepOk DEF g
<1> QED BY <1>5, <1>6

\* What a rotation makes of the files, f, before anything is written to them.
RotationOk(f, failing) ==
    /\ f \in [Backup -> Seq(Record)] /\ InOrder(f, lines) /\ (AllSmall(Files) => AllSmall(f))
    /\ exists' \subseteq 1 .. MaxBackups /\ \A i \in Backup : i # 0 /\ i \notin exists' => f[i] = <<>>
    /\ broken' = FALSE /\ botched' = (botched \/ failing # {})
    /\ failing = {} => f[0] = <<>> /\ KeptIn(Files) \ KeptIn(f) \subseteq Ids(Files[MaxBackups])
LEMMA RotateOk ==
    ASSUME LogInv, NEW failing, RotateLocked(failing)
    PROVE  RotationOk(logFile', failing)
<1> DEFINE g == Files
           M == (exists \cup {0}) \ (failing \cup {MaxBackups})
           h == Shifted(g, M)
           ex == (exists \ M) \cup {i + 1 : i \in M}
<1>1. /\ logFile' = Rotated(M) /\ exists' = ex /\ broken' = FALSE /\ botched' = (botched \/ failing # {})
  BY DEF RotateLocked
<1>2. FileTypes /\ InOrder(g, lines) /\ lines \in Nat /\ exists \subseteq 1 .. MaxBackups
  BY DEF LogInv, FileTypes
<1>3. M \subseteq 0 .. MaxBackups - 1
  <2> SUFFICES ASSUME NEW x \in M PROVE x \in 0 .. MaxBackups - 1
    OBVIOUS
  <2>1. (x \in exists \/ x = 0) /\ x # MaxBackups
    OBVIOUS
  <2> HIDE DEF M
  <2>2. x \in 0 .. MaxBackups
    <3>1. x = 0 \/ x \in 1 .. MaxBackups
      BY <1>2, <2>1
    <3> QED BY <3>1, BackupIs
  <2> QED BY <2>1, <2>2, BackupIs
<1>4. logFile' = h
  <2>1. [logFile EXCEPT ![0] = Flushed] = g
    BY FlushedIs
  <2> HIDE DEF M, g
  <2>2. Rotated(M) = Shifted(g, M)
    <3>1. Rotated(M) = [j \in Backup |-> IF j - 1 \in M THEN [logFile EXCEPT ![0] = Flushed][j - 1]
                                        ELSE IF j \in M THEN <<>> ELSE [logFile EXCEPT ![0] = Flushed][j]]
      BY DEF Rotated
    <3>2. Shifted(g, M) = [j \in Backup |-> IF j - 1 \in M THEN g[j - 1] ELSE IF j \in M THEN <<>> ELSE g[j]]
      BY DEF Shifted
    <3> DEFINE o == [logFile EXCEPT ![0] = Flushed]
    <3> HIDE DEF o
    <3>3. Rotated(M) = [j \in Backup |-> IF j - 1 \in M THEN o[j - 1] ELSE IF j \in M THEN <<>> ELSE o[j]]
      BY <3>1 DEF o
    <3>4. o = g
      BY <2>1 DEF o
    <3> QED BY <3>2, <3>3, <3>4
  <2> QED BY <1>1, <2>2
<1>5. \A i \in Backup : i # 0 /\ i \notin exists => g[i] = <<>>
  <2>1. \A i \in Backup : i # 0 => g[i] = logFile[i]
    BY DEF Files, View
  <2> QED BY <1>2, <2>1 DEF FileTypes
<1>6. \A j \in Backup : h[j] = IF j - 1 \in M THEN g[j - 1] ELSE IF j \in M THEN <<>> ELSE g[j]
  BY DEF Shifted
<1> HIDE DEF h, g
<1>7. InOrder(h, lines) /\ (AllSmall(g) => AllSmall(h))
  <2> HIDE DEF M
  <2>1. InOrder(Shifted(g, M), lines) /\ (AllSmall(g) => AllSmall(Shifted(g, M)))
    BY <1>2, <1>3, OrderShifted
  <2> QED BY <2>1 DEF h
<1>8. h \in [Backup -> Seq(Record)]
  BY <1>7 DEF InOrder
<1>9. ex \subseteq 1 .. MaxBackups
  <2>1. \A i \in M : i + 1 \in 1 .. MaxBackups
    BY <1>3, BackupIs
  <2> QED BY <1>2, <2>1
<1>10. ASSUME NEW i \in Backup, i # 0, i \notin ex PROVE h[i] = <<>>
  <2>1. i - 1 \notin M
    <3>1. i = (i - 1) + 1
      BY DEF Backup
    <3> QED BY <1>10, <3>1
  <2>2. i \in M \/ i \notin exists
    BY <1>10
  <2> QED BY <1>5, <1>6, <1>10, <2>1, <2>2
<1>11. ASSUME failing = {} PROVE h[0] = <<>> /\ KeptIn(g) \ KeptIn(h) \subseteq Ids(g[MaxBackups])
  <2>1. M = (exists \cup {0}) \ {MaxBackups}
    BY <1>11
  <2>2. 0 \in M /\ 0 - 1 \notin M
    BY <1>3, <2>1, BackupIs
  <2>3. h[0] = <<>>
    BY <1>6, <2>2, BackupIs
  <2>4. ASSUME NEW i \in Backup, i # MaxBackups, NEW e \in Ids(g[i]) PROVE \E j \in Backup : e \in Ids(h[j])
    <3>1. CASE i \in M
      <4> DEFINE j == i + 1
      <4>1. j \in Backup /\ j - 1 = i
        BY <2>4, BackupIs DEF Backup
      <4> HIDE DEF j
      <4>2. h[j] = g[i]
        BY <1>6, <3>1, <4>1
      <4> QED BY <2>4, <4>1, <4>2
    <3>2. CASE i \notin M
      <4>1. i # 0 /\ i \notin exists
        BY <2>1, <2>4, <3>2, BackupIs
      <4>2. Ids(g[i]) = {}
        BY <1>5, <4>1, IdsOfNone
      <4> QED BY <2>4, <4>2
    <3> QED BY <3>1, <3>2
  <2>5. ASSUME NEW e \in KeptIn(g), e \notin KeptIn(h) PROVE e \in Ids(g[MaxBackups])
    <3>1. \E i \in Backup : e \in Ids(g[i])
      BY <2>5, InUnion DEF KeptIn
    <3>2. ~\E j \in Backup : e \in Ids(h[j])
      BY <2>5, InUnion DEF KeptIn
    <3> QED BY <2>4, <3>1, <3>2
  <2> QED BY <2>3, <2>5
<1> HIDE DEF ex, M
<1>12. RotationOk(h, failing)
  BY <1>1, <1>7, <1>8, <1>9, <1>10, <1>11 DEF RotationOk, g
<1> QED BY <1>4, <1>12

LEMMA WriteLineRotatesOk ==
    ASSUME LogInv, NEW len \in LineSize, NEW failing, WriteLineRotates(len, failing)
    PROVE  LogInv' /\ DropsOnlyOldest
<1> DEFINE g == Files
           l == Line(len)
           f == logFile'
           h == View(f, <<l>>)
<1>1. /\ lines' = lines + 1 /\ RotateLocked(failing) /\ open' = TRUE /\ buffer' = <<l>>
      /\ size' = Length(f[0]) + len /\ lost' = lost
  BY DEF WriteLineRotates, Call, Opened, RotateLocked
<1>2. RotationOk(f, failing)
  BY <1>1, RotateOk
<1>3. l \in Record /\ l.id = lines + 1 /\ l.len = len /\ len \in Nat /\ lines \in Nat
  BY LineOk
<1>4. Files' = h
  BY <1>1 DEF Files
<1> HIDE DEF f, g, l
<1>5. f \in [Backup -> Seq(Record)] /\ f[0] \in Seq(Record)
  BY <1>2, BackupIs DEF RotationOk
<1>6. <<>> \in Seq(Record) /\ Append(<<>>, l) = <<l>>
  BY <1>3
<1>7. View(f, <<>>) = f
  BY <1>5, <1>6, ViewIs
<1>8. <<l>> \in Seq(Record) /\ h = [f EXCEPT ![0] = Append(f[0], l)] /\ h[0] = Append(f[0], l) /\ KeptIn(f) \subseteq KeptIn(h)
  <2>1. /\ Append(<<>>, l) \in Seq(Record)
        /\ View(f, Append(<<>>, l)) = [View(f, <<>>) EXCEPT ![0] = Append(View(f, <<>>)[0], l)]
        /\ View(f, Append(<<>>, l))[0] = Append(View(f, <<>>)[0], l)
        /\ KeptIn(View(f, <<>>)) \subseteq KeptIn(View(f, Append(<<>>, l)))
    BY <1>3, <1>5, <1>6, MoreIs
  <2> QED BY <1>6, <1>7, <2>1
<1> HIDE DEF h
<1>9. Length(h[0]) = Length(f[0]) + len /\ Length(f[0]) \in Nat
  BY <1>3, <1>5, <1>8, LengthAppended, LengthIs
<1>10. InOrder(h, lines + 1)
  <2>1. InOrder([f EXCEPT ![0] = Append(f[0], l)], lines + 1)
    BY <1>2, <1>3, OrderAppended DEF RotationOk
  <2> QED BY <1>8, <2>1
<1>11. ASSUME ~botched' PROVE AllSmall(h)
  <2>1. failing = {} /\ ~botched
    BY <1>2, <1>11, Zenon DEF RotationOk
  <2>2. AllSmall(f) /\ f[0] = <<>>
    BY <1>2, <2>1 DEF RotationOk, LogInv
  <2>3. Len(h[0]) = 1
    BY <1>6, <1>8, <2>2
  <2>4. \A i \in Backup : i # 0 => h[i] = f[i]
    BY <1>5, <1>8
  <2> QED BY <2>2, <2>3, <2>4 DEF AllSmall, Small
<1>12. botched' \/ KeptIn(g) \ KeptIn(h) \subseteq Ids(g[MaxBackups]) \cup lost'
  <2>1. CASE failing = {}
    BY <1>2, <1>8, <2>1 DEF RotationOk, g
  <2>2. CASE failing # {}
    BY <1>2, <2>2, Zenon DEF RotationOk
  <2> QED BY <2>1, <2>2
<1>13. FileTypes'
  <2>1. logFile' \in [Backup -> Seq(Record)] /\ buffer' \in Seq(Record) /\ size' \in Nat /\ lines' \in Nat
    BY <1>1, <1>3, <1>5, <1>8, <1>9 DEF f
  <2>2. exists' \subseteq 1 .. MaxBackups /\ \A i \in Backup : i # 0 /\ i \notin exists' => logFile'[i] = <<>>
    BY <1>2 DEF f, RotationOk
  <2>3. broken' = FALSE /\ open' = TRUE
    BY <1>1, <1>2 DEF RotationOk
  <2>4. botched' \in BOOLEAN
    BY <1>2, Zenon DEF RotationOk, LogInv, FileTypes
  <2> QED BY <2>1, <2>2, <2>3, <2>4 DEF FileTypes
<1>14. InOrder(h, lines') /\ (open' => Length(h[0]) <= size') /\ (~botched' => AllSmall(h))
  <2>1. Length(h[0]) <= size'
    BY <1>1, <1>3, <1>9
  <2> QED BY <1>1, <1>10, <1>11, <2>1
<1> QED BY <1>4, <1>12, <1>13, <1>14, LogStepOk DEF g

LEMMA OpenFailsOk == ASSUME LogInv, NEW len \in LineSize, OpenFails(len) PROVE LogInv' /\ DropsOnlyOldest
<1> DEFINE g == Files
<1>1. lines' = lines + 1 /\ open' = FALSE /\ buffer' = <<>> /\ size' = 0 /\ lines \in Nat
  BY DEF OpenFails, Call, LogInv, FileTypes
<1>2. <<>> \in Seq(Record)
  OBVIOUS
<1>3. CASE ~open /\ UNCHANGED <<logFile, exists, broken, lost, botched>>
  <2>1. FileTypes /\ InOrder(g, lines) /\ (~botched => AllSmall(g))
    BY DEF LogInv
  <2>2. buffer = <<>> /\ ~broken
    BY <1>3, <2>1 DEF FileTypes
  <2>3. Files' = g
    BY <1>1, <1>3, <2>2 DEF Files
  <2>4. FileTypes'
    <3>1. logFile' \in [Backup -> Seq(Record)] /\ buffer' \in Seq(Record) /\ open' = FALSE
      BY <1>1, <1>2, <1>3, <2>1 DEF FileTypes
    <3>2. exists' \subseteq 1 .. MaxBackups /\ \A i \in Backup : i # 0 /\ i \notin exists' => logFile'[i] = <<>>
      BY <1>3, <2>1 DEF FileTypes
    <3>3. size' \in Nat /\ lines' \in Nat
      BY <1>1
    <3>4. broken' = FALSE
      BY <1>3, <2>1, <2>2, Zenon DEF FileTypes
    <3>5. botched' \in BOOLEAN
      BY <1>3, <2>1 DEF FileTypes
    <3> QED BY <1>1, <3>1, <3>2, <3>3, <3>4, <3>5, TypesFrom
  <2> HIDE DEF g
  <2>5. InOrder(g, lines + 1)
    BY <1>1, <2>1, OrderLater
  <2>6. InOrder(g, lines') /\ (open' => Length(g[0]) <= size') /\ (~botched' => AllSmall(g))
    BY <1>1, <1>3, <2>1, <2>5
  <2>7. botched' \/ KeptIn(g) \ KeptIn(g) \subseteq Ids(g[MaxBackups]) \cup lost'
    OBVIOUS
  <2> QED BY <2>3, <2>4, <2>6, <2>7, LogStepOk DEF g
<1>4. CASE RotateLocked({})
  <2> DEFINE f == logFile'
  <2>1. RotationOk(f, {})
    BY <1>4, RotateOk
  <2>2. f \in [Backup -> Seq(Record)]
    BY <2>1 DEF RotationOk
  <2>3. Files' = f
    <3>1. View(f, <<>>) = f
      BY <1>2, <2>2, ViewIs
    <3> QED BY <1>1, <3>1 DEF Files
  <2>4. FileTypes'
    <3>1. exists' \subseteq 1 .. MaxBackups /\ \A i \in Backup : i # 0 /\ i \notin exists' => logFile'[i] = <<>>
      BY <2>1 DEF RotationOk
    <3>2. broken' = FALSE
      BY <2>1 DEF RotationOk
    <3>3. botched' \in BOOLEAN
      BY <2>1, Zenon DEF RotationOk, LogInv, FileTypes
    <3>4. size' \in Nat /\ lines' \in Nat /\ open' \in BOOLEAN /\ buffer' \in Seq(Record)
      <4>1. lines + 1 \in Nat
        BY <1>1
      <4> QED BY <1>1, <1>2, <4>1
    <3> QED BY <1>1, <2>2, <3>1, <3>2, <3>3, <3>4, TypesFrom
  <2> HIDE DEF f, g
  <2>5. InOrder(f, lines + 1)
    BY <1>1, <2>1, OrderLater DEF RotationOk
  <2>6. ~botched' => AllSmall(f)
    <3>1. ~botched' => ~botched
      BY <2>1, Zenon DEF RotationOk
    <3> QED BY <2>1, <3>1 DEF RotationOk, LogInv
  <2>7. InOrder(f, lines') /\ (open' => Length(f[0]) <= size') /\ (~botched' => AllSmall(f))
    BY <1>1, <2>5, <2>6
  <2>8. botched' \/ KeptIn(g) \ KeptIn(f) \subseteq Ids(g[MaxBackups]) \cup lost'
    BY <2>1 DEF RotationOk, g
  <2> QED BY <2>3, <2>4, <2>7, <2>8, LogStepOk DEF g
<1> QED BY <1>3, <1>4 DEF OpenFails

LEMMA LogNextOk == ASSUME LogInv, LogRotationNext PROVE LogInv' /\ DropsOnlyOldest
<1>1. CASE FlushLog
  BY <1>1, FlushLogOk
<1>2. CASE \E n \in 0 .. MaxLines : LogFlushFails(n)
  BY <1>2, LogFlushFailsOk
<1>3. CASE \E len \in LineSize : WriteLine(len)
  BY <1>3, WriteLineOk
<1>4. CASE \E len \in LineSize : OpenFails(len)
  BY <1>4, OpenFailsOk
<1>5. CASE \E len \in LineSize : \E failing \in SUBSET ({0} \cup (exists \ {MaxBackups})) : WriteLineRotates(len, failing)
  BY <1>5, WriteLineRotatesOk
<1>6. CASE Exit
  BY <1>6, ExitOk
<1> QED BY <1>1, <1>2, <1>3, <1>4, <1>5, <1>6 DEF LogRotationNext

LEMMA LogStutterOk == ASSUME LogInv, UNCHANGED LogRotationVars PROVE LogInv'
<1>1. /\ logFile' = logFile /\ exists' = exists /\ buffer' = buffer /\ broken' = broken /\ open' = open
      /\ size' = size /\ lines' = lines /\ botched' = botched
  BY DEF LogRotationVars
<1>2. Files' = Files
  BY <1>1 DEF Files
<1>3. FileTypes'
  BY <1>1 DEF LogInv, FileTypes
<1> DEFINE g == Files
<1>4. InOrder(g, lines) /\ (open => Length(g[0]) <= size) /\ (~botched => AllSmall(g))
  BY DEF LogInv
<1> QED BY <1>1, <1>2, <1>3, <1>4 DEF LogInv

\* What the invariant says of the files as they are.
LEMMA LogInvSays == LogInv => LogFilesOrdered /\ LogFileBounded
<1> SUFFICES ASSUME LogInv PROVE LogFilesOrdered /\ LogFileBounded
  OBVIOUS
<1> DEFINE g == Files
           h == logFile
           k == Len(logFile[0])
<1>1. logFile \in [Backup -> Seq(Record)] /\ buffer \in Seq(Record) /\ logFile[0] \in Seq(Record) /\ k \in Nat /\ lines \in Nat
  <2>1. logFile \in [Backup -> Seq(Record)] /\ buffer \in Seq(Record) /\ lines \in Nat
    BY DEF LogInv, FileTypes
  <2>2. logFile[0] \in Seq(Record)
    BY <2>1, BackupIs
  <2> QED BY <2>1, <2>2
<1>2. InOrder(g, lines) /\ (~botched => AllSmall(g))
  BY DEF LogInv
<1>3. g[0] = logFile[0] \o buffer /\ \A i \in Backup : i # 0 => g[i] = logFile[i]
  BY <1>1, ViewIs DEF Files
<1>4. ASSUME NEW i \in Backup PROVE Rising(IF i = 0 THEN logFile[0] \o buffer ELSE logFile[i])
  <2>1. Rising(g[i])
    BY <1>2 DEF InOrder
  <2> HIDE DEF g
  <2> QED BY <1>3, <2>1
<1>5. \A i \in Backup : Ids(logFile[i]) \subseteq Ids(g[i])
  <2>1. Ids(g[0]) = Ids(logFile[0]) \cup Ids(buffer)
    BY <1>1, <1>3, IdsOfBoth
  <2> HIDE DEF g
  <2> QED BY <1>3, <2>1
<1>6. ASSUME NEW i \in Backup, NEW j \in Backup, j < i, NEW old \in Ids(logFile[i]), NEW new \in Ids(logFile[j])
      PROVE  old < new
  <2>1. Before(g[i], g[j])
    BY <1>2, <1>6 DEF InOrder
  <2> HIDE DEF g
  <2> QED BY <1>5, <1>6, <2>1 DEF Before
<1>7. LogFilesOrdered
  BY <1>4, <1>6 DEF LogFilesOrdered, Rising
<1>8. View(logFile, <<>>) = logFile /\ Prefix(buffer, 0) = <<>> /\ 0 \in 0 .. Len(buffer) /\ k + 0 = k
  <2>1. <<>> \in Seq(Record)
    OBVIOUS
  <2>2. View(logFile, <<>>) = logFile
    BY <1>1, <2>1, ViewIs
  <2> QED BY <1>1, <2>2 DEF Prefix
<1>9. k \in 0 .. Len(g[0]) /\ h = [g EXCEPT ![0] = Prefix(g[0], k)]
  BY <1>1, <1>8, CutIs DEF Files
<1>10. AllSmall(g) => AllSmall(h)
  <2> HIDE DEF g, k, h
  <2> QED BY <1>1, <1>2, <1>9, OrderCut
<1>11. LogFileBounded
  BY <1>2, <1>10 DEF LogFileBounded, AllSmall, Small
<1> QED BY <1>7, <1>11

\* Whatever flushes, rotations, failed openings, failed renames and new
\* processes come, in whatever order, the lines of the log are in the order of
\* the calls of Write from the last backup to the buffer, each once; no file
\* passes MaxSizeBytes but by one line alone, until a rename fails; and only the
\* last backup, a failed flush, the end of the process and a failed rename take
\* lines that were kept: for every size of lines and number of backups.
THEOREM LogKept == LogRotationSpec => LogSound
<1>1. LogRotationInit => LogInv
  BY LogInitOk
<1>2. LogInv /\ [LogRotationNext]_LogRotationVars
      => LogInv' /\ [LogFilesOrdered' /\ LogFileBounded' /\ DropsOnlyOldest]_LogRotationVars
  <2> SUFFICES ASSUME LogInv, [LogRotationNext]_LogRotationVars
               PROVE  LogInv' /\ [LogFilesOrdered' /\ LogFileBounded' /\ DropsOnlyOldest]_LogRotationVars
    OBVIOUS
  <2>1. CASE LogRotationNext
    <3>1. LogInv' /\ DropsOnlyOldest
      BY <2>1, LogNextOk
    <3>2. (LogInv => LogFilesOrdered /\ LogFileBounded)'
      BY LogInvSays, PTL
    <3> QED BY <3>1, <3>2
  <2>2. CASE UNCHANGED LogRotationVars
    BY <2>2, LogStutterOk
  <2> QED BY <2>1, <2>2
<1> QED BY <1>1, <1>2, PTL DEF LogRotationSpec, LogSound
=============================================================================

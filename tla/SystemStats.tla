---------------------------- MODULE SystemStats ----------------------------
(***************************************************************************)
(* The gateway's own measurements, collector/system_stats.go: the loop     *)
(* that collects them, started and stopped by the application, and the     *)
(* requests of the PandaX adapter that share its last result.              *)
(*                                                                         *)
(* The CPU usage is computed from two readings of /proc/stat (external), a *)
(* tenth of a second apart; the counters are unsigned and may wrap around, *)
(* and the kernel lets some of them go backwards.  Usages are whole        *)
(* percents here.  Memory, disk, uptime and load are left out.             *)
(***************************************************************************)
EXTENDS Integers, Sequences, SequencesExt

CONSTANTS
    Word,        \* counters and their sums are modulo Word: 2^64 in the code
    Counters0,   \* what the counters may be at the beginning
    Steps,       \* how the counters may move between two readings
    StatsRequest,
    MaxStarts, MaxCollects   \* bounds

ASSUME SystemStatsAssumption ==
    /\ Word \in Nat \ {0} /\ {MaxStarts, MaxCollects} \subseteq Nat
    /\ Counters0 \subseteq Seq(0 .. Word - 1) /\ Steps \subseteq Seq(Int)
    /\ \A line \in Counters0, step \in Steps : Len(line) <= Len(step)
    /\ StatsRequest \cap (1 .. MaxStarts) = {}

VARIABLES
    statsRunning,  \* running
    stopChan,      \* the channel of the last Start, by its number
    stopped,       \* the channels that are closed
    statsCaller,   \* "idle", or "wait" for the loop in Stop
    counters,      \* the first line of /proc/stat
    worker,        \* what each loop and each request is at
    lastStats,     \* lastStats: its usage, NoStats for nil
    collects,
    measured       \* the last two readings, and the usage they gave

SystemStatsVars ==
    <<statsRunning, stopChan, stopped, statsCaller, counters, worker, lastStats, collects, measured>>

Loop == 1 .. MaxStarts
Measurer == Loop \cup StatsRequest
NoStats == -1
Unreadable == <<>>

SystemStatsInit ==
    /\ statsRunning = FALSE /\ stopChan = 0 /\ stopped = {} /\ statsCaller = "idle"
    /\ counters \in Counters0
    /\ worker = [m \in Measurer |-> [pc |-> IF m \in Loop THEN "none" ELSE "idle", first |-> Unreadable]]
    /\ lastStats = NoStats /\ collects = 0
    /\ measured = [from |-> Unreadable, to |-> Unreadable, usage |-> 0]

-----------------------------------------------------------------------------
(* Start and Stop, by the application.                                      *)

StartStats ==
    /\ statsCaller = "idle" /\ ~statsRunning /\ stopChan < MaxStarts
    /\ statsRunning' = TRUE /\ stopChan' = stopChan + 1
    /\ worker' = [worker EXCEPT ![stopChan + 1].pc = "collect"]
    /\ UNCHANGED <<stopped, statsCaller, counters, lastStats, collects, measured>>

\* Wrong variant: the loop is not waited for.
StopAtOnce ==
    /\ statsCaller = "idle" /\ statsRunning
    /\ statsRunning' = FALSE /\ stopped' = stopped \cup {stopChan}
    /\ UNCHANGED <<stopChan, statsCaller, counters, worker, lastStats, collects, measured>>
StopStats ==
    /\ statsCaller = "idle" /\ statsRunning
    /\ statsRunning' = FALSE /\ stopped' = stopped \cup {stopChan} /\ statsCaller' = "wait"
    /\ UNCHANGED <<stopChan, counters, worker, lastStats, collects, measured>>

NoLoop == \A l \in Loop : worker[l].pc = "none"
StopReturns ==
    /\ statsCaller = "wait" /\ NoLoop /\ statsCaller' = "idle"
    /\ UNCHANGED <<statsRunning, stopChan, stopped, counters, worker, lastStats, collects, measured>>

\* select: the channel is read from the collector anew, whichever Start made it.
LoopStops(l) ==
    /\ worker[l].pc = "select" /\ stopChan \in stopped
    /\ worker' = [worker EXCEPT ![l].pc = "none"]
    /\ UNCHANGED <<statsRunning, stopChan, stopped, statsCaller, counters, lastStats, collects, measured>>
LoopTicks(l) ==
    /\ worker[l].pc = "select" /\ collects < MaxCollects
    /\ worker' = [worker EXCEPT ![l].pc = "collect"]
    /\ UNCHANGED <<statsRunning, stopChan, stopped, statsCaller, counters, lastStats, collects, measured>>

-----------------------------------------------------------------------------
(* One measurement.                                                         *)

CounterSum(line) == FoldSeq(+, 0, line) % Word
\* parseProcStatCPUTotalIdleBytes; a line of fewer than four numbers is refused.
Parsed(line) == Len(line) >= 4
\* Wrong variant: idle is taken from the field after it.
FifthField(line) == [total |-> CounterSum(line), idle |-> IF Len(line) > 4 THEN line[5] ELSE 0]
TotalIdle(line) == [total |-> CounterSum(line), idle |-> line[4]]

\* readProcCPUUsage, with the differences as unsigned numbers.
Minus(a, b) == (a - b) % Word
Usage(line1, line2) ==
    LET first  == TotalIdle(line1)
        second == TotalIdle(line2)
        total  == Minus(second.total, first.total)
        busy   == Minus(total, Minus(second.idle, first.idle))
        usage  == (100 * busy) \div total
    IN  IF ~Parsed(line1) \/ ~Parsed(line2) THEN 0
        ELSE IF total = 0 THEN 0
        ELSE IF usage > 100 THEN 100 ELSE usage

\* CollectSystemStatsOnce has an answer at once if there are last stats.
RequestStats(q) ==
    /\ worker[q].pc = "idle" /\ collects < MaxCollects
    /\ lastStats = NoStats
    /\ worker' = [worker EXCEPT ![q].pc = "collect"]
    /\ UNCHANGED <<statsRunning, stopChan, stopped, statsCaller, counters, lastStats, collects, measured>>

ReadFirst(m) ==
    /\ worker[m].pc = "collect"
    /\ \E line \in {counters, Unreadable} :
         worker' = [worker EXCEPT ![m] = [pc |-> "sleep", first |-> line]]
    /\ UNCHANGED <<statsRunning, stopChan, stopped, statsCaller, counters, lastStats, collects, measured>>

\* The counters have moved meanwhile; setLastStats.
Moved(step) == [i \in DOMAIN counters |-> (counters[i] + step[i]) % Word]
ReadSecond(m) ==
    /\ worker[m].pc = "sleep"
    /\ \E step \in Steps : counters' = Moved(step)
    /\ \E line \in {counters', Unreadable} :
         LET usage == Usage(worker[m].first, line)
         IN  /\ measured' = [from |-> worker[m].first, to |-> line, usage |-> usage]
             /\ lastStats' = usage
    /\ collects' = collects + 1
    /\ worker' = [worker EXCEPT ![m] = [pc |-> IF m \in Loop THEN "send" ELSE "idle", first |-> Unreadable]]
    /\ UNCHANGED <<statsRunning, stopChan, stopped, statsCaller>>

\* SendData and EnqueueCollectDataWrite.
SendStats(l) ==
    /\ worker[l].pc = "send" /\ worker' = [worker EXCEPT ![l].pc = "select"]
    /\ UNCHANGED <<statsRunning, stopChan, stopped, statsCaller, counters, lastStats, collects, measured>>
SystemStatsNext ==
    \/ StartStats \/ StopStats \/ StopReturns
    \/ \E l \in Loop : LoopStops(l) \/ LoopTicks(l) \/ SendStats(l)
    \/ \E q \in StatsRequest : RequestStats(q)
    \/ \E m \in Measurer : ReadFirst(m) \/ ReadSecond(m)

SystemStatsSpec == SystemStatsInit /\ [][SystemStatsNext]_SystemStatsVars

-----------------------------------------------------------------------------
\* Once Stop has returned no loop is left that sends or stores anything, and
\* however often the collector is started again there is one loop, although
\* every loop reads the channel of the last Start.
OneStatsLoop ==
    /\ ~statsRunning /\ statsCaller = "idle" => NoLoop
    /\ \A k, l \in Loop : worker[k].pc # "none" /\ worker[l].pc # "none" => k = l

\* The CPU usage is a percentage whatever the counters do; if none of them went
\* backwards it is the share of the time not spent idle, even where a counter
\* or the sum of all wrapped around between the readings, and 0 if no time was
\* counted or /proc/stat could not be read.
CpuUsageSound ==
    LET from  == measured.from
        to    == measured.to
        delta == [i \in DOMAIN from |-> Minus(to[i], from[i])]
        total == FoldSeq(+, 0, delta)
        forward == \A i \in DOMAIN from : delta[i] < Word \div (2 * Len(from))
    IN  /\ measured.usage \in 0 .. 100
        /\ from = Unreadable \/ to = Unreadable => measured.usage = 0
        /\ from # Unreadable /\ to # Unreadable /\ Parsed(from) /\ forward =>
             measured.usage = IF total = 0 THEN 0 ELSE (100 * (total - delta[4])) \div total

\* One loop measures, and what it measures is right.
StatsSound == OneStatsLoop /\ CpuUsageSound
=============================================================================

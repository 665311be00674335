------------------------------ MODULE Adapter ------------------------------
(***************************************************************************)
(* A northbound adapter of internal/northbound/adapters: Send and          *)
(* SendAlarm put messages into bounded queues, and one goroutine takes     *)
(* batches from them, publishes them over an MQTT client and puts back     *)
(* what it could not publish.  The five adapters share this code or copies *)
(* of it; setting.family says which of them is meant.                      *)
(*                                                                         *)
(* Messages of a kind are numbered in the order they are accepted.  The    *)
(* manager calls Start, Stop and Close while it holds its mutex, so they   *)
(* never overlap; Close is the end of an adapter (a changed configuration  *)
(* makes a new one).  The MQTT client is external: it connects, loses the  *)
(* connection and answers a publish late or never, as it likes.            *)
(***************************************************************************)
EXTENDS Integers, Sequences, FiniteSets

CONSTANTS
    Setting,     \* the adapters and environments to look at: records of family,
                 \* faults (connections break and publishes fail) and timeouts
                 \* (a publish may time out whether it arrived or not)
    Cap,         \* capacity of each queue
    AlarmBatch,  \* a.alarmBatch
    DevOf,       \* DevOf[m]: the device data message m comes from
    MaxMsg,      \* bound: messages of each kind
    MaxStarts    \* bound: how often the adapter is started

ASSUME SettingAssumption ==
    Setting \subseteq [family : {"mqtt", "xunji", "pandax", "ithings", "sagoo"},
                       faults : BOOLEAN, timeouts : BOOLEAN]
ASSUME QueueAssumption == Cap \in Nat \ {0} /\ AlarmBatch \in Nat \ {0}
ASSUME AdapterBounds ==
    MaxMsg \in Nat /\ MaxStarts \in Nat /\ DOMAIN DevOf = 1 .. MaxMsg

Kind == {"data", "alarm"}
Msg  == 1 .. MaxMsg

VARIABLES
    setting,     \* one of Setting, for good
    initialized, enabled, connected, loopState, stopChan,
    op,          \* the lifecycle call in progress: "none", "stop", "close"
    starts,
    loop,        \* the goroutine: "off" or "on"
    todo,        \* queues still to flush in this turn
    mode,        \* what follows: "turn", "drain", "last" or "close"
    taken, idx,  \* the batch being flushed and how much of it is published
    acked,       \* published, but connected and lastSend not yet set
    pending,     \* pendingData/realtimeQueue/latestData and the alarm queue
    next,        \* number of the next message of each kind
    lost,        \* messages dropped at a full queue, or superseded in a batch
    work,        \* dataChan, or flushNow, holds its token
    reconnectNow,\* reconnectNow holds its token
    timer,       \* the reconnect timer is set
    client,      \* the MQTT client: "up", "down" or "none"
    arrived,     \* the messages that reached the broker
    late,        \* some message reached the broker only after a newer one
    dup          \* some message reached the broker twice

\* mqtt and xunji publish only while enabled, and flush both queues when they
\* are signalled; the others flush by ticker and drain the alarms at the end.
Guarded      == setting.family \in {"mqtt", "xunji"}
\* The adapter's loop reconnects; iThings and Sagoo reconnect in publish.
HasReconnect == setting.family \in {"mqtt", "xunji", "pandax"}
\* A data batch is one message, with one entry per device.
OneShot(k)   == k = "data" /\ setting.family \in {"xunji", "pandax"}

life  == <<setting, initialized, enabled, loopState, stopChan, op, starts, loop>>
flush == <<todo, mode, taken, idx, acked>>
queue == <<pending, next, lost>>
link  == <<connected, reconnectNow, timer, client>>
out   == <<arrived, late, dup>>
vars  == <<life, flush, queue, work, link, out>>

ToSet(s) == {s[i] : i \in DOMAIN s}

\* Initialize has connected and applyConfig has run.
Init ==
    /\ setting \in Setting
    /\ initialized = TRUE /\ enabled = FALSE /\ connected = TRUE
    /\ loopState = "stopped" /\ stopChan = "open" /\ op = "none" /\ starts = 0
    /\ loop = "off" /\ todo = <<>> /\ mode = "turn" /\ taken = <<>> /\ idx = 0 /\ acked = FALSE
    /\ pending = [k \in Kind |-> <<>>] /\ next = [k \in Kind |-> 1]
    /\ lost = [k \in Kind |-> {}]
    /\ work = FALSE /\ reconnectNow = FALSE /\ timer = FALSE /\ client = "up"
    /\ arrived = [k \in Kind |-> {}] /\ late = [k \in Kind |-> FALSE] /\ dup = [k \in Kind |-> FALSE]

-----------------------------------------------------------------------------
(* The queues.                                                              *)

\* appendQueueItemWithCap drops the oldest message of a full queue.
Appended(q, m) == IF Len(q) >= Cap THEN Append(Tail(q), m) ELSE Append(q, m)

\* prependQueueWithCap cuts the merged queue at its capacity.
\* Wrong variant: what failed goes to the end.
PutLast(q, items)   == SubSeq(q \o items, 1, IF Len(q) + Len(items) > Cap THEN Cap ELSE Len(q) + Len(items))
Prepended(q, items) == SubSeq(items \o q, 1, IF Len(q) + Len(items) > Cap THEN Cap ELSE Len(q) + Len(items))

\* Send and SendAlarm.  iThings and Sagoo signal when a batch is full.
Signals(k, q) == \/ Guarded
                 \/ setting.family \in {"ithings", "sagoo"} /\ k = "alarm" /\ Len(q) >= AlarmBatch

Send(k) ==
    /\ next[k] <= MaxMsg
    /\ LET q == Appended(pending[k], next[k])
       IN  /\ pending' = [pending EXCEPT ![k] = q]
           /\ lost' = [lost EXCEPT ![k] = @ \cup (ToSet(pending[k]) \ ToSet(q))]
           /\ work' = (work \/ (initialized /\ Signals(k, q)))
    /\ next' = [next EXCEPT ![k] = @ + 1]
    /\ UNCHANGED <<life, flush, link, out>>

-----------------------------------------------------------------------------
(* Flushing: flushPendingData/flushRealtime and flushAlarms/flushAlarmBatch.*)

\* The whole queue, but at most alarmBatch alarms in the ticker families.
BatchLen(k) ==
    IF k = "alarm" /\ ~Guarded /\ Len(pending[k]) > AlarmBatch THEN AlarmBatch ELSE Len(pending[k])

TakeBatch ==
    /\ todo # <<>> /\ taken = <<>>
    /\ LET k == Head(todo)  n == BatchLen(k)
       IN  /\ taken' = SubSeq(pending[k], 1, n)
           /\ pending' = [pending EXCEPT ![k] = SubSeq(@, n + 1, Len(@))]
           /\ todo' = IF n = 0 THEN Tail(todo) ELSE todo
    /\ idx' = 0
    /\ UNCHANGED <<life, mode, acked, next, lost, work, link, out>>

Publishing == todo # <<>> /\ taken # <<>> /\ ~acked
MayPublish == Guarded => initialized /\ enabled

\* What one publish carries: one message or, per device, a batch's last.
Superseded == IF OneShot(Head(todo))
              THEN {m \in ToSet(taken) : \E n \in ToSet(taken) : n > m /\ DevOf[n] = DevOf[m]}
              ELSE {}
Carried == IF OneShot(Head(todo))
           THEN ToSet(taken) \ Superseded
           ELSE {taken[idx + 1]}
AfterPublish == IF OneShot(Head(todo)) THEN Len(taken) ELSE idx + 1

Arrive ==
    LET k == Head(todo)
        new == Carried \ arrived[k]
    IN  /\ arrived' = [arrived EXCEPT ![k] = @ \cup new]
        /\ late' = [late EXCEPT ![k] = @ \/ \E m \in new, n \in arrived[k] : m < n]
        /\ dup' = [dup EXCEPT ![k] = @ \/ new # Carried]

PublishOk ==
    /\ Publishing /\ MayPublish /\ client = "up"
    /\ Arrive
    /\ lost' = [lost EXCEPT ![Head(todo)] = @ \cup Superseded]
    /\ idx' = AfterPublish /\ acked' = TRUE
    /\ UNCHANGED <<life, todo, mode, taken, pending, next, work, link>>

\* publish sets connected only now: the connection may have broken meanwhile.
Acked ==
    /\ acked /\ acked' = FALSE
    /\ connected' = (connected \/ setting.family # "sagoo")
    /\ IF idx = Len(taken) THEN todo' = Tail(todo) /\ taken' = <<>> ELSE UNCHANGED <<todo, taken>>
    /\ UNCHANGED <<life, mode, idx, queue, work, reconnectNow, timer, client, out>>

\* What a failed flush puts back.  mqtt and xunji keep what was published
\* out of it; the others put the whole batch back.
\* Wrong variants: the message after the failed one is the first put back, or
\* the whole batch is put back.
SkipFailed == SubSeq(taken, idx + 2, Len(taken))
WholeBatch == taken
PutBack == IF Guarded THEN SubSeq(taken, idx + 1, Len(taken)) ELSE taken

\* A failed flush ends the drain of a stop, which then is the last flush.
\* Wrong variant: the drain goes on until the queue is empty.
KeepsDraining == mode
AfterFailure == IF mode = "drain" THEN "last" ELSE mode

\* A failed publish ends the flush; marks: it also marks the adapter
\* disconnected, which signals the loop while the adapter is enabled.
Requeue(marks) ==
    LET k == Head(todo)
        q == Prepended(pending[k], PutBack)
    IN  /\ pending' = [pending EXCEPT ![k] = q]
        /\ lost' = [lost EXCEPT ![k] = @ \cup ((ToSet(pending[k]) \cup ToSet(PutBack)) \ ToSet(q))]
        /\ connected' = (connected /\ ~marks)
        /\ reconnectNow' = \/ reconnectNow
                           \/ marks /\ HasReconnect /\ enabled
                           \/ Guarded /\ initialized /\ ~(connected' /\ client = "up")
        /\ todo' = Tail(todo) /\ taken' = <<>>
        /\ mode' = AfterFailure

\* Disabled, or no client, or not connected (and for iThings and Sagoo the
\* connect fails).
PublishRefused ==
    /\ Publishing /\ (~MayPublish \/ client # "up")
    /\ \E failed \in BOOLEAN :   \* iThings: the connect failed, or timed out
          Requeue(setting.family = "pandax" \/ (setting.family = "ithings" /\ client = "down" /\ failed))
    /\ UNCHANGED <<life, idx, acked, next, work, timer, client, out>>

\* iThings and Sagoo connect in publish.
ConnectInPublish ==
    /\ Publishing /\ ~HasReconnect /\ client = "down"
    /\ client' = "up"
    /\ UNCHANGED <<life, flush, queue, work, connected, reconnectNow, timer, out>>

PublishError ==
    /\ Publishing /\ MayPublish /\ client = "up" /\ setting.faults
    /\ Requeue(setting.family # "sagoo")
    /\ UNCHANGED <<life, idx, acked, next, work, timer, client, out>>

\* token.WaitTimeout gives up; the message may have arrived.
PublishTimeout ==
    /\ Publishing /\ MayPublish /\ client = "up" /\ setting.timeouts
    /\ Arrive \/ UNCHANGED out
    /\ Requeue(setting.family = "pandax")
    /\ UNCHANGED <<life, idx, acked, next, work, timer, client>>

-----------------------------------------------------------------------------
(* The loop: executeMQTTFlushReconnectLoop, executePeriodicFlushLoop and    *)
(* PandaX's executeLoop.                                                    *)

Selecting == loop = "on" /\ todo = <<>> /\ mode = "turn"
Flush(kinds) == todo' = kinds /\ UNCHANGED <<mode, taken, idx, acked>>

OnStop ==
    /\ Selecting /\ stopChan = "closed"
    /\ IF Guarded THEN todo' = <<"data", "alarm">> /\ mode' = "last"
                  ELSE todo' = <<"alarm">> /\ mode' = "drain"
    /\ timer' = FALSE
    /\ UNCHANGED <<life, taken, idx, acked, queue, work, connected, reconnectNow, client, out>>

OnWork ==
    /\ Selecting /\ work /\ work' = FALSE
    /\ Flush(IF Guarded THEN <<"data", "alarm">> ELSE <<"alarm">>)
    /\ UNCHANGED <<life, queue, link, out>>

OnTicker(k) ==
    /\ Selecting /\ Flush(<<k>>)
    /\ UNCHANGED <<life, queue, work, link, out>>

\* Wrong variant: only a missing client is replaced.
NilClientOnly == initialized /\ enabled /\ client = "none"
ShouldReconnect == initialized /\ enabled /\ client = "down"

\* PandaX looks first whether there is anything to reconnect.
OnReconnectNow ==
    /\ Selecting /\ reconnectNow /\ reconnectNow' = FALSE
    /\ timer' = (timer \/ setting.family # "pandax" \/ ShouldReconnect)
    /\ UNCHANGED <<life, flush, queue, work, connected, client, out>>

\* The reconnect timer fires: nothing to do, success, or failure.
OnTimer ==
    /\ Selecting /\ timer /\ ~ShouldReconnect /\ timer' = FALSE
    /\ UNCHANGED <<life, flush, queue, work, connected, reconnectNow, client, out>>

ReconnectOk ==
    /\ Selecting /\ timer /\ ShouldReconnect
    /\ client' = "up" /\ connected' = TRUE /\ timer' = FALSE
    /\ UNCHANGED <<life, flush, queue, work, reconnectNow, out>>

ReconnectFails ==
    /\ Selecting /\ timer /\ ShouldReconnect
    /\ IF setting.family = "pandax" THEN connected' = FALSE /\ reconnectNow' = TRUE
                            ELSE UNCHANGED <<connected, reconnectNow>>
    /\ UNCHANGED <<life, flush, queue, work, timer, client, out>>

\* drainAlarmQueueOnStop tries again until the queue is empty.
\* Wrong variant: one batch is enough.
DrainOnce == FALSE
DrainGoesOn == pending["alarm"] # <<>>

DrainAgain ==
    /\ loop = "on" /\ todo = <<>> /\ mode = "drain" /\ DrainGoesOn
    /\ todo' = <<"alarm">>
    /\ UNCHANGED <<life, mode, taken, idx, acked, queue, work, link, out>>

LoopExit ==
    /\ loop = "on" /\ todo = <<>>
    /\ mode = "last" \/ (mode = "drain" /\ ~DrainGoesOn)
    /\ loop' = "off" /\ mode' = "turn" /\ loopState' = "stopped"
    /\ UNCHANGED <<setting, initialized, enabled, stopChan, op, starts, todo, taken, idx, acked,
                   queue, work, link, out>>

-----------------------------------------------------------------------------
(* Lifecycle.                                                               *)

Start ==
    /\ op = "none" /\ starts < MaxStarts
    /\ initialized /\ ~enabled /\ loopState = "stopped"
    /\ enabled' = TRUE /\ loopState' = "running" /\ stopChan' = "open" /\ loop' = "on"
    /\ starts' = starts + 1
    /\ reconnectNow' = (reconnectNow \/ (HasReconnect /\ ~connected))
    /\ UNCHANGED <<setting, initialized, op, flush, queue, work, connected, timer, client, out>>

\* Stop, and the first part of Close, up to wg.Wait.
Closed == IF enabled THEN "closed" ELSE stopChan

StopBegin ==
    /\ op = "none" /\ initialized /\ op' \in {"stop", "close"}
    /\ enabled' = FALSE /\ stopChan' = Closed
    /\ loopState' = IF enabled THEN "stopping" ELSE loopState
    /\ UNCHANGED <<setting, initialized, starts, loop, flush, queue, work, link, out>>

StopReturn ==
    /\ op = "stop" /\ loop = "off" /\ op' = "none"
    /\ stopChan' = "nil" /\ loopState' = "stopped"
    /\ UNCHANGED <<setting, initialized, enabled, starts, loop, flush, queue, work, link, out>>

\* Close flushes once more.  PandaX resets its flags before, the others after.
CloseFlush ==
    /\ op = "close" /\ loop = "off" /\ mode = "turn"
    /\ mode' = "close" /\ todo' = <<"data", "alarm">>
    /\ stopChan' = "nil" /\ loopState' = "stopped"
    /\ initialized' = (setting.family # "pandax")
    /\ connected' = (connected /\ setting.family # "pandax")
    /\ UNCHANGED <<setting, enabled, op, starts, loop, taken, idx, acked, queue, work,
                   reconnectNow, timer, client, out>>

CloseReturn ==
    /\ op = "close" /\ mode = "close" /\ todo = <<>>
    /\ op' = "none" /\ mode' = "turn" /\ initialized' = FALSE /\ connected' = FALSE
    /\ client' = "none" /\ work' = FALSE /\ reconnectNow' = FALSE
    /\ pending' = IF Guarded THEN pending ELSE [k \in Kind |-> <<>>]
    /\ UNCHANGED <<setting, enabled, loopState, stopChan, starts, loop, todo, taken, idx, acked,
                   next, lost, timer, out>>

-----------------------------------------------------------------------------
(* The MQTT client.  Only mqtt and pandax are told that it lost the         *)
(* connection; all but pandax let it reconnect by itself.                   *)

ConnectionLost ==
    /\ client = "up" /\ setting.faults /\ client' = "down"
    /\ IF setting.family \in {"mqtt", "pandax"}
       THEN connected' = FALSE /\ reconnectNow' = (reconnectNow \/ enabled)
       ELSE UNCHANGED <<connected, reconnectNow>>
    /\ UNCHANGED <<life, flush, queue, work, timer, out>>

AutoReconnect ==
    /\ client = "down" /\ setting.family # "pandax" /\ client' = "up"
    /\ connected' = (connected \/ setting.family = "mqtt")
    /\ UNCHANGED <<life, flush, queue, work, reconnectNow, timer, out>>

FlushStep == TakeBatch \/ PublishOk \/ Acked \/ PublishRefused \/ ConnectInPublish
             \/ PublishError \/ PublishTimeout
LoopStep  == \/ OnStop \/ OnWork \/ OnReconnectNow \/ DrainAgain \/ LoopExit
             \/ OnTimer \/ ReconnectOk \/ ReconnectFails
             \/ \E k \in Kind : OnTicker(k)
Lifecycle == Start \/ StopBegin \/ StopReturn \/ CloseFlush \/ CloseReturn

Next == \/ \E k \in Kind : Send(k)
        \/ FlushStep \/ LoopStep \/ Lifecycle
        \/ ConnectionLost \/ AutoReconnect

Spec == Init /\ [][Next]_vars

\* The goroutine keeps running, select and the tickers neglect no case for
\* ever, and a broker that is tried again and again answers at last.
FairSpec ==
    /\ Spec
    /\ WF_vars(FlushStep) /\ WF_vars(LoopStep)
    /\ WF_vars(StopReturn) /\ WF_vars(CloseFlush) /\ WF_vars(CloseReturn)
    /\ SF_vars(OnStop) /\ SF_vars(OnReconnectNow) /\ SF_vars(OnTimer)
    /\ \A k \in Kind : SF_vars(OnTicker(k))
    /\ SF_vars(PublishOk) /\ SF_vars(ReconnectOk) /\ SF_vars(ConnectInPublish)

-----------------------------------------------------------------------------
(* Properties.                                                              *)

\* Every variable has the type its field has in the code, and no queue
\* exceeds its capacity.
TypeOK ==
    /\ {initialized, enabled, connected, acked, work, reconnectNow, timer} \subseteq BOOLEAN
    /\ loopState \in {"stopped", "running", "stopping"} /\ stopChan \in {"nil", "open", "closed"}
    /\ op \in {"none", "stop", "close"} /\ starts \in 0 .. MaxStarts /\ loop \in {"off", "on"}
    /\ todo \in Seq(Kind) /\ mode \in {"turn", "drain", "last", "close"}
    /\ taken \in Seq(Msg) /\ idx \in 0 .. Cap /\ client \in {"up", "down", "none"}
    /\ \A k \in Kind : /\ pending[k] \in Seq(Msg) /\ Len(pending[k]) <= Cap
                       /\ next[k] \in 1 .. MaxMsg + 1 /\ lost[k] \subseteq Msg
                       /\ arrived[k] \subseteq Msg /\ {late[k], dup[k]} \subseteq BOOLEAN

\* Retries keep the order: messages of a kind first reach the broker in the
\* order they were accepted (docs/pandax.md: order-preserving retry).
InOrder == \A k \in Kind : ~late[k]

InFlight(k) == IF todo # <<>> /\ Head(todo) = k THEN ToSet(taken) ELSE {}

\* Until Close has returned, a message that was accepted is queued, in the
\* batch being flushed, at the broker, or was dropped at a full queue.
NothingForgotten ==
    initialized => \A k \in Kind :
        1 .. next[k] - 1 = ToSet(pending[k]) \cup InFlight(k) \cup arrived[k] \cup lost[k]

\* mqtt and xunji publish a message again only when they could not tell
\* whether the first publish arrived.
NoDuplicate == Guarded /\ ~setting.timeouts => \A k \in Kind : ~dup[k]

\* The loop's goroutine runs exactly while the adapter is enabled or a Stop
\* or Close waits for it, so Start never adds a second one.
OneLoop ==
    /\ enabled => loop = "on" /\ loopState = "running" /\ stopChan = "open"
    /\ loop = "on" /\ ~enabled => op # "none" /\ stopChan = "closed"

\* As long as nothing fails, the loop of iThings, Sagoo and PandaX finds no
\* alarm waiting when it looks last at the queue before it ends.
DrainedAtStop ==
    [][~Guarded /\ ~setting.faults /\ ~setting.timeouts /\ loop = "on" /\ loop' = "off"
          => pending'["alarm"] = <<>>]_vars

\* Of the messages waiting, a full queue drops the oldest (docs/pandax.md:
\* the oldest is dropped so that new data gets in).  The code breaks it when a
\* failed batch is put back (README, section 7); no run checks it.
DropsOldest ==
    [][\A k \in Kind : \A m \in lost'[k] \ lost[k] :
          \A n \in ToSet(pending'[k]) : m < n]_vars

\* Stop and Close return.
StopReturns == op # "none" ~> op = "none"

\* While the adapter stays enabled and the broker is lost only finitely often,
\* every message accepted reaches the broker or is dropped at a full queue:
\* the reconnect timer is never left unset for good.
Delivered ==
    (<>[]enabled /\ <>[][~ConnectionLost]_vars) =>
        \A k \in Kind, m \in Msg : m < next[k] ~> m \in arrived[k] \cup lost[k]

\* What was accepted is queued, on its way, at the broker in its order and, if
\* the adapter can tell, once, or was dropped at a full queue.
QueuesSound == TypeOK /\ InOrder /\ NothingForgotten /\ NoDuplicate

\* Stop and Close return and leave no loop, so that a Start makes the only one.
LoopStops == []OneLoop /\ StopReturns
=============================================================================

----------------------------- MODULE Collector -----------------------------
(***************************************************************************)
(* The collection scheduler of internal/collector/collector.go: one        *)
(* execute loop that pops due tasks from a heap ordered by nextRun and     *)
(* dispatches each to a goroutine, the device-sync ticker goroutine, and   *)
(* Start/Stop, which any HTTP request may call.  The command-poll ticker   *)
(* runs the same loop and touches none of this state; it is left out.      *)
(*                                                                         *)
(* Time is relative: heap[t] is nextRun minus now, so no clock grows.      *)
(* A task object (a *collectTask) is a pair <<device, slot>>: the slot is  *)
(* its address, reused once nothing refers to it.  What one collection     *)
(* does between dispatch and finish is abstracted to a duration.           *)
(***************************************************************************)
EXTENDS Integers, FiniteSets

CONSTANTS
    Device,          \* device ids
    Slot,            \* addresses a task object of a device may have
    Config,          \* configurations of an enabled device
    Interval,        \* Interval[c]: collect interval of configuration c
    Worker,          \* identities of collect goroutines
    MaxLimit,        \* bound: largest value of maxConcurrentCollects
    MaxStarts,       \* bound: how often Start succeeds
    MaxEdits,        \* bound: how often a device row is edited
    SerialLifecycle, \* TRUE: Start/Stop are called only when none is running
    Absent, Disabled, NoTask, Idle, Out

ASSUME IntervalAssumption == Interval \in [Config -> Nat \ {0}]
ASSUME BoundAssumption ==
    /\ MaxLimit \in Nat \ {0} /\ MaxStarts \in Nat /\ MaxEdits \in Nat
    /\ SerialLifecycle \in BOOLEAN
ASSUME DistinctAssumption ==
    /\ Absent \notin Config /\ Disabled \notin Config /\ Absent # Disabled
    /\ NoTask \notin Slot /\ Idle \notin Device \X Slot /\ Out \notin Int

VARIABLES
    db,        \* the devices table: a configuration, Disabled or Absent
    edits,     \* number of edits so far
    running,   \* c.running
    gen,       \* which Start made the current stopChan and wakeChan
    closed,    \* generations whose stopChan is closed
    wake,      \* wake[g]: wakeChan of generation g holds its one token
    limit,     \* c.maxConcurrentCollects
    active,    \* c.activeCollects
    tasks,     \* c.tasks: the slot of each device's current task
    conf,      \* task.device of the current task
    heap,      \* c.taskHeap: time until nextRun, Out when index = -1
    loop,      \* the execute loop each Start launched
    syncer,    \* the device-sync goroutine each Start launched
    worker,    \* the task each collect goroutine holds
    starter,   \* progress of the g-th Start call
    stopper,   \* progress of the Stop call that closed generation g
    overlap    \* "start": the last Start found something of an earlier one at work;
               \* "stop": a Stop was called before that Start had launched its loop

vars == <<db, edits, running, gen, closed, wake, limit, active, tasks, conf,
          heap, loop, syncer, worker, starter, stopper, overlap>>
sched == <<limit, active, tasks, conf, heap>>
procs == <<loop, syncer, worker, starter, stopper>>
env   == <<db, edits>>
chans == <<running, gen, closed, wake, overlap>>

Gen   == 0 .. MaxStarts
Run   == 1 .. MaxStarts
Task  == Device \X Slot
Row   == Config \cup {Absent, Disabled}
Table == [Device -> Row]
NoRows == [d \in Device |-> Absent]

\* Where an execute loop, or a sync goroutine, is: the task it is about to
\* dispatch, the generation of the channels it is blocked on, its timer.
LoopAt(pc, task, ch, timer) == [pc |-> pc, task |-> task, ch |-> ch, timer |-> timer]
SyncAt(pc, ch, snap) == [pc |-> pc, ch |-> ch, snap |-> snap]

\* isTaskCurrentLocked: the tasks map holds this very object.
Current(t) == tasks[t[1]] = t[2]

\* heap.Less orders by nextRun.  peekNextCurrentTaskLocked pops every root
\* that is not current and returns the first that is.
Queued   == {t \in Task : heap[t] # Out}
Ready    == {t \in Queued : Current(t)}
Root(t)  == t \in Ready /\ \A u \in Ready : heap[t] <= heap[u]
Peeked   == [t \in Task |-> IF t \in Queued \ Ready
                               /\ \A u \in Ready : heap[t] <= heap[u]
                            THEN Out ELSE heap[t]]

\* Tasks popped and not yet finished, and what a new object must differ from.
Dispatching(g, t) == loop[g].pc = "dispatch" /\ loop[g].task = t
Held(t) == (\E w \in Worker : worker[w] = t) \/ (\E g \in Run : Dispatching(g, t))
Live(t) == Current(t) \/ Held(t)

-----------------------------------------------------------------------------
Init ==
    /\ db \in Table /\ edits = 0
    /\ running = FALSE /\ gen = 0 /\ closed = {} /\ wake = [g \in Gen |-> FALSE]
    /\ limit = MaxLimit /\ active = 0
    /\ tasks = [d \in Device |-> NoTask]
    /\ conf = [d \in Device |-> Absent]
    /\ heap = [t \in Task |-> Out]
    /\ loop = [g \in Run |-> LoopAt("none", Idle, 0, Out)]
    /\ syncer = [g \in Run |-> SyncAt("none", 0, NoRows)]
    /\ worker = [w \in Worker |-> Idle]
    /\ starter = [g \in Run |-> [pc |-> "none", snap |-> NoRows]]
    /\ stopper = [g \in Gen |-> "none"] /\ overlap = "none"

\* notifyTaskChangedLocked: a non-blocking send on a channel of capacity one.
\* Wrong variant: an unbuffered channel, which drops the token unless the
\* loop is already in its select.
NotifyUnbuffered == wake' = [wake EXCEPT ![gen] = \E g \in Run : loop[g].pc = "blocked"]
Notify == wake' = [wake EXCEPT ![gen] = TRUE]

-----------------------------------------------------------------------------
(* SyncDeviceStatus and loadEnabledDevices: both list the devices first and *)
(* take c.mu afterwards, so the snapshot they apply may be stale.           *)

Adds(snap)    == {d \in Device : snap[d] \in Config /\ tasks[d] = NoTask}
Updates(snap) == {d \in Device : snap[d] \in Config /\ tasks[d] # NoTask
                                 /\ conf[d] # snap[d]}
\* Wrong variant: no pruneMissingTasksLocked, so deleted devices stay.
RemovesDisabled(snap) == {d \in Device : snap[d] = Disabled /\ tasks[d] # NoTask}
Removes(snap) == {d \in Device : snap[d] \notin Config /\ tasks[d] # NoTask}

\* newCollectTask allocates an object nothing refers to.
FreeSlot(d) == CHOOSE s \in Slot : ~Live(<<d, s>>)
HasFree(d)  == \E s \in Slot : ~Live(<<d, s>>)

\* The tasks map, the tasks' devices and the heap after devices A are added
\* (newCollectTask), U refreshed (refreshTaskLocked) and R removed.
TasksAfter(A, R) ==
    [d \in Device |-> IF d \in A THEN FreeSlot(d) ELSE IF d \in R THEN NoTask ELSE tasks[d]]

ConfAfter(snap, A, U, R) ==
    [d \in Device |-> IF d \in A \cup U THEN snap[d] ELSE IF d \in R THEN Absent ELSE conf[d]]

HeapAfter(snap, A, U, R) ==
    [t \in Task |->
        IF t[1] \in A
        THEN IF t[2] = FreeSlot(t[1]) THEN Interval[snap[t[1]]] ELSE heap[t]
        ELSE IF heap[t] = Out THEN Out
        ELSE IF t[1] \in R /\ Current(t) THEN Out
        ELSE IF t[1] \in U /\ Current(t) THEN Interval[snap[t[1]]]
        ELSE heap[t]]

ApplyTasks(snap, A, U, R) ==
    /\ \A d \in A : HasFree(d)
    /\ tasks' = TasksAfter(A, R)
    /\ conf' = ConfAfter(snap, A, U, R)
    /\ heap' = HeapAfter(snap, A, U, R)

\* upsertTaskLocked for every enabled device; only an added one notifies.
LoadEnabled(snap) ==
    /\ ApplyTasks(snap, Adds(snap), Updates(snap), {})
    /\ IF Adds(snap) # {} THEN Notify ELSE UNCHANGED wake

\* syncDeviceTaskLocked for every listed device, then pruneMissingTasksLocked.
SyncApply(snap) ==
    /\ ApplyTasks(snap, Adds(snap), Updates(snap), Removes(snap))
    /\ IF Adds(snap) \cup Updates(snap) \cup Removes(snap) # {}
       THEN Notify ELSE UNCHANGED wake

-----------------------------------------------------------------------------
(* Start and Stop.                                                          *)

\* The goroutines c.wg counts.
LiveLoops   == {g \in Run : loop[g].pc \notin {"none", "done"}}
LiveSyncers == {g \in Run : syncer[g].pc \notin {"none", "done"}}
Busy        == {w \in Worker : worker[w] # Idle}

Starting == {g \in Run : starter[g].pc \notin {"none", "done"}}
Stopping == {g \in Gen : stopper[g] = "wait"}
MayCall  == SerialLifecycle => Starting = {} /\ Stopping = {}

StartBegin ==
    /\ MayCall /\ ~running /\ gen < MaxStarts
    /\ running' = TRUE /\ gen' = gen + 1
    /\ wake' = [wake EXCEPT ![gen + 1] = FALSE]
    /\ tasks' = [d \in Device |-> NoTask] /\ conf' = [d \in Device |-> Absent]
    /\ heap' = [t \in Task |-> Out] /\ active' = 0
    /\ starter' = [starter EXCEPT ![gen + 1].pc = "list"]
    /\ overlap' = IF LiveLoops = {} /\ LiveSyncers = {} /\ Busy = {} /\ Starting = {}
                  THEN "none" ELSE "start"
    /\ UNCHANGED <<env, closed, limit, loop, syncer, worker, stopper>>

\* ListDevices, outside the lock.  An error leaves nothing to load.
StartList(g) ==
    /\ starter[g].pc = "list"
    /\ \/ starter' = [starter EXCEPT ![g] = [pc |-> "load", snap |-> db]]
       \/ starter' = [starter EXCEPT ![g].pc = "launch"]
    /\ UNCHANGED <<env, chans, sched, loop, syncer, worker, stopper>>

StartLoad(g) ==
    /\ starter[g].pc = "load"
    /\ LoadEnabled(starter[g].snap)
    /\ starter' = [starter EXCEPT ![g] = [pc |-> "launch", snap |-> NoRows]]
    /\ UNCHANGED <<env, running, gen, closed, overlap, limit, active, loop, syncer, worker, stopper>>

StartLaunch(g) ==
    /\ starter[g].pc = "launch"
    /\ starter' = [starter EXCEPT ![g].pc = "done"]
    /\ loop' = [loop EXCEPT ![g] = LoopAt("top", Idle, 0, Out)]
    /\ syncer' = [syncer EXCEPT ![g] = SyncAt("top", 0, NoRows)]
    /\ UNCHANGED <<env, chans, sched, worker, stopper>>

StopBegin ==
    /\ MayCall /\ running
    /\ running' = FALSE /\ closed' = closed \cup {gen}
    /\ stopper' = [stopper EXCEPT ![gen] = "wait"]
    /\ overlap' = IF overlap = "none" /\ Starting # {} THEN "stop" ELSE overlap
    /\ UNCHANGED <<env, gen, wake, sched, loop, syncer, worker, starter>>

\* Wrong variant: collect goroutines are not counted by c.wg.
WgZeroLoops == LiveLoops = {} /\ LiveSyncers = {}
WgZero == LiveLoops = {} /\ LiveSyncers = {} /\ Busy = {}

StopReturn(g) ==
    /\ stopper[g] = "wait" /\ WgZero
    /\ stopper' = [stopper EXCEPT ![g] = "done"]
    /\ UNCHANGED <<env, chans, sched, loop, syncer, worker, starter>>

-----------------------------------------------------------------------------
(* executeLoop.  peek, the three reasons to wait, and pop + tryStart are    *)
(* one region under c.mu; c.stopChan and c.wakeChan are read after it.      *)

LoopWait(g, timer) ==
    /\ heap' = Peeked
    /\ loop' = [loop EXCEPT ![g] = LoopAt("arm", Idle, 0, timer)]
    /\ UNCHANGED <<env, chans, limit, active, tasks, conf, syncer, worker, starter, stopper>>

LoopEmpty(g) == loop[g].pc = "top" /\ Ready = {} /\ LoopWait(g, Out)

LoopDelay(g) ==
    /\ loop[g].pc = "top"
    /\ \E t \in Task : Root(t) /\ heap[t] > 0 /\ LoopWait(g, heap[t])

\* tryStartCollectTaskLocked.  Wrong variant: one collection too many.
SlotFreeOneMore == active <= limit
SlotFree == active < limit

LoopFull(g) ==
    /\ loop[g].pc = "top"
    /\ \E t \in Task : Root(t) /\ heap[t] <= 0
    /\ ~SlotFree
    /\ LoopWait(g, Out)

\* popNextCurrentTaskLocked.  Wrong variant: the root is peeked, not popped.
Unpopped(t) == Peeked
Popped(t) == [Peeked EXCEPT ![t] = Out]

LoopPop(g) ==
    /\ loop[g].pc = "top" /\ SlotFree
    /\ \E t \in Task :
         /\ Root(t) /\ heap[t] <= 0
         /\ heap' = Popped(t)
         /\ loop' = [loop EXCEPT ![g] = LoopAt("dispatch", t, 0, Out)]
    /\ active' = active + 1
    /\ UNCHANGED <<env, chans, limit, tasks, conf, syncer, worker, starter, stopper>>

\* dispatchCollectTask, then the non-blocking test of c.stopChan.
LoopDispatch(g) ==
    /\ loop[g].pc = "dispatch"
    /\ \E w \in Worker : worker[w] = Idle
                         /\ worker' = [worker EXCEPT ![w] = loop[g].task]
    /\ loop' = [loop EXCEPT ![g] = LoopAt("check", Idle, 0, Out)]
    /\ UNCHANGED <<env, chans, sched, syncer, starter, stopper>>

LoopCheck(g) ==
    /\ loop[g].pc = "check"
    /\ loop' = [loop EXCEPT ![g] =
                  LoopAt(IF gen \in closed THEN "done" ELSE "top", Idle, 0, Out)]
    /\ UNCHANGED <<env, chans, sched, syncer, worker, starter, stopper>>

\* waitForStopOrWake evaluates c.stopChan and c.wakeChan, then blocks on them.
LoopArm(g) ==
    /\ loop[g].pc = "arm"
    /\ loop' = [loop EXCEPT ![g] = LoopAt("blocked", Idle, gen, loop[g].timer)]
    /\ UNCHANGED <<env, chans, sched, syncer, worker, starter, stopper>>

\* Wrong variant: "break" leaves the select and not the loop.
LoopStopBreaks(g) ==
    /\ loop[g].pc = "blocked" /\ loop[g].ch \in closed
    /\ loop' = [loop EXCEPT ![g] = LoopAt("top", Idle, 0, Out)]
    /\ UNCHANGED <<env, chans, sched, syncer, worker, starter, stopper>>

LoopStop(g) ==
    /\ loop[g].pc = "blocked" /\ loop[g].ch \in closed
    /\ loop' = [loop EXCEPT ![g] = LoopAt("done", Idle, 0, Out)]
    /\ UNCHANGED <<env, chans, sched, syncer, worker, starter, stopper>>

LoopWake(g) ==
    /\ loop[g].pc = "blocked" /\ wake[loop[g].ch]
    /\ wake' = [wake EXCEPT ![loop[g].ch] = FALSE]
    /\ loop' = [loop EXCEPT ![g] = LoopAt("top", Idle, 0, Out)]
    /\ UNCHANGED <<env, running, gen, closed, overlap, sched, syncer, worker, starter, stopper>>

LoopTimer(g) ==
    /\ loop[g].pc = "blocked" /\ loop[g].timer = 0
    /\ loop' = [loop EXCEPT ![g] = LoopAt("top", Idle, 0, Out)]
    /\ UNCHANGED <<env, chans, sched, syncer, worker, starter, stopper>>

\* finishCollectTask: the heap, and activeCollects, after task t.
\* Wrong variants: no identity test, no push, a slot kept by a stale task.
RequeueStale(t) == [heap EXCEPT ![t] = 1]
RequeueNever(t) == heap
Requeue(t) == IF Current(t) THEN [heap EXCEPT ![t] = Interval[conf[t[1]]]] ELSE heap

ReleaseCurrent(t) == IF active > 0 /\ Current(t) THEN active - 1 ELSE active
Release(t) == IF active > 0 THEN active - 1 ELSE active

\* The goroutine of dispatchCollectTask ends.
Finish(w) ==
    /\ worker[w] # Idle
    /\ active' = Release(worker[w])
    /\ heap' = Requeue(worker[w])
    /\ Notify
    /\ worker' = [worker EXCEPT ![w] = Idle]
    /\ UNCHANGED <<env, running, gen, closed, overlap, limit, tasks, conf, loop, syncer, starter, stopper>>

-----------------------------------------------------------------------------
(* startAdjustableTickerWorker: select on c.stopChan and the ticker.        *)

SyncArm(g) ==
    /\ syncer[g].pc = "top"
    /\ syncer' = [syncer EXCEPT ![g] = SyncAt("blocked", gen, NoRows)]
    /\ UNCHANGED <<env, chans, sched, loop, worker, starter, stopper>>

SyncStop(g) ==
    /\ syncer[g].pc = "blocked" /\ syncer[g].ch \in closed
    /\ syncer' = [syncer EXCEPT ![g] = SyncAt("done", 0, NoRows)]
    /\ UNCHANGED <<env, chans, sched, loop, worker, starter, stopper>>

\* The ticker fires and SyncDeviceStatus lists the devices.
SyncList(g) ==
    /\ syncer[g].pc = "blocked"
    /\ syncer' = [syncer EXCEPT ![g] = SyncAt("work", 0, db)]
    /\ UNCHANGED <<env, chans, sched, loop, worker, starter, stopper>>

\* The ticker fires and listing the devices fails: back to the select.
SyncListFails(g) ==
    /\ syncer[g].pc = "blocked"
    /\ syncer' = [syncer EXCEPT ![g] = SyncAt("top", 0, NoRows)]
    /\ UNCHANGED <<env, chans, sched, loop, worker, starter, stopper>>

SyncDeviceStatus(g) ==
    /\ syncer[g].pc = "work"
    /\ SyncApply(syncer[g].snap)
    /\ syncer' = [syncer EXCEPT ![g] = SyncAt("top", 0, NoRows)]
    /\ UNCHANGED <<env, running, gen, closed, overlap, limit, active, loop, worker, starter, stopper>>

-----------------------------------------------------------------------------
Limits == 1 .. MaxLimit

\* SetMaxConcurrentCollects; a limit that is not positive becomes the default.
SetMaxConcurrentCollects ==
    /\ \E n \in Limits : n # limit /\ limit' = n
    /\ Notify
    /\ UNCHANGED <<env, running, gen, closed, overlap, active, tasks, conf, heap, procs>>

\* An operator edits, enables, disables, adds or deletes a device.
EditDevice ==
    /\ edits < MaxEdits /\ edits' = edits + 1
    /\ \E d \in Device, r \in Row : r # db[d] /\ db' = [db EXCEPT ![d] = r]
    /\ UNCHANGED <<chans, sched, procs>>

\* Time passes.  Among overdue tasks only the order matters, so they move
\* only when another task joins them.  The few instructions between
\* c.mu.Unlock and the select take no time.
NewlyDue == \E t \in Queued : heap[t] = 1
Older(x) == IF x = Out THEN Out ELSE IF x > 0 \/ NewlyDue THEN x - 1 ELSE x
Elapsed(x) == IF x = Out THEN Out ELSE IF x > 0 THEN x - 1 ELSE 0
Tick ==
    /\ \A g \in Run : loop[g].pc # "arm"
    /\ heap' = [t \in Task |-> Older(heap[t])]
    /\ loop' = [g \in Run |-> LoopAt(loop[g].pc, loop[g].task, loop[g].ch,
                                      Elapsed(loop[g].timer))]
    /\ UNCHANGED <<env, chans, limit, active, tasks, conf, syncer, worker, starter, stopper>>

Lifecycle ==
    \/ StartBegin \/ StopBegin
    \/ \E g \in Run : StartList(g) \/ StartLoad(g) \/ StartLaunch(g)
    \/ \E g \in Gen : StopReturn(g)
LoopStep(g) ==
    \/ LoopEmpty(g) \/ LoopDelay(g) \/ LoopFull(g) \/ LoopPop(g)
    \/ LoopDispatch(g) \/ LoopCheck(g) \/ LoopArm(g)
    \/ LoopStop(g) \/ LoopWake(g) \/ LoopTimer(g)
SyncStep(g) ==
    SyncArm(g) \/ SyncStop(g) \/ SyncList(g) \/ SyncListFails(g) \/ SyncDeviceStatus(g)

Next ==
    \/ Lifecycle
    \/ \E g \in Run : LoopStep(g) \/ SyncStep(g)
    \/ \E w \in Worker : Finish(w)
    \/ SetMaxConcurrentCollects \/ EditDevice \/ Tick

Spec == Init /\ [][Next]_vars

-----------------------------------------------------------------------------
(* Fairness.  Go schedules every runnable goroutine and sync.Mutex admits   *)
(* every waiter (weak fairness); select picks among its ready cases at      *)
(* random, so the stop case cannot lose forever, and a database that is     *)
(* asked again and again answers at last (strong fairness).                 *)
Fairness ==
    /\ WF_vars(Tick)
    /\ \A g \in Run :
         /\ WF_vars(StartList(g)) /\ WF_vars(StartLoad(g)) /\ WF_vars(StartLaunch(g))
         /\ WF_vars(LoopStep(g)) /\ SF_vars(LoopStop(g))
         /\ WF_vars(SyncArm(g)) /\ SF_vars(SyncStop(g))
         /\ SF_vars(SyncList(g)) /\ WF_vars(SyncDeviceStatus(g))
    /\ \A g \in Gen : WF_vars(StopReturn(g))
    /\ \A w \in Worker : WF_vars(Finish(w))

FairSpec == Spec /\ Fairness

-----------------------------------------------------------------------------
(* Properties.                                                              *)

LoopType == [pc : {"none", "top", "dispatch", "check", "arm", "blocked", "done"},
             task : Task \cup {Idle}, ch : Gen, timer : Nat \cup {Out}]
SyncerType  == [pc : {"none", "top", "blocked", "work", "done"}, ch : Gen, snap : Table]
StarterType == [pc : {"none", "list", "load", "launch", "done"}, snap : Table]

\* Every variable has the type its field has in the code.
TypeOK ==
    /\ db \in Table /\ edits \in Nat
    /\ running \in BOOLEAN /\ gen \in Gen /\ closed \subseteq Gen
    /\ wake \in [Gen -> BOOLEAN]
    /\ limit \in 1 .. MaxLimit /\ active \in Nat
    /\ tasks \in [Device -> Slot \cup {NoTask}]
    /\ conf \in [Device -> Config \cup {Absent}]
    /\ heap \in [Task -> Int \cup {Out}]
    /\ loop \in [Run -> LoopType] /\ syncer \in [Run -> SyncerType]
    /\ starter \in [Run -> StarterType] /\ worker \in [Worker -> Task \cup {Idle}]
    /\ stopper \in [Gen -> {"none", "wait", "done"}] /\ overlap \in {"none", "start", "stop"}

\* The heap holds current tasks only, and none that is being collected: the
\* heap.Remove in removeTaskLocked, the pop in executeLoop and the push in
\* finishCollectTask agree, whatever syncs and restarts come between them.
HeapHoldsCurrentOnly == \A t \in Queued : Current(t) /\ ~Held(t)

\* A task object is collected by one goroutine at a time, although a device
\* may be removed and added again while its earlier object is in flight.
CollectedOnce ==
    /\ \A v, w \in Worker : worker[v] = worker[w] /\ worker[v] # Idle => v = w
    /\ \A g, h \in Run, t \in Task : Dispatching(g, t) /\ Dispatching(h, t) => g = h
    /\ \A g \in Run, w \in Worker : ~Dispatching(g, worker[w])

\* A current task is never lost: it waits in the heap or some goroutine that
\* will finish it holds it.
NoTaskLost ==
    \A d \in Device : tasks[d] # NoTask =>
        LET t == <<d, tasks[d]>> IN t \in Queued \/ Held(t)

\* Tasks counted by activeCollects: popped, and not yet finished.
InFlight == Cardinality(Busy) + Cardinality({g \in Run : loop[g].pc = "dispatch"})

\* activeCollects counts the tasks in flight, so no slot leaks and none is
\* given out twice (tryStartCollectTaskLocked, finishCollectTask).  A Start that
\* finds collections of an earlier one at work forgets them: then it may count
\* too few, and never too many, so that no slot is lost for good.
ActiveMatches ==
    /\ active <= InFlight
    /\ overlap # "start" => active = InFlight

\* A collection starts only while fewer than maxConcurrentCollects are in
\* flight (README: the parameter bounds how many devices are collected at once).
BoundedDispatch == overlap # "start" /\ InFlight' > InFlight => InFlight < limit

\* Loop g will look at the heap again, or wakes no later than the earliest nextRun.
Awake(g) == loop[g].pc \in {"top", "dispatch", "check"}
InTime(g) ==
    /\ loop[g].pc = "arm" \/ (loop[g].pc = "blocked" /\ loop[g].ch = gen)
    /\ loop[g].timer # Out /\ \A t \in Ready : loop[g].timer = 0 \/ loop[g].timer <= heap[t]

\* executeLoop never sleeps through work, however Start and Stop were called:
\* once a Start is over, and with no wake-up pending, there is no task, or a
\* loop is up or has a timer in time, or all slots are taken by collections
\* whose end will wake it.
NoLostWakeup ==
    gen \in Run \ closed /\ Starting = {} /\ ~wake[gen] =>
        \/ Ready = {}
        \/ \E g \in Run : Awake(g) \/ InTime(g)
        \/ active >= limit /\ InFlight > 0

\* Once Stop has returned, nothing it was to stop is still alive, unless it
\* was called while a Start was still at it.
QuietWhenStopped ==
    overlap = "none" /\ ~running /\ Starting = {} /\ Stopping = {}
        => LiveLoops = {} /\ LiveSyncers = {} /\ Busy = {}

\* Stop returns: every goroutine in c.wg leaves its select.
StopTerminates == \A g \in Gen : stopper[g] = "wait" ~> stopper[g] = "done"

InCollection(d) == \E w \in Worker : worker[w] # Idle /\ worker[w][1] = d

\* A device that stays enabled with one configuration while the collector
\* runs is collected again and again, however many devices share the slots.
EnabledCollected ==
    \A d \in Device, c \in Config :
        <>[](running /\ db[d] = c) => []<>InCollection(d)

\* A device that stays disabled or deleted is released for good.
DisabledReleased ==
    \A d \in Device :
        <>[](running /\ db[d] \notin Config) => <>[](tasks[d] = NoTask /\ ~InCollection(d))

\* The slots: the count is right, no collection starts beyond the limit, and
\* once Stop has returned none is in use.
SlotsRespected == [][ActiveMatches' /\ BoundedDispatch /\ QuietWhenStopped']_vars
=============================================================================

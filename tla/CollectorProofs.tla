-------------------------- MODULE CollectorProofs --------------------------
(***************************************************************************)
(* Proofs about the scheduler of module Collector, for every set of        *)
(* devices, configurations and goroutines and any number of Start and Stop *)
(* calls, overlapping or not.                                              *)
(***************************************************************************)
EXTENDS Collector, FiniteSetTheorems, TLAPS

\* A current task has the configuration of an enabled device, so that
\* finishCollectTask has an interval to add.
ConfKnown == \A d \in Device : tasks[d] # NoTask => conf[d] \in Config

\* The inductive invariant of type correctness.
TypeInv == TypeOK /\ ConfKnown

USE IntervalAssumption, BoundAssumption, DistinctAssumption

\* A free address is one nothing refers to.
LEMMA FreeSlotIsFree ==
    ASSUME NEW d \in Device, HasFree(d)
    PROVE  FreeSlot(d) \in Slot /\ ~Live(<<d, FreeSlot(d)>>)
BY DEF HasFree, FreeSlot

LEMMA NoRowsTyped == NoRows \in Table
BY DEF NoRows, Table, Row

LEMMA ZeroGen == 0 \in Gen
BY DEF Gen

LEMMA LoopAtTyped ==
    ASSUME NEW pc \in {"none", "top", "dispatch", "check", "arm", "blocked", "done"},
           NEW t \in Task \cup {Idle}, NEW ch \in Gen, NEW timer \in Nat \cup {Out}
    PROVE  LoopAt(pc, t, ch, timer) \in LoopType
BY DEF LoopAt, LoopType

LEMMA SyncAtTyped ==
    ASSUME NEW pc \in {"none", "top", "blocked", "work", "done"},
           NEW ch \in Gen, NEW snap \in Table
    PROVE  SyncAt(pc, ch, snap) \in SyncerType
BY DEF SyncAt, SyncerType

LEMMA TypeInit == Init => TypeInv
<1> SUFFICES ASSUME Init PROVE TypeInv
  OBVIOUS
<1>1. NoRows \in Table
  BY NoRowsTyped
<1>2. 0 \in Gen
  BY DEF Gen
<1>4. loop \in [Run -> LoopType]
  BY <1>2, LoopAtTyped DEF Init
<1>5. syncer \in [Run -> SyncerType]
  BY <1>1, <1>2, SyncAtTyped DEF Init
<1>6. starter \in [Run -> StarterType]
  BY <1>1 DEF Init, StarterType
<1>7. ConfKnown
  BY DEF Init, ConfKnown
<1>8. /\ wake \in [Gen -> BOOLEAN] /\ gen \in Gen /\ limit \in 1 .. MaxLimit
      /\ stopper \in [Gen -> {"none", "wait", "done"}] /\ overlap \in {"none", "start", "stop"}
  BY <1>2 DEF Init
<1>9. /\ tasks \in [Device -> Slot \cup {NoTask}]
      /\ conf \in [Device -> Config \cup {Absent}]
      /\ heap \in [Task -> Int \cup {Out}]
      /\ worker \in [Worker -> Task \cup {Idle}]
  BY DEF Init
<1>10. db \in Table /\ edits \in Nat /\ running \in BOOLEAN /\ closed \subseteq Gen /\ active \in Nat
  BY DEF Init
<1> QED BY <1>4, <1>5, <1>6, <1>7, <1>8, <1>9, <1>10 DEF TypeInv, TypeOK

\* Applying a device list keeps the types and the configurations known.
LEMMA ApplyTyped ==
    ASSUME TypeInv, NEW snap \in Table, NEW A \in SUBSET Device,
           NEW U \in SUBSET Device, NEW R \in SUBSET Device,
           \A d \in A \cup U : snap[d] \in Config,
           \A d \in A : HasFree(d)
    PROVE  /\ TasksAfter(A, R) \in [Device -> Slot \cup {NoTask}]
           /\ ConfAfter(snap, A, U, R) \in [Device -> Config \cup {Absent}]
           /\ HeapAfter(snap, A, U, R) \in [Task -> Int \cup {Out}]
           /\ \A d \in Device : TasksAfter(A, R)[d] # NoTask
                                => ConfAfter(snap, A, U, R)[d] \in Config
<1>1. TasksAfter(A, R) \in [Device -> Slot \cup {NoTask}]
  BY FreeSlotIsFree DEF TasksAfter, TypeInv, TypeOK
<1>2. ConfAfter(snap, A, U, R) \in [Device -> Config \cup {Absent}]
  BY DEF ConfAfter, TypeInv, TypeOK
<1>3. HeapAfter(snap, A, U, R) \in [Task -> Int \cup {Out}]
  BY DEF HeapAfter, TypeInv, TypeOK, Task
<1>4. \A d \in Device : TasksAfter(A, R)[d] # NoTask => ConfAfter(snap, A, U, R)[d] \in Config
  BY DEF TasksAfter, ConfAfter, TypeInv, TypeOK, ConfKnown
<1> QED BY <1>1, <1>2, <1>3, <1>4

\* The two callers, for the snapshot they took.
LEMMA LoadTyped ==
    ASSUME TypeInv, NEW snap \in Table, LoadEnabled(snap)
    PROVE  /\ tasks' \in [Device -> Slot \cup {NoTask}]
           /\ conf' \in [Device -> Config \cup {Absent}]
           /\ heap' \in [Task -> Int \cup {Out}]
           /\ wake' \in [Gen -> BOOLEAN]
           /\ ConfKnown'
<1>1. \A d \in Adds(snap) \cup Updates(snap) : snap[d] \in Config
  BY DEF Adds, Updates
<1>2. Adds(snap) \in SUBSET Device /\ Updates(snap) \in SUBSET Device /\ {} \in SUBSET Device
  BY DEF Adds, Updates
<1>3. \A d \in Adds(snap) : HasFree(d)
  BY DEF LoadEnabled, ApplyTasks
<1>4. /\ tasks' = TasksAfter(Adds(snap), {})
      /\ conf' = ConfAfter(snap, Adds(snap), Updates(snap), {})
      /\ heap' = HeapAfter(snap, Adds(snap), Updates(snap), {})
  BY DEF LoadEnabled, ApplyTasks
<1>5. wake' \in [Gen -> BOOLEAN]
  BY DEF LoadEnabled, Notify, TypeInv, TypeOK
<1> QED BY <1>1, <1>2, <1>3, <1>4, <1>5, ApplyTyped DEF ConfKnown

LEMMA SyncTyped ==
    ASSUME TypeInv, NEW snap \in Table, SyncApply(snap)
    PROVE  /\ tasks' \in [Device -> Slot \cup {NoTask}]
           /\ conf' \in [Device -> Config \cup {Absent}]
           /\ heap' \in [Task -> Int \cup {Out}]
           /\ wake' \in [Gen -> BOOLEAN]
           /\ ConfKnown'
<1>1. \A d \in Adds(snap) \cup Updates(snap) : snap[d] \in Config
  BY DEF Adds, Updates
<1>2. /\ Adds(snap) \in SUBSET Device /\ Updates(snap) \in SUBSET Device
      /\ Removes(snap) \in SUBSET Device
  BY DEF Adds, Updates, Removes
<1>3. \A d \in Adds(snap) : HasFree(d)
  BY DEF SyncApply, ApplyTasks
<1>4. /\ tasks' = TasksAfter(Adds(snap), Removes(snap))
      /\ conf' = ConfAfter(snap, Adds(snap), Updates(snap), Removes(snap))
      /\ heap' = HeapAfter(snap, Adds(snap), Updates(snap), Removes(snap))
  BY DEF SyncApply, ApplyTasks
<1>5. wake' \in [Gen -> BOOLEAN]
  BY DEF SyncApply, Notify, TypeInv, TypeOK
<1> QED BY <1>1, <1>2, <1>3, <1>4, <1>5, ApplyTyped DEF ConfKnown

LEMMA TypeLifecycle ==
    ASSUME TypeInv, Lifecycle
    PROVE  TypeInv'
<1> USE DEF TypeInv, ConfKnown
<1>1. CASE StartBegin
  <2>1. starter' \in [Run -> StarterType]
    BY <1>1 DEF StartBegin, TypeOK, StarterType, Gen, Run
  <2>2. gen' \in Gen /\ wake' \in [Gen -> BOOLEAN]
    BY <1>1 DEF StartBegin, TypeOK, Gen
  <2> QED BY <1>1, <2>1, <2>2 DEF StartBegin, TypeOK, env
<1>2. CASE \E g \in Run : StartList(g)
  <2> PICK g \in Run : StartList(g)
    BY <1>2
  <2>1. starter' \in [Run -> StarterType]
    BY DEF StartList, TypeOK, StarterType
  <2> QED BY <2>1 DEF StartList, TypeOK, env, chans, sched
<1>3. CASE \E g \in Run : StartLoad(g)
  <2> PICK g \in Run : StartLoad(g)
    BY <1>3
  <2>1. starter[g].snap \in Table
    BY DEF TypeOK, StarterType
  <2> PICK snap \in Table : snap = starter[g].snap
    BY <2>1
  <2>2. LoadEnabled(snap)
    BY DEF StartLoad
  <2>3. starter' \in [Run -> StarterType]
    BY NoRowsTyped DEF StartLoad, TypeOK, StarterType
  <2> QED BY <2>2, <2>3, LoadTyped DEF StartLoad, TypeOK, env
<1>4. CASE \E g \in Run : StartLaunch(g)
  <2> PICK g \in Run : StartLaunch(g)
    BY <1>4
  <2>1. starter' \in [Run -> StarterType]
    BY DEF StartLaunch, TypeOK, StarterType
  <2>2. loop' \in [Run -> LoopType]
    BY ZeroGen, LoopAtTyped DEF StartLaunch, TypeOK
  <2>3. syncer' \in [Run -> SyncerType]
    BY ZeroGen, NoRowsTyped, SyncAtTyped DEF StartLaunch, TypeOK
  <2> QED BY <2>1, <2>2, <2>3 DEF StartLaunch, TypeOK, env, chans, sched
<1>5. CASE StopBegin
  BY <1>5 DEF StopBegin, TypeOK, env, sched
<1>6. CASE \E g \in Gen : StopReturn(g)
  BY <1>6 DEF StopReturn, TypeOK, env, chans, sched
<1> QED BY <1>1, <1>2, <1>3, <1>4, <1>5, <1>6 DEF Lifecycle

\* Peeking and popping keep the heap's type.
LEMMA HeapTyped ==
    ASSUME TypeInv, NEW t \in Task
    PROVE  /\ Peeked \in [Task -> Int \cup {Out}]
           /\ Popped(t) \in [Task -> Int \cup {Out}]
BY DEF Peeked, Popped, TypeInv, TypeOK

LEMMA TypeLoop ==
    ASSUME TypeInv, NEW g \in Run, LoopStep(g)
    PROVE  TypeInv'
<1> USE DEF TypeInv, ConfKnown
<1>1. ASSUME NEW timer \in Nat \cup {Out}, LoopWait(g, timer) PROVE TypeInv'
  <2>1. loop' \in [Run -> LoopType]
    BY <1>1, ZeroGen, LoopAtTyped DEF LoopWait, TypeOK
  <2>2. heap' \in [Task -> Int \cup {Out}]
    BY <1>1 DEF LoopWait, TypeOK, Peeked
  <2> QED BY <1>1, <2>1, <2>2 DEF LoopWait, TypeOK, env, chans
<1>2. CASE LoopEmpty(g)
  BY <1>1, <1>2 DEF LoopEmpty
<1>3. CASE LoopDelay(g)
  <2> PICK t \in Task : Root(t) /\ heap[t] > 0 /\ LoopWait(g, heap[t])
    BY <1>3 DEF LoopDelay
  <2>1. heap[t] \in Nat
    BY DEF Root, Ready, Queued, TypeOK
  <2> PICK n \in Nat : n = heap[t]
    BY <2>1
  <2> QED BY <1>1
<1>4. CASE LoopFull(g)
  BY <1>1, <1>4 DEF LoopFull
<1>5. CASE LoopPop(g)
  <2> PICK t \in Task : heap' = Popped(t) /\ loop' = [loop EXCEPT ![g] = LoopAt("dispatch", t, 0, Out)]
    BY <1>5 DEF LoopPop
  <2>1. loop' \in [Run -> LoopType]
    BY ZeroGen, LoopAtTyped DEF TypeOK
  <2>2. heap' \in [Task -> Int \cup {Out}]
    BY HeapTyped
  <2> QED BY <1>5, <2>1, <2>2 DEF LoopPop, TypeOK, env, chans
<1>6. CASE LoopDispatch(g)
  <2>1. loop[g].task \in Task \cup {Idle}
    BY DEF TypeOK, LoopType
  <2>3. loop' \in [Run -> LoopType]
    BY <1>6, ZeroGen, LoopAtTyped DEF LoopDispatch, TypeOK
  <2>2. worker' \in [Worker -> Task \cup {Idle}]
    BY <1>6, <2>1 DEF LoopDispatch, TypeOK
  <2> QED BY <1>6, <2>2, <2>3 DEF LoopDispatch, TypeOK, env, chans, sched
<1>7. CASE LoopCheck(g)
  <2>1. loop' \in [Run -> LoopType]
    BY <1>7, ZeroGen, LoopAtTyped DEF LoopCheck, TypeOK
  <2> QED BY <1>7, <2>1 DEF LoopCheck, TypeOK, env, chans, sched
<1>8. CASE LoopArm(g)
  <2>2. loop[g].timer \in Nat \cup {Out} /\ gen \in Gen
    BY DEF TypeOK, LoopType
  <2>1. loop' \in [Run -> LoopType]
    BY <1>8, <2>2, LoopAtTyped DEF LoopArm, TypeOK
  <2> QED BY <1>8, <2>1 DEF LoopArm, TypeOK, env, chans, sched
<1>9. CASE LoopStop(g)
  <2>1. loop' \in [Run -> LoopType]
    BY <1>9, ZeroGen, LoopAtTyped DEF LoopStop, TypeOK
  <2> QED BY <1>9, <2>1 DEF LoopStop, TypeOK, env, chans, sched
<1>10. CASE LoopWake(g)
  <2>1. loop' \in [Run -> LoopType]
    BY <1>10, ZeroGen, LoopAtTyped DEF LoopWake, TypeOK
  <2>2. wake' \in [Gen -> BOOLEAN]
    BY <1>10 DEF LoopWake, TypeOK
  <2> QED BY <1>10, <2>1, <2>2 DEF LoopWake, TypeOK, env, sched
<1>11. CASE LoopTimer(g)
  <2>1. loop' \in [Run -> LoopType]
    BY <1>11, ZeroGen, LoopAtTyped DEF LoopTimer, TypeOK
  <2> QED BY <1>11, <2>1 DEF LoopTimer, TypeOK, env, chans, sched
<1> QED BY <1>2, <1>3, <1>4, <1>5, <1>6, <1>7, <1>8, <1>9, <1>10, <1>11 DEF LoopStep

LEMMA TypeSync ==
    ASSUME TypeInv, NEW g \in Run, SyncStep(g)
    PROVE  TypeInv'
<1> USE DEF TypeInv, ConfKnown
<1>1. CASE SyncArm(g) \/ SyncStop(g) \/ SyncList(g) \/ SyncListFails(g)
  <2>1. syncer' \in [Run -> SyncerType]
    BY <1>1, ZeroGen, NoRowsTyped, SyncAtTyped
    DEF SyncArm, SyncStop, SyncList, SyncListFails, TypeOK
  <2> QED BY <1>1, <2>1
       DEF SyncArm, SyncStop, SyncList, SyncListFails, TypeOK, env, chans, sched
<1>2. CASE SyncDeviceStatus(g)
  <2>1. syncer[g].snap \in Table
    BY DEF TypeOK, SyncerType
  <2> PICK snap \in Table : snap = syncer[g].snap
    BY <2>1
  <2>2. SyncApply(snap)
    BY <1>2 DEF SyncDeviceStatus
  <2>3. syncer' \in [Run -> SyncerType]
    BY <1>2, ZeroGen, NoRowsTyped, SyncAtTyped DEF SyncDeviceStatus, TypeOK
  <2> QED BY <1>2, <2>2, <2>3, SyncTyped DEF SyncDeviceStatus, TypeOK, env
<1> QED BY <1>1, <1>2 DEF SyncStep

LEMMA TypeOther ==
    ASSUME TypeInv,
           (\E w \in Worker : Finish(w)) \/ SetMaxConcurrentCollects \/ EditDevice \/ Tick
    PROVE  TypeInv'
<1> USE DEF TypeInv, ConfKnown
<1>1. CASE \E w \in Worker : Finish(w)
  <2> PICK w \in Worker : Finish(w)
    BY <1>1
  <2>1. worker[w] \in Task
    BY DEF Finish, TypeOK
  <2>2. heap' \in [Task -> Int \cup {Out}]
    BY <2>1 DEF Finish, Requeue, Current, TypeOK, Task
  <2>3. active' \in Nat /\ wake' \in [Gen -> BOOLEAN] /\ worker' \in [Worker -> Task \cup {Idle}]
    BY DEF Finish, Release, Notify, TypeOK
  <2> QED BY <2>2, <2>3 DEF Finish, TypeOK, env
<1>2. CASE SetMaxConcurrentCollects
  BY <1>2 DEF SetMaxConcurrentCollects, Limits, Notify, TypeOK, env, procs
<1>3. CASE EditDevice
  <2>1. db' \in Table /\ edits' \in Nat
    BY <1>3 DEF EditDevice, TypeOK, Table
  <2> QED BY <1>3, <2>1 DEF EditDevice, TypeOK, chans, sched, procs
<1>4. CASE Tick
  <2>1. heap' \in [Task -> Int \cup {Out}]
    BY <1>4 DEF Tick, Older, TypeOK
  <2>2. loop' \in [Run -> LoopType]
    <3>1. ASSUME NEW g \in Run
          PROVE  LoopAt(loop[g].pc, loop[g].task, loop[g].ch, Elapsed(loop[g].timer)) \in LoopType
      <4>1. /\ loop[g].pc \in {"none", "top", "dispatch", "check", "arm", "blocked", "done"}
            /\ loop[g].task \in Task \cup {Idle} /\ loop[g].ch \in Gen
            /\ loop[g].timer \in Nat \cup {Out}
        BY DEF TypeOK, LoopType
      <4>2. Elapsed(loop[g].timer) \in Nat \cup {Out}
        BY <4>1 DEF Elapsed
      <4> QED BY <4>1, <4>2, LoopAtTyped
    <3> QED BY <1>4, <3>1 DEF Tick
  <2> QED BY <1>4, <2>1, <2>2 DEF Tick, TypeOK, env, chans
<1> QED BY <1>1, <1>2, <1>3, <1>4

LEMMA TypeStep ==
    ASSUME TypeInv, [Next]_vars
    PROVE  TypeInv'
<1>1. CASE UNCHANGED vars
  BY <1>1 DEF vars, TypeInv, TypeOK, ConfKnown
<1> QED BY <1>1, TypeLifecycle, TypeLoop, TypeSync, TypeOther DEF Next

\* Every field keeps its type, through any number of overlapping Start and
\* Stop calls and stale device lists.
THEOREM TypeCorrect == Spec => []TypeOK
<1>1. Init => TypeInv
  BY TypeInit
<1>2. TypeInv /\ [Next]_vars => TypeInv'
  BY TypeStep
<1>3. TypeInv => TypeOK
  BY DEF TypeInv
<1> QED BY <1>1, <1>2, <1>3, PTL DEF Spec

-----------------------------------------------------------------------------
(* Where the tasks are.                                                     *)

\* Between the pop and the go statement the loop holds a task.
DispatchHasTask == \A g \in Run : loop[g].pc = "dispatch" => loop[g].task \in Task

\* The three facts need each other: a pushed task must not already be queued
\* (CollectedOnce, HeapHoldsCurrentOnly), and a task that leaves one place
\* must enter another (NoTaskLost).
Placement == HeapHoldsCurrentOnly /\ CollectedOnce /\ NoTaskLost /\ DispatchHasTask

\* A step that moves no task.
SamePlace ==
    /\ tasks' = tasks /\ worker' = worker
    /\ \A t \in Task : heap'[t] = Out <=> heap[t] = Out
    /\ \A g \in Run : loop'[g].pc = "dispatch" <=> loop[g].pc = "dispatch"
    /\ \A g \in Run : loop[g].pc = "dispatch" => loop'[g].task = loop[g].task

LEMMA SamePlaceKeeps ==
    ASSUME Placement, SamePlace
    PROVE  Placement'
<1>1. \A t : \A g \in Run : Dispatching(g, t)' <=> Dispatching(g, t)
  BY DEF SamePlace, Dispatching
<1>2. \A t \in Task : Held(t)' <=> Held(t)
  BY <1>1 DEF SamePlace, Held
<1>3. Queued' = Queued /\ \A t \in Task : Current(t)' <=> Current(t)
  BY DEF SamePlace, Queued, Current
<1>4. HeapHoldsCurrentOnly'
  BY <1>2, <1>3 DEF Placement, HeapHoldsCurrentOnly, Queued
<1>5. CollectedOnce'
  BY <1>1 DEF Placement, CollectedOnce, SamePlace
<1>6. NoTaskLost'
  <2> SUFFICES ASSUME NEW d \in Device, tasks[d] # NoTask
               PROVE  <<d, tasks[d]>> \in Queued \/ Held(<<d, tasks[d]>>)'
    BY <1>3 DEF NoTaskLost, SamePlace
  <2> QED BY <1>1 DEF Placement, NoTaskLost, SamePlace, Held
<1>7. DispatchHasTask'
  BY DEF Placement, DispatchHasTask, SamePlace
<1> QED BY <1>4, <1>5, <1>6, <1>7 DEF Placement

LEMMA PlaceInit == Init => Placement
<1> SUFFICES ASSUME Init PROVE Placement
  OBVIOUS
<1>1. \A g \in Run : loop[g].pc # "dispatch"
  BY DEF Init, LoopAt
<1> QED BY <1>1 DEF Init, Placement, HeapHoldsCurrentOnly, CollectedOnce, NoTaskLost,
                    DispatchHasTask, Queued, Dispatching

\* Applying a device list: added tasks get an address nothing refers to and
\* enter the heap, removed ones leave it, the others stay where they are.
LEMMA ApplyPlaces ==
    ASSUME TypeInv, Placement, NEW snap \in Table, NEW A \in SUBSET Device,
           NEW U \in SUBSET Device, NEW R \in SUBSET Device,
           \A d \in A : snap[d] \in Config /\ tasks[d] = NoTask,
           \A d \in U : snap[d] \in Config,
           \A d \in R : d \notin A,
           \A d \in A : HasFree(d),
           tasks' = TasksAfter(A, R), heap' = HeapAfter(snap, A, U, R),
           worker' = worker, loop' = loop
    PROVE  Placement'
<1>1. \A t : \A g \in Run : Dispatching(g, t)' <=> Dispatching(g, t)
  BY DEF Dispatching
<1>2. \A t : Held(t)' <=> Held(t)
  BY <1>1 DEF Held
<1>3. \A d \in A : FreeSlot(d) \in Slot /\ ~Held(<<d, FreeSlot(d)>>)
  BY FreeSlotIsFree DEF Live
<1>4. \A t \in Task : t[1] \in Device /\ t[2] \in Slot /\ t = <<t[1], t[2]>>
  BY DEF Task
<1>5. \A t \in Task : t[1] \in A => heap[t] = Out
  BY <1>4 DEF Placement, HeapHoldsCurrentOnly, Queued, Current
<1>6. \A t \in Task : heap'[t] # Out <=>
          IF t[1] \in A THEN t[2] = FreeSlot(t[1])
          ELSE heap[t] # Out /\ t[1] \notin R
  <2> SUFFICES ASSUME NEW t \in Task
               PROVE  heap'[t] # Out <=>
                        IF t[1] \in A THEN t[2] = FreeSlot(t[1])
                        ELSE heap[t] # Out /\ t[1] \notin R
    OBVIOUS
  <2>1. heap'[t] = IF t[1] \in A
        THEN IF t[2] = FreeSlot(t[1]) THEN Interval[snap[t[1]]] ELSE heap[t]
        ELSE IF heap[t] = Out THEN Out
        ELSE IF t[1] \in R /\ Current(t) THEN Out
        ELSE IF t[1] \in U /\ Current(t) THEN Interval[snap[t[1]]]
        ELSE heap[t]
    BY DEF HeapAfter
  <2>2. \A d \in A \cup U : Interval[snap[d]] # Out
    OBVIOUS
  <2>3. heap[t] # Out => Current(t)
    BY DEF Placement, HeapHoldsCurrentOnly, Queued
  <2> QED BY <1>5, <2>1, <2>2, <2>3
<1>7. \A d \in Device : tasks'[d] = IF d \in A THEN FreeSlot(d)
                                    ELSE IF d \in R THEN NoTask ELSE tasks[d]
  BY DEF TasksAfter
<1>8. HeapHoldsCurrentOnly'
  <2> SUFFICES ASSUME NEW t \in Task, heap'[t] # Out
               PROVE  tasks'[t[1]] = t[2] /\ ~Held(t)
    BY <1>2 DEF HeapHoldsCurrentOnly, Queued, Current
  <2>1. CASE t[1] \in A
    BY <1>3, <1>4, <1>6, <1>7, <2>1
  <2>2. CASE t[1] \notin A
    BY <1>4, <1>6, <1>7, <2>2 DEF Placement, HeapHoldsCurrentOnly, Queued, Current
  <2> QED BY <2>1, <2>2
<1>9. CollectedOnce'
  BY <1>1 DEF Placement, CollectedOnce
<1>10. NoTaskLost'
  <2> SUFFICES ASSUME NEW d \in Device, tasks'[d] # NoTask
               PROVE  <<d, tasks'[d]>> \in Queued' \/ Held(<<d, tasks'[d]>>)
    BY <1>2 DEF NoTaskLost
  <2>0. tasks[d] \in Slot \cup {NoTask}
    BY DEF TypeInv, TypeOK
  <2>1. tasks'[d] \in Slot
    BY <1>3, <1>7, <2>0
  <2>2. <<d, tasks'[d]>> \in Task
    BY <2>1 DEF Task
  <2>3. CASE d \in A
    BY <1>6, <1>7, <2>2, <2>3 DEF Queued
  <2>4. CASE d \notin A
    <3>1. tasks'[d] = tasks[d] /\ d \notin R
      BY <1>7, <2>4
    <3>2. <<d, tasks[d]>> \in Queued \/ Held(<<d, tasks[d]>>)
      BY <3>1 DEF Placement, NoTaskLost
    <3> QED BY <1>6, <2>2, <2>4, <3>1, <3>2 DEF Queued
  <2> QED BY <2>3, <2>4
<1>11. DispatchHasTask'
  BY DEF Placement, DispatchHasTask
<1> QED BY <1>8, <1>9, <1>10, <1>11 DEF Placement

\* A loop exists only once the Start call that launches it has done so.
Unlaunched ==
    \A g \in Run : /\ g > gen => starter[g].pc = "none"
                   /\ starter[g].pc # "done" => loop[g].pc = "none"

LEMMA UnlaunchedInit == Init => Unlaunched
BY DEF Init, Unlaunched, LoopAt

LEMMA UnlaunchedStep ==
    ASSUME TypeInv, Unlaunched, [Next]_vars
    PROVE  Unlaunched'
<1>1. ASSUME starter' = starter, gen' = gen,
             \A g \in Run : loop'[g].pc = "none" <=> loop[g].pc = "none"
      PROVE  Unlaunched'
  BY <1>1 DEF Unlaunched
<1>2. ASSUME starter' = starter, gen' = gen, NEW g \in Run, loop[g].pc # "none",
             NEW r, r.pc # "none", loop' = [loop EXCEPT ![g] = r]
      PROVE  Unlaunched'
  BY <1>1, <1>2 DEF TypeInv, TypeOK
<1>3. CASE Lifecycle
  <2>1. CASE StartBegin
    BY <2>1 DEF StartBegin, Unlaunched, TypeInv, TypeOK, StarterType, Gen, Run
  <2>2. CASE \E g \in Run : StartList(g) \/ StartLoad(g)
    <3> PICK g \in Run : StartList(g) \/ StartLoad(g)
      BY <2>2
    <3>1. loop' = loop /\ gen' = gen /\ starter[g].pc \in {"list", "load"}
      BY DEF StartList, StartLoad, chans
    <3>2. \A h \in Run : starter'[h].pc = IF h = g THEN starter'[g].pc ELSE starter[h].pc
      BY DEF StartList, StartLoad, TypeInv, TypeOK, StarterType
    <3> QED BY <3>1, <3>2 DEF Unlaunched
  <2>3. CASE \E g \in Run : StartLaunch(g)
    <3> PICK g \in Run : StartLaunch(g)
      BY <2>3
    <3>1. gen' = gen /\ starter[g].pc = "launch"
      BY DEF StartLaunch, chans
    <3>2. \A h \in Run : starter'[h].pc = IF h = g THEN "done" ELSE starter[h].pc
      BY DEF StartLaunch, TypeInv, TypeOK, StarterType
    <3>3. \A h \in Run : h # g => loop'[h] = loop[h]
      BY DEF StartLaunch, TypeInv, TypeOK
    <3> QED BY <3>1, <3>2, <3>3 DEF Unlaunched
  <2>4. CASE StopBegin \/ \E g \in Gen : StopReturn(g)
    BY <1>1, <2>4 DEF StopBegin, StopReturn, chans
  <2> QED BY <1>3, <2>1, <2>2, <2>3, <2>4 DEF Lifecycle
<1>4. ASSUME NEW g \in Run, LoopStep(g) PROVE Unlaunched'
  <2>1. loop[g].pc # "none" /\ starter' = starter /\ gen' = gen
    BY <1>4 DEF LoopStep, LoopEmpty, LoopDelay, LoopFull, LoopPop, LoopDispatch, LoopCheck,
                LoopArm, LoopStop, LoopWake, LoopTimer, LoopWait, chans
  <2>2. \E pc \in {"top", "dispatch", "check", "arm", "blocked", "done"} :
           \E t, ch, timer : loop' = [loop EXCEPT ![g] = LoopAt(pc, t, ch, timer)]
    BY <1>4 DEF LoopStep, LoopEmpty, LoopDelay, LoopFull, LoopPop, LoopDispatch, LoopCheck,
                LoopArm, LoopStop, LoopWake, LoopTimer, LoopWait
  <2> QED BY <1>2, <2>1, <2>2 DEF LoopAt
<1>5. ASSUME NEW g \in Run, SyncStep(g) PROVE Unlaunched'
  BY <1>1, <1>5 DEF SyncStep, SyncArm, SyncStop, SyncList, SyncListFails, SyncDeviceStatus, chans
<1>6. CASE (\E w \in Worker : Finish(w)) \/ SetMaxConcurrentCollects \/ EditDevice
  BY <1>1, <1>6 DEF Finish, SetMaxConcurrentCollects, EditDevice, procs, chans
<1>7. CASE Tick
  <2>1. \A g \in Run : loop'[g].pc = loop[g].pc
    BY <1>7 DEF Tick, LoopAt
  <2> QED BY <1>1, <1>7, <2>1 DEF Tick, chans
<1>8. CASE UNCHANGED vars
  BY <1>1, <1>8 DEF vars
<1> QED BY <1>3, <1>4, <1>5, <1>6, <1>7, <1>8 DEF Next

LEMMA PlaceLifecycle ==
    ASSUME TypeInv, Placement, Unlaunched, Lifecycle
    PROVE  Placement'
<1>1. CASE StartBegin
  <2>1. \A d \in Device : tasks'[d] = NoTask
    BY <1>1 DEF StartBegin
  <2>2. \A t \in Task : heap'[t] = Out
    BY <1>1 DEF StartBegin
  <2>3. worker' = worker /\ loop' = loop
    BY <1>1 DEF StartBegin
  <2> QED BY <2>1, <2>2, <2>3 DEF Placement, HeapHoldsCurrentOnly, CollectedOnce, NoTaskLost,
                                  DispatchHasTask, Queued, Dispatching
<1>2. CASE \E g \in Run : StartList(g)
  BY <1>2, SamePlaceKeeps DEF StartList, SamePlace, sched
<1>3. CASE \E g \in Run : StartLoad(g)
  <2> PICK g \in Run : StartLoad(g)
    BY <1>3
  <2>1. starter[g].snap \in Table
    BY DEF TypeInv, TypeOK, StarterType
  <2> PICK snap \in Table : snap = starter[g].snap
    BY <2>1
  <2> PICK A \in SUBSET Device : A = Adds(snap)
    BY DEF Adds
  <2> PICK U \in SUBSET Device : U = Updates(snap)
    BY DEF Updates
  <2>2. /\ \A d \in A : HasFree(d)
        /\ tasks' = TasksAfter(A, {}) /\ heap' = HeapAfter(snap, A, U, {})
    BY DEF StartLoad, LoadEnabled, ApplyTasks
  <2>3. worker' = worker /\ loop' = loop
    BY DEF StartLoad
  <2>4. (\A d \in A : snap[d] \in Config /\ tasks[d] = NoTask) /\ (\A d \in U : snap[d] \in Config)
    BY DEF Adds, Updates
  <2> QED BY <2>2, <2>3, <2>4, ApplyPlaces
<1>4. CASE \E g \in Run : StartLaunch(g)
  <2> PICK g \in Run : StartLaunch(g)
    BY <1>4
  <2>1. loop' = [loop EXCEPT ![g] = LoopAt("top", Idle, 0, Out)] /\ loop[g].pc # "dispatch"
    BY DEF StartLaunch, Unlaunched
  <2>2. /\ \A h \in Run : loop'[h].pc = "dispatch" <=> loop[h].pc = "dispatch"
        /\ \A h \in Run : loop[h].pc = "dispatch" => loop'[h].task = loop[h].task
    BY <2>1 DEF LoopAt, TypeInv, TypeOK
  <2> QED BY <2>2, SamePlaceKeeps DEF StartLaunch, SamePlace, sched
<1>5. CASE StopBegin
  BY <1>5, SamePlaceKeeps DEF StopBegin, SamePlace, sched
<1>6. CASE \E g \in Gen : StopReturn(g)
  BY <1>6, SamePlaceKeeps DEF StopReturn, SamePlace, sched
<1> QED BY <1>1, <1>2, <1>3, <1>4, <1>5, <1>6 DEF Lifecycle

\* A loop that is not about to dispatch, and will not be, moves no task.
LEMMA LoopMovesNothing ==
    ASSUME TypeInv, Placement, NEW g \in Run, loop[g].pc # "dispatch",
           NEW pc, pc # "dispatch", NEW t, NEW ch, NEW timer,
           loop' = [loop EXCEPT ![g] = LoopAt(pc, t, ch, timer)],
           tasks' = tasks, worker' = worker, heap' \in {heap, Peeked}
    PROVE  Placement'
<1>1. /\ \A h \in Run : loop'[h].pc = "dispatch" <=> loop[h].pc = "dispatch"
      /\ \A h \in Run : loop[h].pc = "dispatch" => loop'[h].task = loop[h].task
  BY DEF LoopAt, TypeInv, TypeOK
<1>2. Queued \ Ready = {}
  BY DEF Placement, HeapHoldsCurrentOnly, Ready
<1>3. \A u \in Task : Peeked[u] = Out <=> heap[u] = Out
  BY <1>2 DEF Peeked
<1> QED BY <1>1, <1>3, SamePlaceKeeps DEF SamePlace

LEMMA PlaceLoop ==
    ASSUME TypeInv, Placement, NEW g \in Run, LoopStep(g)
    PROVE  Placement'
<1>1. ASSUME NEW timer, LoopWait(g, timer), loop[g].pc = "top" PROVE Placement'
  BY <1>1, LoopMovesNothing DEF LoopWait
<1>2. CASE LoopEmpty(g) \/ LoopDelay(g) \/ LoopFull(g)
  BY <1>1, <1>2 DEF LoopEmpty, LoopDelay, LoopFull
<1>3. CASE LoopCheck(g) \/ LoopArm(g) \/ LoopStop(g) \/ LoopWake(g) \/ LoopTimer(g)
  BY <1>3, LoopMovesNothing DEF LoopCheck, LoopArm, LoopStop, LoopWake, LoopTimer, sched
<1>4. CASE LoopPop(g)
  <2> PICK t \in Task : /\ Root(t) /\ heap' = Popped(t)
                        /\ loop' = [loop EXCEPT ![g] = LoopAt("dispatch", t, 0, Out)]
    BY <1>4 DEF LoopPop
  <2>1. loop[g].pc = "top" /\ tasks' = tasks /\ worker' = worker
    BY <1>4 DEF LoopPop
  <2>2. Queued \ Ready = {}
    BY DEF Placement, HeapHoldsCurrentOnly, Ready
  <2>3. \A u \in Task : heap'[u] = IF u = t THEN Out ELSE heap[u]
    BY <2>2 DEF Popped, Peeked
  <2>4. t \in Queued /\ ~Held(t)
    BY DEF Root, Ready, Placement, HeapHoldsCurrentOnly
  <2>5. \A u : \A h \in Run : Dispatching(h, u)' <=> Dispatching(h, u) \/ (h = g /\ u = t)
    BY <2>1 DEF Dispatching, LoopAt, TypeInv, TypeOK
  <2>6. \A u : Held(u)' <=> Held(u) \/ u = t
    BY <2>1, <2>5 DEF Held
  <2>7. HeapHoldsCurrentOnly'
    BY <2>1, <2>3, <2>6 DEF Placement, HeapHoldsCurrentOnly, Queued, Current
  <2>8. CollectedOnce'
    BY <2>1, <2>4, <2>5 DEF Placement, CollectedOnce, Held
  <2>9. NoTaskLost'
    BY <2>1, <2>3, <2>6 DEF Placement, NoTaskLost, Queued
  <2>10. DispatchHasTask'
    BY DEF Placement, DispatchHasTask, LoopAt, TypeInv, TypeOK
  <2> QED BY <2>7, <2>8, <2>9, <2>10 DEF Placement
<1>5. CASE LoopDispatch(g)
  <2> PICK w \in Worker : worker[w] = Idle /\ worker' = [worker EXCEPT ![w] = loop[g].task]
    BY <1>5 DEF LoopDispatch
  <2> PICK t \in Task : t = loop[g].task
    BY <1>5 DEF LoopDispatch, Placement, DispatchHasTask
  <2>1. tasks' = tasks /\ heap' = heap /\ Dispatching(g, t) /\ t # Idle
    BY <1>5 DEF LoopDispatch, sched, Dispatching, Task
  <2>2. \A u : \A h \in Run : Dispatching(h, u)' <=> Dispatching(h, u) /\ h # g
    BY <1>5 DEF LoopDispatch, Dispatching, LoopAt, TypeInv, TypeOK
  <2>3. \A v \in Worker : worker'[v] = IF v = w THEN t ELSE worker[v]
    BY DEF TypeInv, TypeOK
  <2>4. \A u \in Task : Held(u)' <=> Held(u)
    BY <2>1, <2>2, <2>3 DEF Held, Dispatching, Task
  <2>5. HeapHoldsCurrentOnly'
    BY <2>1, <2>4 DEF Placement, HeapHoldsCurrentOnly, Queued, Current
  <2>6. CollectedOnce'
    BY <2>1, <2>2, <2>3 DEF Placement, CollectedOnce
  <2>7. NoTaskLost'
    <3>1. ASSUME NEW d \in Device, tasks[d] # NoTask
          PROVE  <<d, tasks[d]>> \in Task /\ (<<d, tasks[d]>> \in Queued \/ Held(<<d, tasks[d]>>))
      BY <3>1 DEF Task, TypeInv, TypeOK, Placement, NoTaskLost
    <3>2. Queued' = Queued
      BY <2>1 DEF Queued
    <3> QED BY <2>1, <2>4, <3>1, <3>2 DEF NoTaskLost, Held, Dispatching
  <2>8. DispatchHasTask'
    BY <1>5 DEF Placement, DispatchHasTask, LoopDispatch, LoopAt, TypeInv, TypeOK
  <2> QED BY <2>5, <2>6, <2>7, <2>8 DEF Placement
<1> QED BY <1>2, <1>3, <1>4, <1>5 DEF LoopStep

LEMMA PlaceFinish ==
    ASSUME TypeInv, Placement, NEW w \in Worker, Finish(w)
    PROVE  Placement'
<1> PICK t \in Task : t = worker[w]
  BY DEF Finish, TypeInv, TypeOK
<1>1. tasks' = tasks /\ loop' = loop /\ heap' = Requeue(t) /\ t # Idle
  BY DEF Finish, Task
<1>2. \A v \in Worker : worker'[v] = IF v = w THEN Idle ELSE worker[v]
  BY DEF Finish, TypeInv, TypeOK
<1>3. \A u : \A h \in Run : Dispatching(h, u)' <=> Dispatching(h, u)
  BY <1>1 DEF Dispatching
<1>4. \A u \in Task : Held(u)' <=> Held(u) /\ u # t
  BY <1>1, <1>2, <1>3 DEF Held, Placement, CollectedOnce, Dispatching, Task
<1>5. \A u \in Task : heap'[u] # Out <=> heap[u] # Out \/ (u = t /\ Current(t))
  <2>1. CASE Current(t)
    <3>1. Interval[conf[t[1]]] \in Nat
      BY <2>1 DEF Current, Task, TypeInv, TypeOK, ConfKnown
    <3> QED BY <1>1, <2>1, <3>1 DEF Requeue, TypeInv, TypeOK
  <2>2. CASE ~Current(t)
    BY <1>1, <2>2 DEF Requeue
  <2> QED BY <2>1, <2>2
<1>6. HeapHoldsCurrentOnly'
  BY <1>1, <1>4, <1>5 DEF Placement, HeapHoldsCurrentOnly, Queued, Current
<1>7. CollectedOnce'
  BY <1>1, <1>2, <1>3 DEF Placement, CollectedOnce, DispatchHasTask, Dispatching, Task
<1>8. NoTaskLost'
  <2>1. ASSUME NEW d \in Device, tasks[d] # NoTask
        PROVE  /\ <<d, tasks[d]>> \in Task
               /\ <<d, tasks[d]>> \in Queued \/ Held(<<d, tasks[d]>>)
               /\ Current(<<d, tasks[d]>>)
    BY <2>1 DEF Task, Current, TypeInv, TypeOK, Placement, NoTaskLost
  <2>2. \A d \in Device : tasks[d] # NoTask =>
            LET u == <<d, tasks[d]>>
            IN  heap'[u] # Out \/ (u \in Task /\ Held(u) /\ u # t)
    BY <1>5, <2>1 DEF Queued
  <2>3. \A u \in Task : heap'[u] # Out => u \in Queued'
    BY DEF Queued
  <2> QED BY <1>1, <1>4, <2>1, <2>2, <2>3 DEF NoTaskLost, Held, Dispatching
<1>9. DispatchHasTask'
  BY <1>1 DEF Placement, DispatchHasTask
<1> QED BY <1>6, <1>7, <1>8, <1>9 DEF Placement

LEMMA PlaceStep ==
    ASSUME TypeInv, Placement, Unlaunched, [Next]_vars
    PROVE  Placement'
<1>1. ASSUME NEW g \in Run, SyncStep(g) PROVE Placement'
  <2>1. CASE SyncArm(g) \/ SyncStop(g) \/ SyncList(g) \/ SyncListFails(g)
    BY <2>1, SamePlaceKeeps DEF SyncArm, SyncStop, SyncList, SyncListFails, SamePlace, sched
  <2>2. CASE SyncDeviceStatus(g)
    <3>1. syncer[g].snap \in Table
      BY DEF TypeInv, TypeOK, SyncerType
    <3> PICK snap \in Table : snap = syncer[g].snap
      BY <3>1
    <3> PICK A \in SUBSET Device : A = Adds(snap)
      BY DEF Adds
    <3> PICK U \in SUBSET Device : U = Updates(snap)
      BY DEF Updates
    <3> PICK R \in SUBSET Device : R = Removes(snap)
      BY DEF Removes
    <3>2. /\ \A d \in A : HasFree(d)
          /\ tasks' = TasksAfter(A, R) /\ heap' = HeapAfter(snap, A, U, R)
      BY <2>2 DEF SyncDeviceStatus, SyncApply, ApplyTasks
    <3>3. worker' = worker /\ loop' = loop
      BY <2>2 DEF SyncDeviceStatus
    <3>4. /\ \A d \in A : snap[d] \in Config /\ tasks[d] = NoTask
          /\ \A d \in U : snap[d] \in Config
          /\ \A d \in R : d \notin A
      BY DEF Adds, Updates, Removes
    <3> QED BY <3>2, <3>3, <3>4, ApplyPlaces
  <2> QED BY <1>1, <2>1, <2>2 DEF SyncStep
<1>2. CASE SetMaxConcurrentCollects \/ EditDevice
  BY <1>2, SamePlaceKeeps DEF SetMaxConcurrentCollects, EditDevice, SamePlace, sched, procs
<1>3. CASE Tick
  <2>1. \A g \in Run : loop'[g].pc = loop[g].pc /\ loop'[g].task = loop[g].task
    BY <1>3 DEF Tick, LoopAt
  <2>2. \A t \in Task : heap'[t] = Out <=> heap[t] = Out
    BY <1>3 DEF Tick, Older, TypeInv, TypeOK
  <2> QED BY <1>3, <2>1, <2>2, SamePlaceKeeps DEF Tick, SamePlace
<1>4. CASE UNCHANGED vars
  BY <1>4, SamePlaceKeeps DEF vars, SamePlace
<1> QED BY <1>1, <1>2, <1>3, <1>4, PlaceLifecycle, PlaceLoop, PlaceFinish DEF Next

\* The inductive invariant of the scheduler.
SchedInv == TypeInv /\ Unlaunched /\ Placement

LEMMA SchedInvariant == Spec => []SchedInv
<1>1. Init => SchedInv
  BY TypeInit, UnlaunchedInit, PlaceInit DEF SchedInv
<1>2. SchedInv /\ [Next]_vars => SchedInv'
  BY TypeStep, UnlaunchedStep, PlaceStep DEF SchedInv
<1> QED BY <1>1, <1>2, PTL DEF Spec

\* The heap never holds a stale task or one that is being collected: the
\* identity tests of executeLoop are a second line of defence only.
THEOREM HeapSound == Spec => []HeapHoldsCurrentOnly
<1>1. SchedInv => HeapHoldsCurrentOnly
  BY DEF SchedInv, Placement
<1> QED BY <1>1, SchedInvariant, PTL

\* No task object is ever collected by two goroutines at once.
THEOREM SingleCollector == Spec => []CollectedOnce
<1>1. SchedInv => CollectedOnce
  BY DEF SchedInv, Placement
<1> QED BY <1>1, SchedInvariant, PTL

\* No enabled device silently drops out of the schedule, even when a restart
\* overlaps a Stop that is still waiting.
THEOREM NothingLost == Spec => []NoTaskLost
<1>1. SchedInv => NoTaskLost
  BY DEF SchedInv, Placement
<1> QED BY <1>1, SchedInvariant, PTL

-----------------------------------------------------------------------------
(* Slots.                                                                   *)

\* The two kinds of task activeCollects counts.
DispatchingLoops == {g \in Run : loop[g].pc = "dispatch"}

LEMMA CountsFinite ==
    ASSUME IsFiniteSet(Worker)
    PROVE  /\ IsFiniteSet(Busy) /\ IsFiniteSet(DispatchingLoops)
           /\ Cardinality(Busy) \in Nat /\ Cardinality(DispatchingLoops) \in Nat
<1>1. IsFiniteSet(Run)
  BY FS_Interval DEF Run
<1>2. IsFiniteSet(Busy) /\ IsFiniteSet(DispatchingLoops)
  BY <1>1, FS_Subset DEF Busy, DispatchingLoops
<1> QED BY <1>2, FS_CardinalityType

\* How the next state's slots follow from this one's: never more are counted
\* than are in use, and fewer only since a Start that forgot some.
Slots ==
    /\ active <= Cardinality(Busy) + Cardinality(DispatchingLoops)
    /\ overlap # "start" => active = Cardinality(Busy) + Cardinality(DispatchingLoops)
SameSlots ==
    /\ active' = active /\ Busy' = Busy /\ DispatchingLoops' = DispatchingLoops
    /\ overlap' = "start" <=> overlap = "start"
Dispatches == Cardinality(Busy') + Cardinality(DispatchingLoops')
                > Cardinality(Busy) + Cardinality(DispatchingLoops)

LEMMA SameSlotsKeeps ==
    ASSUME IsFiniteSet(Worker), Slots, SameSlots
    PROVE  Slots' /\ ~Dispatches
BY CountsFinite DEF SameSlots, Slots, Dispatches

LEMMA SlotsLifecycle ==
    ASSUME IsFiniteSet(Worker), TypeInv, Unlaunched, Slots, Lifecycle
    PROVE  Slots' /\ ~Dispatches
<1>1. CASE StartBegin
  <2>1. Busy' = Busy /\ DispatchingLoops' = DispatchingLoops /\ active' = 0
    BY <1>1 DEF StartBegin, Busy, DispatchingLoops
  <2>2. overlap' # "start" => Busy = {} /\ DispatchingLoops = {}
    BY <1>1 DEF StartBegin, LiveLoops, DispatchingLoops
  <2> QED BY <2>1, <2>2, CountsFinite, FS_EmptySet DEF Slots, Dispatches
<1>2. CASE StopBegin \/ (\E g \in Run : StartList(g) \/ StartLoad(g)) \/ \E g \in Gen : StopReturn(g)
  <2>1. active' = active /\ loop' = loop /\ worker' = worker
    BY <1>2 DEF StopBegin, StartList, StartLoad, StopReturn, sched
  <2>2. overlap' = "start" <=> overlap = "start"
    BY <1>2 DEF StopBegin, StartList, StartLoad, StopReturn, chans
  <2> QED BY <2>1, <2>2, SameSlotsKeeps DEF SameSlots, Busy, DispatchingLoops
<1>3. CASE \E g \in Run : StartLaunch(g)
  <2> PICK g \in Run : StartLaunch(g)
    BY <1>3
  <2>1. loop[g].pc = "none" /\ loop' = [loop EXCEPT ![g] = LoopAt("top", Idle, 0, Out)]
    BY DEF StartLaunch, Unlaunched
  <2>2. DispatchingLoops' = DispatchingLoops
    BY <2>1 DEF DispatchingLoops, LoopAt, TypeInv, TypeOK
  <2>3. active' = active /\ Busy' = Busy /\ overlap' = overlap
    BY DEF StartLaunch, sched, chans, Busy
  <2> QED BY <2>2, <2>3, SameSlotsKeeps DEF SameSlots
<1> QED BY <1>1, <1>2, <1>3 DEF Lifecycle

LEMMA SlotsLoop ==
    ASSUME IsFiniteSet(Worker), TypeInv, Placement, Slots, NEW g \in Run, LoopStep(g)
    PROVE  Slots' /\ (Dispatches => active < limit)
<1>1. CASE LoopPop(g)
  <2>1. /\ g \notin DispatchingLoops /\ active' = active + 1 /\ worker' = worker
        /\ active < limit /\ overlap' = overlap
    BY <1>1 DEF LoopPop, DispatchingLoops, SlotFree, chans
  <2>2. Busy' = Busy
    BY <2>1 DEF Busy
  <2>3. DispatchingLoops' = DispatchingLoops \cup {g}
    BY <1>1 DEF LoopPop, DispatchingLoops, LoopAt, TypeInv, TypeOK
  <2>4. Cardinality(DispatchingLoops') = Cardinality(DispatchingLoops) + 1
    BY <2>1, <2>3, CountsFinite, FS_AddElement
  <2>5. active \in Nat
    BY DEF TypeInv, TypeOK
  <2> QED BY <2>1, <2>2, <2>4, <2>5, CountsFinite DEF Slots
<1>2. CASE LoopDispatch(g)
  <2> PICK w \in Worker : worker[w] = Idle /\ worker' = [worker EXCEPT ![w] = loop[g].task]
    BY <1>2 DEF LoopDispatch
  <2>1. loop[g].task \in Task /\ active' = active /\ overlap' = overlap
    BY <1>2 DEF LoopDispatch, Placement, DispatchHasTask, sched, chans
  <2>2. loop[g].task # Idle
    BY <2>1 DEF Task
  <2>3. w \notin Busy /\ Busy' = Busy \cup {w}
    BY <2>2 DEF Busy, TypeInv, TypeOK
  <2>4. Cardinality(Busy') = Cardinality(Busy) + 1
    BY <2>3, CountsFinite, FS_AddElement
  <2>5. g \in DispatchingLoops /\ DispatchingLoops' = DispatchingLoops \ {g}
    BY <1>2 DEF LoopDispatch, DispatchingLoops, LoopAt, TypeInv, TypeOK
  <2>6. Cardinality(DispatchingLoops') = Cardinality(DispatchingLoops) - 1
    BY <2>5, CountsFinite, FS_RemoveElement
  <2> QED BY <2>1, <2>4, <2>6, CountsFinite DEF Slots, Dispatches
<1>3. CASE LoopEmpty(g) \/ LoopDelay(g) \/ LoopFull(g) \/ LoopCheck(g) \/ LoopArm(g)
           \/ LoopStop(g) \/ LoopWake(g) \/ LoopTimer(g)
  <2>1. /\ active' = active /\ worker' = worker /\ loop[g].pc # "dispatch"
        /\ \A h \in Run : h # g => loop'[h] = loop[h]
        /\ loop'[g].pc # "dispatch" /\ overlap' = overlap
    BY <1>3 DEF LoopEmpty, LoopDelay, LoopFull, LoopCheck, LoopArm, LoopStop, LoopWake, LoopTimer,
                LoopWait, LoopAt, sched, chans, TypeInv, TypeOK
  <2>2. DispatchingLoops' = DispatchingLoops /\ Busy' = Busy
    BY <2>1 DEF DispatchingLoops, Busy
  <2> QED BY <2>1, <2>2, SameSlotsKeeps DEF SameSlots
<1> QED BY <1>1, <1>2, <1>3 DEF LoopStep

LEMMA SlotsStep ==
    ASSUME IsFiniteSet(Worker), TypeInv, Unlaunched, Placement, Slots, [Next]_vars
    PROVE  Slots' /\ (Dispatches => active < limit)
<1>1. ASSUME NEW g \in Run, SyncStep(g) PROVE SameSlots
  BY <1>1 DEF SyncStep, SyncArm, SyncStop, SyncList, SyncListFails, SyncDeviceStatus, sched,
              chans, SameSlots, Busy, DispatchingLoops
<1>2. ASSUME NEW w \in Worker, Finish(w) PROVE Slots' /\ ~Dispatches
  <2>1. w \in Busy /\ Busy' = Busy \ {w}
    BY <1>2 DEF Finish, Busy, TypeInv, TypeOK
  <2>2. Cardinality(Busy') = Cardinality(Busy) - 1
    BY <2>1, CountsFinite, FS_RemoveElement
  <2>3. Cardinality(Busy') \in Nat
    BY <2>1, CountsFinite, FS_Subset, FS_CardinalityType
  <2>4. active' = (IF active > 0 THEN active - 1 ELSE active) /\ active \in Nat
    BY <1>2 DEF Finish, Release, TypeInv, TypeOK
  <2>5. DispatchingLoops' = DispatchingLoops /\ overlap' = overlap
    BY <1>2 DEF Finish, DispatchingLoops
  <2> QED BY <2>2, <2>3, <2>4, <2>5, CountsFinite DEF Slots, Dispatches
<1>3. CASE SetMaxConcurrentCollects \/ EditDevice \/ UNCHANGED vars
  <2>1. active' = active /\ loop' = loop /\ worker' = worker /\ overlap' = overlap
    BY <1>3 DEF SetMaxConcurrentCollects, EditDevice, vars, procs, sched, chans
  <2> QED BY <2>1, SameSlotsKeeps DEF SameSlots, Busy, DispatchingLoops
<1>4. CASE Tick
  <2>1. \A g \in Run : loop'[g].pc = loop[g].pc
    BY <1>4 DEF Tick, LoopAt
  <2>2. DispatchingLoops' = DispatchingLoops /\ Busy' = Busy /\ active' = active /\ overlap' = overlap
    BY <1>4, <2>1 DEF Tick, DispatchingLoops, Busy, chans
  <2> QED BY <2>2, SameSlotsKeeps DEF SameSlots
<1> QED BY <1>1, <1>2, <1>3, <1>4, SameSlotsKeeps, SlotsLifecycle, SlotsLoop DEF Next

LEMMA SlotsInit == Init => Slots
<1> SUFFICES ASSUME Init PROVE Slots
  OBVIOUS
<1>1. Busy = {} /\ DispatchingLoops = {} /\ active = 0
  BY DEF Init, Busy, DispatchingLoops, LoopAt
<1> QED BY <1>1, FS_EmptySet DEF Slots

-----------------------------------------------------------------------------
(* Which goroutines there are when no calls overlapped.                     *)

Alive == LiveLoops # {} \/ LiveSyncers # {} \/ Busy # {}

\* A call of Start at work is the running one's, and goroutines are alive only
\* while the collector runs or the Stop that ends them waits.
Quiet ==
    overlap = "none" =>
        /\ \A g \in Starting : g = gen /\ running
        /\ Alive => running \/ gen \in Stopping

\* Neither the calls change nor does a goroutine come where there was none.
SameAlive ==
    /\ starter' = starter /\ stopper' = stopper /\ running' = running /\ gen' = gen
    /\ overlap' = overlap /\ (Alive' => Alive)

LEMMA SameAliveKeeps ==
    ASSUME Quiet, SameAlive
    PROVE  Quiet'
<1>1. Starting' = Starting /\ Stopping' = Stopping
  BY DEF SameAlive, Starting, Stopping
<1> QED BY <1>1 DEF SameAlive, Quiet

LEMMA QuietInit == Init => Quiet
<1> SUFFICES ASSUME Init PROVE Quiet
  OBVIOUS
<1>1. Starting = {}
  BY DEF Init, Starting
<1>2. LiveLoops = {} /\ LiveSyncers = {} /\ Busy = {}
  BY DEF Init, LiveLoops, LiveSyncers, Busy, LoopAt, SyncAt
<1> QED BY <1>1, <1>2 DEF Quiet, Alive

LEMMA QuietLifecycle ==
    ASSUME TypeInv, Quiet, Lifecycle
    PROVE  Quiet'
<1> SUFFICES ASSUME overlap' = "none"
             PROVE  /\ \A g \in Starting' : g = gen' /\ running'
                    /\ Alive' => running' \/ gen' \in Stopping'
  BY DEF Quiet
<1>1. CASE StartBegin
  <2>1. running' /\ gen' = gen + 1 /\ Starting = {}
    BY <1>1 DEF StartBegin
  <2>2. Starting' \subseteq {gen'}
    BY <1>1, <2>1 DEF StartBegin, Starting, TypeInv, TypeOK, StarterType
  <2> QED BY <2>1, <2>2
<1>2. CASE \E g \in Run : StartList(g) \/ StartLoad(g)
  <2> PICK g \in Run : StartList(g) \/ StartLoad(g)
    BY <1>2
  <2>1. /\ loop' = loop /\ syncer' = syncer /\ worker' = worker /\ stopper' = stopper
        /\ running' = running /\ gen' = gen /\ overlap' = overlap
    BY DEF StartList, StartLoad, chans
  <2>2. g \in Starting
    BY DEF StartList, StartLoad, Starting
  <2>3. Starting' \subseteq Starting
    BY <2>2 DEF StartList, StartLoad, Starting, TypeInv, TypeOK, StarterType
  <2>4. Alive' = Alive /\ Stopping' = Stopping
    BY <2>1 DEF LiveLoops, LiveSyncers, Busy, Alive, Stopping
  <2> QED BY <2>1, <2>3, <2>4 DEF Quiet
<1>3. CASE \E g \in Run : StartLaunch(g)
  <2> PICK g \in Run : StartLaunch(g)
    BY <1>3
  <2>1. stopper' = stopper /\ running' = running /\ gen' = gen /\ overlap' = overlap
    BY DEF StartLaunch, chans
  <2>2. g \in Starting
    BY DEF StartLaunch, Starting
  <2>3. Starting' \subseteq Starting
    BY <2>2 DEF StartLaunch, Starting, TypeInv, TypeOK, StarterType
  <2>4. running
    BY <2>1, <2>2 DEF Quiet
  <2> QED BY <2>1, <2>3, <2>4 DEF Quiet
<1>4. CASE StopBegin
  <2>1. Starting = {} /\ overlap = "none" /\ gen' = gen /\ starter' = starter
    BY <1>4 DEF StopBegin
  <2>2. gen \in Stopping'
    BY <1>4 DEF StopBegin, Stopping, TypeInv, TypeOK
  <2>3. Starting' = Starting
    BY <2>1 DEF Starting
  <2> QED BY <2>1, <2>2, <2>3
<1>5. CASE \E g \in Gen : StopReturn(g)
  <2> PICK g \in Gen : StopReturn(g)
    BY <1>5
  <2>1. /\ loop' = loop /\ syncer' = syncer /\ worker' = worker /\ starter' = starter
        /\ running' = running /\ gen' = gen /\ overlap' = overlap
    BY DEF StopReturn, chans
  <2>2. ~Alive'
    BY <2>1 DEF StopReturn, WgZero, Alive, LiveLoops, LiveSyncers, Busy
  <2>3. Starting' = Starting
    BY <2>1 DEF Starting
  <2> QED BY <2>1, <2>2, <2>3 DEF Quiet
<1> QED BY <1>1, <1>2, <1>3, <1>4, <1>5 DEF Lifecycle

LEMMA QuietStep ==
    ASSUME TypeInv, Quiet, [Next]_vars
    PROVE  Quiet'
<1>1. ASSUME NEW g \in Run, LoopStep(g) PROVE Quiet'
  <2>1. /\ loop[g].pc \notin {"none", "done"}
        /\ starter' = starter /\ stopper' = stopper /\ running' = running /\ gen' = gen
        /\ overlap' = overlap
    BY <1>1 DEF LoopStep, LoopEmpty, LoopDelay, LoopFull, LoopPop, LoopDispatch, LoopCheck,
                LoopArm, LoopStop, LoopWake, LoopTimer, LoopWait, chans
  <2>2. LiveLoops # {}
    BY <2>1 DEF LiveLoops
  <2> QED BY <2>1, <2>2, SameAliveKeeps DEF SameAlive, Alive
<1>2. ASSUME NEW g \in Run, SyncStep(g) PROVE Quiet'
  <2>1. /\ syncer[g].pc \notin {"none", "done"}
        /\ starter' = starter /\ stopper' = stopper /\ running' = running /\ gen' = gen
        /\ overlap' = overlap
    BY <1>2 DEF SyncStep, SyncArm, SyncStop, SyncList, SyncListFails, SyncDeviceStatus, chans
  <2>2. LiveSyncers # {}
    BY <2>1 DEF LiveSyncers
  <2> QED BY <2>1, <2>2, SameAliveKeeps DEF SameAlive, Alive
<1>3. ASSUME NEW w \in Worker, Finish(w) PROVE Quiet'
  <2>1. Busy # {}
    BY <1>3 DEF Finish, Busy
  <2> QED BY <1>3, <2>1, SameAliveKeeps DEF SameAlive, Alive, Finish
<1>4. CASE SetMaxConcurrentCollects \/ EditDevice \/ UNCHANGED vars
  <2>1. /\ loop' = loop /\ syncer' = syncer /\ worker' = worker /\ starter' = starter
        /\ stopper' = stopper /\ running' = running /\ gen' = gen /\ overlap' = overlap
    BY <1>4 DEF SetMaxConcurrentCollects, EditDevice, vars, procs, chans
  <2>2. Alive' = Alive
    BY <2>1 DEF LiveLoops, LiveSyncers, Busy, Alive
  <2> QED BY <2>1, <2>2, SameAliveKeeps DEF SameAlive
<1>5. CASE Tick
  <2>1. \A g \in Run : loop'[g].pc = loop[g].pc
    BY <1>5 DEF Tick, LoopAt
  <2>2. Alive' = Alive
    BY <1>5, <2>1 DEF Tick, LiveLoops, LiveSyncers, Busy, Alive
  <2> QED BY <1>5, <2>2, SameAliveKeeps DEF SameAlive, Tick, chans
<1> QED BY <1>1, <1>2, <1>3, <1>4, <1>5, QuietLifecycle DEF Next

\* The inductive invariant of the slots and goroutines.
SlotInv == SchedInv /\ Slots /\ Quiet

LEMMA SlotInvariant ==
    ASSUME IsFiniteSet(Worker)
    PROVE  Spec => []SlotInv
<1>1. Init => SlotInv
  BY TypeInit, UnlaunchedInit, PlaceInit, QuietInit, SlotsInit DEF SlotInv, SchedInv
<1>2. SlotInv /\ [Next]_vars => SlotInv'
  BY TypeStep, UnlaunchedStep, PlaceStep, QuietStep, SlotsStep DEF SlotInv, SchedInv
<1> QED BY <1>1, <1>2, PTL DEF Spec

\* Whatever calls of Start and Stop overlap, activeCollects never counts a
\* slot that is not in use; unless a Start came while work of an earlier one
\* went on, it counts them all and no collection starts beyond the limit; and
\* unless calls overlapped, a Stop that has returned left no goroutine alive.
THEOREM SlotsCounted ==
    ASSUME IsFiniteSet(Worker)
    PROVE  Spec => SlotsRespected
<1>1. SlotInv => ActiveMatches
  BY DEF SlotInv, Slots, ActiveMatches, InFlight, DispatchingLoops
<1>2. SlotInv => QuietWhenStopped
  <2> SUFFICES ASSUME SlotInv, overlap = "none", ~running, Stopping = {} PROVE ~Alive
    BY DEF QuietWhenStopped, Alive
  <2> QED BY DEF SlotInv, Quiet
<1>3. SlotInv /\ [Next]_vars => BoundedDispatch
  <2> SUFFICES ASSUME SlotInv, [Next]_vars, overlap # "start", InFlight' > InFlight
               PROVE  InFlight < limit
    BY DEF BoundedDispatch
  <2>1. Dispatches => active < limit
    BY SlotsStep DEF SlotInv, SchedInv
  <2>2. Dispatches
    BY DEF InFlight, Dispatches, DispatchingLoops
  <2> QED BY <2>1, <2>2, <1>1 DEF ActiveMatches
<1>4. SlotInv' => ActiveMatches' /\ QuietWhenStopped'
  BY <1>1, <1>2, PTL
<1> QED BY <1>3, <1>4, SlotInvariant, PTL DEF Spec, SlotsRespected

-----------------------------------------------------------------------------
(* Wake-ups.                                                                *)

\* Why nothing more is needed now.
Attended ==
    \/ Ready = {}
    \/ \E g \in Run : Awake(g) \/ InTime(g)
    \/ active >= limit /\ InFlight > 0

\* A step that changes neither what a sleeping loop waits for nor the loops,
\* or that leaves its token in the channel, or a Start at work.
SameSleep ==
    \/ Starting' # {} \/ gen' \in closed' \/ wake'[gen']
    \/ /\ Starting = {} /\ gen' = gen /\ closed' = closed /\ wake' = wake
       /\ loop' = loop /\ heap' = heap /\ tasks' = tasks /\ worker' = worker
       /\ active' = active /\ limit' = limit

LEMMA SameSleepKeeps ==
    ASSUME NoLostWakeup, SameSleep
    PROVE  NoLostWakeup'
<1> SUFFICES ASSUME gen' \in Run \ closed', Starting' = {}, ~wake'[gen'] PROVE Attended'
  BY DEF NoLostWakeup, Attended
<1>1. /\ Starting = {} /\ gen' = gen /\ closed' = closed /\ wake' = wake
      /\ loop' = loop /\ heap' = heap /\ tasks' = tasks /\ worker' = worker
      /\ active' = active /\ limit' = limit
  BY DEF SameSleep
<1>2. Attended
  BY <1>1 DEF NoLostWakeup, Attended
<1>3. Ready' = Ready /\ InFlight' = InFlight
  BY <1>1 DEF Ready, Queued, Current, InFlight, Busy
<1>4. \A g \in Run : Awake(g)' = Awake(g) /\ InTime(g)' = InTime(g)
  BY <1>1, <1>3 DEF Awake, InTime
<1> QED BY <1>1, <1>2, <1>3, <1>4 DEF Attended

LEMMA WakeInit == Init => NoLostWakeup
BY DEF Init, NoLostWakeup, Run

\* A device list that changes no task leaves the heap as it is.
LEMMA EmptySync ==
    ASSUME TypeInv, NEW snap
    PROVE  TasksAfter({}, {}) = tasks /\ HeapAfter(snap, {}, {}, {}) = heap
BY DEF TasksAfter, HeapAfter, TypeInv, TypeOK

LEMMA WakeLifecycle ==
    ASSUME TypeInv, NoLostWakeup, Lifecycle
    PROVE  NoLostWakeup'
<1>1. CASE StartBegin
  <2>1. gen + 1 \in Run /\ starter'[gen + 1].pc = "list"
    BY <1>1 DEF StartBegin, TypeInv, TypeOK, Gen, Run, StarterType
  <2>2. Starting' # {}
    BY <2>1 DEF Starting
  <2> QED BY <2>2, SameSleepKeeps DEF SameSleep
<1>2. CASE \E g \in Run : StartList(g) \/ StartLoad(g)
  <2> PICK g \in Run : StartList(g) \/ StartLoad(g)
    BY <1>2
  <2>1. starter'[g].pc \in {"load", "launch"}
    BY DEF StartList, StartLoad, TypeInv, TypeOK, StarterType
  <2>2. Starting' # {}
    BY <2>1 DEF Starting
  <2> QED BY <2>2, SameSleepKeeps DEF SameSleep
<1>3. CASE \E g \in Run : StartLaunch(g)
  <2> PICK g \in Run : StartLaunch(g)
    BY <1>3
  <2>1. loop'[g].pc = "top"
    BY DEF StartLaunch, LoopAt, TypeInv, TypeOK
  <2> QED BY <2>1 DEF NoLostWakeup, Awake
<1>4. CASE StopBegin
  <2>1. gen' \in closed'
    BY <1>4 DEF StopBegin
  <2> QED BY <2>1, SameSleepKeeps DEF SameSleep
<1>5. CASE \E g \in Gen : StopReturn(g)
  <2>1. /\ gen' = gen /\ closed' = closed /\ wake' = wake /\ starter' = starter
        /\ loop' = loop /\ heap' = heap /\ tasks' = tasks /\ worker' = worker
        /\ active' = active /\ limit' = limit
    BY <1>5 DEF StopReturn, sched, chans
  <2>2. Starting' = Starting
    BY <2>1 DEF Starting
  <2> QED BY <2>1, <2>2, SameSleepKeeps DEF SameSleep
<1> QED BY <1>1, <1>2, <1>3, <1>4, <1>5 DEF Lifecycle

LEMMA WakeLoop ==
    ASSUME IsFiniteSet(Worker), TypeInv, Placement, Slots, NoLostWakeup,
           NEW g \in Run, LoopStep(g)
    PROVE  NoLostWakeup'
<1>1. gen' = gen /\ closed' = closed /\ starter' = starter /\ Starting' = Starting
  BY DEF LoopStep, LoopEmpty, LoopDelay, LoopFull, LoopPop, LoopDispatch, LoopCheck, LoopArm,
         LoopStop, LoopWake, LoopTimer, LoopWait, chans, Starting
<1> SUFFICES ASSUME gen \in Run \ closed, Starting = {}, ~wake'[gen] PROVE Attended'
  BY <1>1 DEF NoLostWakeup, Attended
<1>2. CASE LoopPop(g) \/ LoopDispatch(g) \/ LoopCheck(g) \/ LoopWake(g) \/ LoopTimer(g)
  <2>1. loop'[g].pc \in {"dispatch", "check", "top"}
    BY <1>2 DEF LoopPop, LoopDispatch, LoopCheck, LoopWake, LoopTimer, LoopAt, TypeInv, TypeOK
  <2> QED BY <2>1 DEF Attended, Awake
<1>3. CASE LoopArm(g) \/ LoopStop(g)
  <2>1. /\ heap' = heap /\ tasks' = tasks /\ worker' = worker /\ active' = active
        /\ limit' = limit /\ wake' = wake
        /\ \A h \in Run : h # g => loop'[h] = loop[h]
    BY <1>3 DEF LoopArm, LoopStop, sched, chans, TypeInv, TypeOK
  <2>2. loop[g].pc \in {"arm", "blocked"} /\ loop'[g].pc \in {"blocked", "done"}
    BY <1>3 DEF LoopArm, LoopStop, LoopAt, TypeInv, TypeOK
  <2>3. Ready' = Ready /\ Busy' = Busy /\ DispatchingLoops' = DispatchingLoops
    BY <2>1, <2>2 DEF Ready, Queued, Current, Busy, DispatchingLoops
  <2>4. InFlight' = InFlight
    BY <2>3 DEF InFlight, DispatchingLoops
  <2>5. Attended
    BY <2>1 DEF NoLostWakeup, Attended
  <2>6. ASSUME NEW h \in Run, Awake(h) \/ InTime(h) PROVE Awake(h)' \/ InTime(h)'
    <3>1. CASE h # g
      BY <1>1, <2>1, <2>3, <2>6, <3>1 DEF Awake, InTime
    <3>2. CASE h = g
      <4>1. InTime(g)
        BY <2>2, <2>6, <3>2 DEF Awake
      <4>2. CASE LoopStop(g)
        BY <4>1, <4>2 DEF InTime, LoopStop
      <4>3. CASE LoopArm(g)
        <5>1. loop'[g] = LoopAt("blocked", Idle, gen, loop[g].timer)
          BY <4>3 DEF LoopArm, TypeInv, TypeOK
        <5> QED BY <1>1, <2>1, <2>3, <3>2, <4>1, <5>1 DEF InTime, LoopAt
      <4> QED BY <1>3, <4>2, <4>3
    <3> QED BY <3>1, <3>2
  <2> QED BY <2>1, <2>3, <2>4, <2>5, <2>6 DEF Attended
<1>4. ASSUME NEW timer, loop[g].pc = "top", LoopWait(g, timer)
      PROVE  /\ loop'[g].pc = "arm" /\ loop'[g].timer = timer
             /\ heap' = heap /\ Ready' = Ready /\ InFlight' = InFlight
             /\ active' = active /\ limit' = limit
  <2>1. Queued \ Ready = {}
    BY DEF Placement, HeapHoldsCurrentOnly, Ready
  <2>2. heap' = heap
    BY <1>4, <2>1 DEF LoopWait, Peeked, TypeInv, TypeOK
  <2>3. \A h \in Run : loop'[h].pc = "dispatch" <=> loop[h].pc = "dispatch"
    BY <1>4 DEF LoopWait, LoopAt, TypeInv, TypeOK
  <2>4. DispatchingLoops' = DispatchingLoops /\ Busy' = Busy
    BY <1>4, <2>3 DEF LoopWait, DispatchingLoops, Busy
  <2>5. InFlight' = InFlight
    BY <2>4 DEF InFlight, DispatchingLoops
  <2> QED BY <1>4, <2>2, <2>5 DEF LoopWait, LoopAt, Ready, Queued, Current, TypeInv, TypeOK
<1>5. CASE LoopEmpty(g)
  BY <1>4, <1>5 DEF LoopEmpty, Attended
<1>6. CASE LoopDelay(g)
  <2> PICK t \in Task : Root(t) /\ LoopWait(g, heap[t])
    BY <1>6 DEF LoopDelay
  <2>1. heap[t] # Out /\ \A u \in Ready : heap[t] <= heap[u]
    BY DEF Root, Ready, Queued
  <2>2. loop[g].pc = "top"
    BY <1>6 DEF LoopDelay
  <2>3. loop'[g].pc = "arm" /\ loop'[g].timer = heap[t] /\ heap' = heap /\ Ready' = Ready
    BY <1>4, <2>2
  <2>4. InTime(g)'
    BY <2>1, <2>3 DEF InTime
  <2> QED BY <2>4 DEF Attended
<1>7. CASE LoopFull(g)
  <2>1. loop[g].pc = "top" /\ LoopWait(g, Out) /\ ~(active < limit)
    BY <1>7 DEF LoopFull, SlotFree
  <2>2. limit \in Nat /\ limit >= 1 /\ active \in Nat
    BY DEF TypeInv, TypeOK
  <2>3. active <= Cardinality(Busy) + Cardinality(DispatchingLoops)
    BY DEF Slots
  <2>4. Cardinality(Busy) + Cardinality(DispatchingLoops) > 0 /\ active >= limit
    BY <2>1, <2>2, <2>3, CountsFinite
  <2>5. InFlight > 0
    BY <2>4 DEF InFlight, DispatchingLoops
  <2> QED BY <1>4, <2>1, <2>4, <2>5 DEF Attended
<1> QED BY <1>2, <1>3, <1>5, <1>6, <1>7 DEF LoopStep

LEMMA WakeTick ==
    ASSUME TypeInv, NoLostWakeup, Tick
    PROVE  NoLostWakeup'
<1>1. /\ gen' = gen /\ wake' = wake /\ closed' = closed /\ active' = active /\ limit' = limit
      /\ tasks' = tasks /\ worker' = worker /\ starter' = starter
  BY DEF Tick, chans
<1>2. \A g \in Run : loop'[g].pc = loop[g].pc /\ loop'[g].ch = loop[g].ch
                     /\ loop'[g].timer = Elapsed(loop[g].timer)
  BY DEF Tick, LoopAt
<1>3. \A t \in Task : heap'[t] = Older(heap[t])
  BY DEF Tick
<1>4. Queued' = Queued
  BY <1>3 DEF Queued, Older, TypeInv, TypeOK
<1>5. Ready' = Ready /\ Busy' = Busy /\ Starting' = Starting /\ DispatchingLoops' = DispatchingLoops
  BY <1>1, <1>2, <1>4 DEF Ready, Current, Busy, Starting, DispatchingLoops
<1>6. InFlight' = InFlight
  BY <1>5 DEF InFlight, DispatchingLoops
<1>7. \A g \in Run : Awake(g)' = Awake(g)
  BY <1>2 DEF Awake
<1>8. ASSUME NEW g \in Run, InTime(g) PROVE InTime(g)'
  <2>1. loop[g].timer \in Nat
    BY <1>8 DEF InTime, TypeInv, TypeOK, LoopType
  <2>2. loop'[g].timer # Out
    BY <1>2, <2>1 DEF Elapsed
  <2>3. ASSUME NEW t \in Ready PROVE loop'[g].timer = 0 \/ loop'[g].timer <= heap'[t]
    <3>1. heap[t] \in Int /\ t \in Task
      BY DEF Ready, Queued, TypeInv, TypeOK
    <3>2. CASE loop[g].timer = 0
      BY <1>2, <2>1, <3>2 DEF Elapsed
    <3>3. CASE loop[g].timer # 0
      BY <1>2, <1>3, <1>8, <2>1, <3>1, <3>3 DEF InTime, Elapsed, Older
    <3> QED BY <3>2, <3>3
  <2> QED BY <1>1, <1>2, <1>5, <1>8, <2>2, <2>3 DEF InTime
<1>9. Attended => Attended'
  BY <1>1, <1>5, <1>6, <1>7, <1>8 DEF Attended
<1> QED BY <1>1, <1>5, <1>9 DEF NoLostWakeup, Attended

LEMMA WakeStep ==
    ASSUME IsFiniteSet(Worker), TypeInv, Placement, Slots, NoLostWakeup, [Next]_vars
    PROVE  NoLostWakeup'
<1>1. ASSUME UNCHANGED <<gen, closed, wake, starter, loop, heap, tasks, worker, active, limit>>
      PROVE  NoLostWakeup'
  <2>1. Starting' = Starting
    BY <1>1 DEF Starting
  <2>2. CASE Starting = {}
    BY <1>1, <2>2, SameSleepKeeps DEF SameSleep
  <2>3. CASE Starting # {}
    BY <2>1, <2>3, SameSleepKeeps DEF SameSleep
  <2> QED BY <2>2, <2>3
<1>2. ASSUME NEW g \in Run, SyncStep(g) PROVE NoLostWakeup'
  <2>1. CASE SyncArm(g) \/ SyncStop(g) \/ SyncList(g) \/ SyncListFails(g)
    BY <1>1, <2>1 DEF SyncArm, SyncStop, SyncList, SyncListFails, sched, chans
  <2>2. CASE SyncDeviceStatus(g)
    <3> PICK snap : snap = syncer[g].snap
      OBVIOUS
    <3>1. SyncApply(snap) /\ loop' = loop /\ gen' = gen /\ closed' = closed /\ starter' = starter
      BY <2>2 DEF SyncDeviceStatus
    <3>2. worker' = worker /\ active' = active /\ limit' = limit
      BY <2>2 DEF SyncDeviceStatus
    <3>3. CASE Adds(snap) \cup Updates(snap) \cup Removes(snap) # {}
      <4>1. wake'[gen']
        BY <3>1, <3>3 DEF SyncApply, Notify, TypeInv, TypeOK
      <4> QED BY <4>1, SameSleepKeeps DEF SameSleep
    <3>4. CASE Adds(snap) \cup Updates(snap) \cup Removes(snap) = {}
      <4>1. Adds(snap) = {} /\ Updates(snap) = {} /\ Removes(snap) = {}
        BY <3>4
      <4>2. wake' = wake
        BY <3>1, <3>4 DEF SyncApply
      <4>3. tasks' = tasks /\ heap' = heap
        BY <3>1, <4>1, EmptySync DEF SyncApply, ApplyTasks
      <4> QED BY <1>1, <3>1, <3>2, <4>2, <4>3
    <3> QED BY <3>3, <3>4
  <2> QED BY <1>2, <2>1, <2>2 DEF SyncStep
<1>3. CASE SetMaxConcurrentCollects \/ \E w \in Worker : Finish(w)
  <2>1. wake'[gen']
    BY <1>3 DEF SetMaxConcurrentCollects, Finish, Notify, TypeInv, TypeOK
  <2> QED BY <2>1, SameSleepKeeps DEF SameSleep
<1>4. CASE EditDevice \/ UNCHANGED vars
  BY <1>1, <1>4 DEF EditDevice, vars, chans, sched, procs
<1> QED BY <1>2, <1>3, <1>4, WakeLifecycle, WakeLoop, WakeTick DEF Next

\* executeLoop never sleeps through work, overlapping calls of Start and Stop
\* included: a change of the tasks, of the limit or of the slots either leaves
\* a loop up or with a timer in time, or its token is in the channel, also
\* between the peek and the select.
THEOREM WakeUpsKept ==
    ASSUME IsFiniteSet(Worker)
    PROVE  Spec => []NoLostWakeup
<1>1. Init => NoLostWakeup
  BY WakeInit
<1>2. SlotInv /\ NoLostWakeup /\ [Next]_vars => NoLostWakeup'
  BY WakeStep DEF SlotInv, SchedInv
<1> QED BY <1>1, <1>2, SlotInvariant, PTL DEF Spec
=============================================================================

------------------------ MODULE DriverExecutorProofs ------------------------
(***************************************************************************)
(* Proofs about module DriverExecutor, for every number of goroutines,     *)
(* devices, resources, drivers and mutexes.                                *)
(***************************************************************************)
EXTENDS DriverExecutor, TLAPS

USE ExecutorAssumption

\* Where a goroutine refers to a device, to its mutex and to a mutex to dial.
AtWork   == PC \ {"idle"}
HasLock  == Holding \cup {"acquire"}
Dialling == {"dial_lock", "dial"}

\* What a goroutine at each place holds.
Placed ==
    \A p \in Proc : /\ pc[p] \in AtWork <=> dev[p] # None
                    /\ pc[p] \in HasLock => lock[p] # None
                    /\ pc[p] \in Dialling => dialLock[p] # None /\ use[p] \in Resource

\* The mutex of executePrepared... stays locked by its goroutine, also while
\* GetTCPConn locks and frees another one.
Locked ==
    \A p \in Proc : /\ pc[p] \in Holding => owner[lock[p]] = p
                    /\ pc[p] = "dial" => owner[dialLock[p]] = p /\ dialLock[p] # lock[p]

TidyInv == TypeOK /\ Placed /\ OneReadPerDevice /\ LocksGivenBack /\ Locked

LEMMA TidyInit == Init => TidyInv
<1> SUFFICES ASSUME Init PROVE TidyInv
  OBVIOUS
<1>1. TypeOK
  BY DEF Init, TypeOK, PC, Bound
<1>2. Placed /\ Locked
  BY DEF Init, Placed, Locked, AtWork, HasLock, Dialling, Holding
<1>3. OneReadPerDevice /\ LocksGivenBack
  BY DEF Init, OneReadPerDevice, LocksGivenBack
<1> QED BY <1>1, <1>2, <1>3 DEF TidyInv

-----------------------------------------------------------------------------
(* Types.                                                                   *)

LEMMA TypeStep ==
    ASSUME TypeOK, Placed, NEW p \in Proc, Step(p) \/ \E d \in Device : Begin(p, d)
    PROVE  TypeOK'
<1>1. CASE \E d \in Device : Begin(p, d)
  <2>1. pc' \in [Proc -> PC] /\ executing' \subseteq Device /\ dev' \in [Proc -> Device \cup {None}]
    BY <1>1 DEF Begin, Goto, TypeOK, PC
  <2> QED BY <1>1, <2>1 DEF hits, Begin, TypeOK
<1>2. CASE EnsurePath(p)
  <2>1. dev[p] \in Device
    BY <1>2 DEF EnsurePath, Placed, AtWork, PC, TypeOK
  <2>2. path' \subseteq Resource
    BY <1>2, <2>1 DEF EnsurePath, TypeOK, Res
  <2> QED BY <1>2, <2>2 DEF hits, EnsurePath, Goto, calls, TypeOK, PC
<1>3. CASE GetLock(p)
  <2> PICK m \in Mutex : /\ mux' = [mux EXCEPT ![Res(p)] = m]
                         /\ lock' = [lock EXCEPT ![p] = m]
    BY <1>3 DEF GetLock
  <2>1. pc' \in [Proc -> PC]
    BY <1>3 DEF GetLock, Goto, TypeOK, PC
  <2> QED BY <1>3, <2>1 DEF hits, GetLock, TypeOK
<1>4. CASE Acquire(p)
  BY <1>4 DEF hits, Acquire, Goto, calls, TypeOK, PC
<1>5. CASE OpenSerial(p)
  <2>1. dev[p] \in Device
    BY <1>5 DEF OpenSerial, Placed, AtWork, PC, TypeOK
  <2>2. open' \subseteq Resource
    BY <1>5, <2>1 DEF OpenSerial, TypeOK, Res
  <2> QED BY <1>5, <2>2 DEF hits, OpenSerial, Goto, calls, TypeOK, PC
<1>6. CASE CheckDriver(p)
  BY <1>6 DEF hits, CheckDriver, Goto, calls, TypeOK, PC
<1>7. CASE Unload(p)
  <2>1. alive' \in [Proc -> BOOLEAN]
    BY <1>7, Zenon DEF Unload, AliveAfterClose
  <2> QED BY <1>7, <2>1 DEF hits, Checked, Unload, Goto, TypeOK, PC, Bound
<1>8. CASE Load(p)
  <2>1. dev[p] \in Device
    BY <1>8 DEF Load, Placed, AtWork, PC, TypeOK
  <2>2. Res(p) \in Bound
    BY <2>1 DEF Res, Bound
  <2> QED BY <1>8, <2>2 DEF hits, Load, Goto, calls, TypeOK, PC
<1>9. CASE Call(p)
  <2>1. dev[p] \in Device
    BY <1>9 DEF Call, Placed, AtWork, PC, TypeOK
  <2>2. loaded[Drv(p)] \in Bound
    BY <2>1 DEF Drv, TypeOK
  <2>3. use' \in [Proc -> Resource \cup {None}] /\ alive' \in [Proc -> BOOLEAN]
    BY <1>9, <2>2 DEF Call, TypeOK, Bound
  <2>4. pc' \in [Proc -> PC]
    BY <1>9 DEF Call, Goto, TypeOK, PC
  <2> QED BY <1>9, <2>3, <2>4 DEF hits, Call, TypeOK
<1>10. CASE StartIO(p) \/ EndIO(p) \/ PluginReturn(p)
  BY <1>10 DEF hits, StartIO, EndIO, PluginReturn, Goto, calls, TypeOK, PC
<1>11. CASE FailIO(p)
  BY <1>11 DEF hits, FailIO, Broken, calls, TypeOK, PC
<1>12. CASE DialGetLock(p)
  <2> PICK m \in Mutex : /\ mux' = [mux EXCEPT ![use[p]] = m]
                         /\ dialLock' = [dialLock EXCEPT ![p] = m]
    BY <1>12 DEF DialGetLock
  <2>1. pc' \in [Proc -> PC]
    BY <1>12 DEF DialGetLock, Goto, TypeOK, PC
  <2> QED BY <1>12, <2>1 DEF hits, DialGetLock, TypeOK
<1>13. CASE DialAcquire(p)
  BY <1>13 DEF hits, DialAcquire, Goto, calls, TypeOK, PC
<1>14. CASE Dial(p)
  <2>1. use[p] \in Resource
    BY <1>14 DEF Dial, Placed, Dialling
  <2> QED BY <1>14, <2>1 DEF hits, Dial, Goto, TypeOK, PC
<1>15. CASE Return(p) \/ Fail(p)
  <2>1. Finish(p)
    BY <1>15 DEF Return, Fail
  <2>2. unlocked' \subseteq Proc /\ swapped' \subseteq Proc /\ executing' \subseteq Device
    BY <2>1 DEF Finish, TypeOK
  <2> QED BY <2>1, <2>2 DEF Finish, Unlocked, Goto, TypeOK, PC
<1> QED BY <1>1, <1>2, <1>3, <1>4, <1>5, <1>6, <1>7, <1>8, <1>9, <1>10, <1>11, <1>12, <1>13,
           <1>14, <1>15 DEF Step

LEMMA TypeAdmin ==
    ASSUME TypeOK, (\E r \in Resource : CloseResource(r) \/ SetResourcePath(r))
                   \/ \E v \in Driver : UnloadDriver(v) \/ LoadDriver(v)
    PROVE  TypeOK'
<1>1. CASE \E r \in Resource : CloseResource(r)
  BY <1>1 DEF CloseResource, Broken, calls, TypeOK, PC
<1>2. CASE \E r \in Resource : SetResourcePath(r)
  BY <1>2 DEF hits, SetResourcePath, Broken, calls, TypeOK, PC
<1>3. CASE \E v \in Driver : UnloadDriver(v)
  <2>1. alive' \in [Proc -> BOOLEAN]
    BY <1>3, Zenon DEF UnloadDriver, AliveAfterClose
  <2> QED BY <1>3, <2>1 DEF hits, Checked, UnloadDriver, TypeOK, Bound
<1>4. CASE \E v \in Driver : LoadDriver(v)
  BY <1>4 DEF hits, LoadDriver, calls, TypeOK, Bound
<1> QED BY <1>1, <1>2, <1>3, <1>4

-----------------------------------------------------------------------------
(* Flags and mutexes.                                                       *)

\* A step after which every goroutine refers to what it did, and holds what
\* it did: it stays where it is or moves between places that hold its mutex.
Steady ==
    /\ executing' = executing /\ owner' = owner
    /\ dev' = dev /\ lock' = lock /\ dialLock' = dialLock
    /\ \A q \in Proc : /\ pc'[q] = pc[q] \/ {pc[q], pc'[q]} \subseteq Holding \ Dialling
                       /\ pc[q] \in Dialling => use'[q] = use[q]

LEMMA SteadyKeeps ==
    ASSUME TidyInv, TypeOK', Steady
    PROVE  TidyInv'
<1>1. Placed'
  BY DEF TidyInv, Placed, Steady, AtWork, HasLock, Dialling, Holding, PC
<1>2. OneReadPerDevice'
  BY DEF TidyInv, OneReadPerDevice, Steady
<1>3. LocksGivenBack'
  <2> SUFFICES ASSUME NEW m \in Mutex, owner[m] # None
               PROVE  \/ pc'[owner[m]] \in Holding /\ lock[owner[m]] = m
                      \/ pc'[owner[m]] = "dial" /\ dialLock[owner[m]] = m
    BY DEF Steady, LocksGivenBack
  <2> PICK p \in Proc : p = owner[m]
    BY DEF TidyInv, TypeOK
  <2>1. (pc[p] \in Holding /\ lock[p] = m) \/ (pc[p] = "dial" /\ dialLock[p] = m)
    BY DEF TidyInv, LocksGivenBack
  <2> QED BY <2>1 DEF Steady, Holding, Dialling
<1>4. Locked'
  BY DEF TidyInv, Locked, Steady, Holding, Dialling
<1> QED BY <1>1, <1>2, <1>3, <1>4 DEF TidyInv

LEMMA SteadySteps ==
    ASSUME TidyInv, NEW p \in Proc,
           OpenSerial(p) \/ CheckDriver(p) \/ Unload(p) \/ Load(p) \/ Call(p) \/ StartIO(p)
           \/ EndIO(p) \/ FailIO(p) \/ PluginReturn(p)
    PROVE  Steady
<1>1. /\ executing' = executing /\ owner' = owner
      /\ dev' = dev /\ lock' = lock /\ dialLock' = dialLock
  BY DEF OpenSerial, CheckDriver, Unload, Load, Call, StartIO, EndIO, FailIO, PluginReturn, calls
<1>2. CASE FailIO(p)
  BY <1>1, <1>2 DEF FailIO, Broken, Steady, calls, Holding, Dialling, TidyInv, TypeOK
<1>3. CASE Call(p)
  BY <1>1, <1>3 DEF Call, Goto, Steady, Holding, Dialling, TidyInv, TypeOK
<1>4. CASE OpenSerial(p) \/ CheckDriver(p) \/ Unload(p) \/ Load(p) \/ StartIO(p)
           \/ EndIO(p) \/ PluginReturn(p)
  <2>1. use' = use
    BY <1>4 DEF OpenSerial, CheckDriver, Unload, Load, StartIO, EndIO, PluginReturn, calls
  <2>2. /\ pc[p] \in Holding \ Dialling
        /\ \E c \in Holding \ Dialling : pc' = [pc EXCEPT ![p] = c]
    BY <1>4 DEF OpenSerial, CheckDriver, Unload, Load, StartIO, EndIO, PluginReturn, Goto,
                Holding, Dialling
  <2> QED BY <1>1, <2>1, <2>2 DEF Steady, TidyInv, TypeOK
<1> QED BY <1>2, <1>3, <1>4

LEMMA SteadyAdmin ==
    ASSUME TidyInv, (\E r \in Resource : CloseResource(r) \/ SetResourcePath(r))
                    \/ \E v \in Driver : UnloadDriver(v) \/ LoadDriver(v)
    PROVE  Steady
<1>1. /\ executing' = executing /\ owner' = owner
      /\ dev' = dev /\ lock' = lock /\ dialLock' = dialLock /\ use' = use
  BY DEF CloseResource, SetResourcePath, UnloadDriver, LoadDriver, calls
<1>2. \A q \in Proc : pc'[q] = pc[q] \/ (pc[q] = "io" /\ pc'[q] = "plugin")
  BY DEF CloseResource, SetResourcePath, UnloadDriver, LoadDriver, Broken, TidyInv, TypeOK
<1> QED BY <1>1, <1>2 DEF Steady, Holding, Dialling

LEMMA BeginTidy ==
    ASSUME TidyInv, NEW p \in Proc, NEW d \in Device, Begin(p, d)
    PROVE  TidyInv'
<1>1. TypeOK'
  BY TypeStep DEF TidyInv
<1>2. /\ pc[p] = "idle" /\ d \notin executing /\ executing' = executing \cup {d}
      /\ \A q \in Proc : dev'[q] = IF q = p THEN d ELSE dev[q]
      /\ \A q \in Proc : pc'[q] = IF q = p THEN "path" ELSE pc[q]
      /\ lock' = lock /\ dialLock' = dialLock /\ owner' = owner /\ use' = use
  BY DEF Begin, NotExecuting, Goto, TidyInv, TypeOK
<1>3. dev[p] = None /\ d # None
  BY <1>2 DEF TidyInv, Placed, AtWork, PC
<1>4. Placed'
  BY <1>2, <1>3 DEF TidyInv, Placed, AtWork, HasLock, Dialling, Holding, PC
<1>5. OneReadPerDevice'
  <2>1. \A q \in Proc : dev[q] # d
    BY <1>2, <1>3 DEF TidyInv, OneReadPerDevice
  <2>2. executing' = {dev'[q] : q \in {r \in Proc : dev'[r] # None}}
    BY <1>2, <1>3 DEF TidyInv, OneReadPerDevice
  <2> QED BY <1>2, <2>1, <2>2 DEF TidyInv, OneReadPerDevice
<1>6. LocksGivenBack'
  BY <1>2 DEF TidyInv, LocksGivenBack, Holding, TypeOK
<1>7. Locked'
  BY <1>2 DEF TidyInv, Locked, Holding
<1> QED BY <1>1, <1>4, <1>5, <1>6, <1>7 DEF TidyInv

\* The way to the mutex, up to its lock.
LEMMA LockTidy ==
    ASSUME TidyInv, NEW p \in Proc, EnsurePath(p) \/ GetLock(p) \/ Acquire(p)
    PROVE  TidyInv'
<1>1. TypeOK'
  BY TypeStep DEF TidyInv, Step
<1>2. /\ executing' = executing /\ dev' = dev /\ dialLock' = dialLock /\ use' = use
      /\ \A q \in Proc : q # p => pc'[q] = pc[q] /\ lock'[q] = lock[q]
  BY DEF EnsurePath, GetLock, Acquire, Goto, calls, TidyInv, TypeOK
<1>3. OneReadPerDevice'
  BY <1>2 DEF TidyInv, OneReadPerDevice
<1>4. CASE EnsurePath(p) \/ GetLock(p)
  <2>0. ASSUME GetLock(p) PROVE lock'[p] # None
    <3> PICK m \in Mutex : lock' = [lock EXCEPT ![p] = m]
      BY <2>0 DEF GetLock
    <3> QED BY DEF TidyInv, TypeOK
  <2>1. /\ pc[p] \in {"path", "getlock"} /\ owner' = owner
        /\ pc'[p] \in {"getlock", "acquire"}
        /\ pc'[p] = "acquire" => lock'[p] # None
    BY <1>4, <2>0 DEF EnsurePath, GetLock, Goto, calls, TidyInv, TypeOK
  <2>2. Placed'
    BY <1>2, <2>1 DEF TidyInv, Placed, AtWork, HasLock, Dialling, Holding, PC
  <2>3. LocksGivenBack'
    BY <1>2, <2>1 DEF TidyInv, LocksGivenBack, Holding, TypeOK
  <2>4. Locked'
    BY <1>2, <2>1 DEF TidyInv, Locked, Holding
  <2> QED BY <1>1, <1>3, <2>2, <2>3, <2>4 DEF TidyInv
<1>5. CASE Acquire(p)
  <2>1. /\ pc[p] = "acquire" /\ pc'[p] = "locked" /\ lock' = lock
        /\ owner' = [owner EXCEPT ![lock[p]] = p] /\ owner[lock[p]] = None
    BY <1>5 DEF Acquire, Goto, calls, TidyInv, TypeOK
  <2>2. lock[p] \in Mutex
    BY <2>1 DEF TidyInv, Placed, HasLock, TypeOK
  <2>3. \A m \in Mutex : owner'[m] = IF m = lock[p] THEN p ELSE owner[m]
    BY <2>1, <2>2 DEF TidyInv, TypeOK
  <2>4. Placed'
    BY <1>2, <2>1 DEF TidyInv, Placed, AtWork, HasLock, Dialling, Holding, PC
  <2>5. LocksGivenBack'
    BY <1>2, <2>1, <2>3 DEF TidyInv, LocksGivenBack, Holding, TypeOK
  <2>6. Locked'
    <3>1. \A q \in Proc : pc[q] \in Holding => lock[q] \in Mutex
      BY DEF TidyInv, Placed, HasLock, TypeOK
    <3>2. \A q \in Proc : pc[q] = "dial" => dialLock[q] \in Mutex
      BY DEF TidyInv, Placed, Dialling, TypeOK
    <3> QED BY <1>2, <2>1, <2>2, <2>3, <3>1, <3>2 DEF TidyInv, Locked, Holding
  <2> QED BY <1>1, <1>3, <2>4, <2>5, <2>6 DEF TidyInv
<1> QED BY <1>4, <1>5

\* GetTCPConn locks and frees a second mutex.
LEMMA DialTidy ==
    ASSUME TidyInv, NEW p \in Proc, DialGetLock(p) \/ DialAcquire(p) \/ Dial(p)
    PROVE  TidyInv'
<1>1. TypeOK'
  BY TypeStep DEF TidyInv, Step
<1>2. /\ executing' = executing /\ dev' = dev /\ lock' = lock /\ use' = use
      /\ \A q \in Proc : q # p => pc'[q] = pc[q] /\ dialLock'[q] = dialLock[q]
  BY DEF DialGetLock, DialAcquire, Dial, Goto, calls, TidyInv, TypeOK
<1>3. OneReadPerDevice'
  BY <1>2 DEF TidyInv, OneReadPerDevice
<1>4. \A q \in Proc : /\ pc[q] \in Holding => lock[q] \in Mutex
                      /\ pc[q] \in Dialling => dialLock[q] \in Mutex
  BY DEF TidyInv, Placed, HasLock, Dialling, TypeOK
<1>5. CASE DialGetLock(p)
  <2>1. /\ pc[p] = "plugin" /\ pc'[p] = "dial_lock" /\ owner' = owner
        /\ dialLock'[p] # None /\ use[p] \in Resource
    BY <1>5 DEF DialGetLock, Goto, TidyInv, TypeOK
  <2>2. Placed'
    BY <1>2, <2>1 DEF TidyInv, Placed, AtWork, HasLock, Dialling, Holding, PC
  <2>3. LocksGivenBack'
    BY <1>2, <2>1 DEF TidyInv, LocksGivenBack, Holding, TypeOK
  <2>4. Locked'
    BY <1>2, <2>1 DEF TidyInv, Locked, Holding
  <2> QED BY <1>1, <1>3, <2>2, <2>3, <2>4 DEF TidyInv
<1>6. CASE DialAcquire(p)
  <2>1. /\ pc[p] = "dial_lock" /\ pc'[p] = "dial" /\ dialLock' = dialLock
        /\ owner[dialLock[p]] = None /\ owner' = [owner EXCEPT ![dialLock[p]] = p]
    BY <1>6 DEF DialAcquire, Goto, calls, TidyInv, TypeOK
  <2>2. dialLock[p] \in Mutex
    BY <1>4, <2>1 DEF Dialling
  <2>3. \A m \in Mutex : owner'[m] = IF m = dialLock[p] THEN p ELSE owner[m]
    BY <2>1, <2>2 DEF TidyInv, TypeOK
  <2>4. Placed'
    BY <1>2, <2>1 DEF TidyInv, Placed, AtWork, HasLock, Dialling, Holding, PC
  <2>5. LocksGivenBack'
    BY <1>2, <2>1, <2>3 DEF TidyInv, LocksGivenBack, Holding, TypeOK
  <2>6. Locked'
    BY <1>2, <1>4, <2>1, <2>2, <2>3 DEF TidyInv, Locked, Holding, Dialling
  <2> QED BY <1>1, <1>3, <2>4, <2>5, <2>6 DEF TidyInv
<1>7. CASE Dial(p)
  <2>1. /\ pc[p] = "dial" /\ pc'[p] \in {"io", "plugin"}
        /\ owner' = [owner EXCEPT ![dialLock[p]] = None]
    BY <1>7 DEF Dial, Goto, TidyInv, TypeOK
  <2>2. dialLock[p] \in Mutex /\ owner[dialLock[p]] = p
    BY <1>4, <2>1 DEF Dialling, TidyInv, Locked
  <2>3. \A m \in Mutex : owner'[m] = IF m = dialLock[p] THEN None ELSE owner[m]
    BY <2>1, <2>2 DEF TidyInv, TypeOK
  <2>4. Placed'
    BY <1>2, <2>1 DEF TidyInv, Placed, AtWork, HasLock, Dialling, Holding, PC
  <2>5. LocksGivenBack'
    BY <1>2, <2>1, <2>3 DEF TidyInv, LocksGivenBack, Holding, TypeOK
  <2>6. Locked'
    BY <1>2, <1>4, <2>1, <2>2, <2>3 DEF TidyInv, Locked, Holding, Dialling
  <2> QED BY <1>1, <1>3, <2>4, <2>5, <2>6 DEF TidyInv
<1> QED BY <1>5, <1>6, <1>7

\* Every way out: the mutex is freed and the flag cleared.
LEMMA FinishTidy ==
    ASSUME TidyInv, NEW p \in Proc, Return(p) \/ Fail(p)
    PROVE  TidyInv'
<1>1. TypeOK'
  BY TypeStep DEF TidyInv, Step
<1>2. /\ pc[p] \in Holding \ Dialling /\ executing' = executing \ {dev[p]}
      /\ owner' = [owner EXCEPT ![lock[p]] = None]
      /\ \A q \in Proc : dev'[q] = IF q = p THEN None ELSE dev[q]
      /\ \A q \in Proc : pc'[q] = IF q = p THEN "idle" ELSE pc[q]
      /\ \A q \in Proc : lock'[q] = IF q = p THEN None ELSE lock[q]
      /\ \A q \in Proc : q # p => use'[q] = use[q]
      /\ dialLock' = dialLock
  BY DEF Return, Fail, Finish, Unlocked, Goto, Holding, Dialling, TidyInv, TypeOK
<1>3. /\ lock[p] \in Mutex /\ owner[lock[p]] = p /\ dev[p] # None
      /\ \A q \in Proc : pc[q] \in Holding => lock[q] \in Mutex
      /\ \A q \in Proc : pc[q] \in Dialling => dialLock[q] \in Mutex
  BY <1>2 DEF TidyInv, Placed, Locked, HasLock, Holding, AtWork, Dialling, PC, TypeOK
<1>4. \A m \in Mutex : owner'[m] = IF m = lock[p] THEN None ELSE owner[m]
  BY <1>2, <1>3 DEF TidyInv, TypeOK
<1>5. Placed'
  BY <1>2 DEF TidyInv, Placed, AtWork, HasLock, Dialling, Holding, PC
<1>6. OneReadPerDevice'
  <2>1. \A q \in Proc : q # p => dev[q] # dev[p]
    BY <1>3 DEF TidyInv, OneReadPerDevice
  <2>2. executing' = {dev'[q] : q \in {r \in Proc : dev'[r] # None}}
    BY <1>2, <2>1 DEF TidyInv, OneReadPerDevice
  <2> QED BY <1>2, <2>2 DEF TidyInv, OneReadPerDevice
<1>7. LocksGivenBack'
  BY <1>2, <1>3, <1>4 DEF TidyInv, LocksGivenBack, Holding, Dialling, TypeOK
<1>8. Locked'
  BY <1>2, <1>3, <1>4 DEF TidyInv, Locked, Holding, Dialling
<1> QED BY <1>1, <1>5, <1>6, <1>7, <1>8 DEF TidyInv

LEMMA TidyStep ==
    ASSUME TidyInv, [Next]_vars
    PROVE  TidyInv'
<1>1. ASSUME NEW p \in Proc, Step(p) PROVE TidyInv'
  <2>1. TypeOK'
    BY <1>1, TypeStep DEF TidyInv
  <2> QED BY <1>1, <2>1, SteadySteps, SteadyKeeps, LockTidy, DialTidy, FinishTidy DEF Step
<1>2. ASSUME NEW p \in Proc, NEW d \in Device, Begin(p, d) PROVE TidyInv'
  BY <1>2, BeginTidy
<1>3. CASE (\E r \in Resource : CloseResource(r) \/ SetResourcePath(r))
           \/ \E v \in Driver : UnloadDriver(v) \/ LoadDriver(v)
  BY <1>3, TypeAdmin, SteadyAdmin, SteadyKeeps DEF TidyInv
<1>4. CASE UNCHANGED vars
  <2>1. TypeOK'
    BY <1>4 DEF hits, vars, calls, TidyInv, TypeOK
  <2> QED BY <1>4, <2>1, SteadyKeeps DEF vars, calls, Steady
<1> QED BY <1>1, <1>2, <1>3, <1>4 DEF Next

LEMMA TidyInvariant == Spec => []TidyInv
BY TidyInit, TidyStep, PTL DEF Spec

\* startExecution's flag and every mutex belong to an execution under way,
\* whichever way out earlier ones took and whatever operators did meanwhile.
THEOREM Tidy == Spec => []ExecutionsTidy
<1>1. TidyInv => ExecutionsTidy
  BY DEF TidyInv, ExecutionsTidy
<1> QED BY <1>1, TidyInvariant, PTL

-----------------------------------------------------------------------------
(* The bus, whatever operators and devices of the same driver do.           *)

\* The mutex an execution locks is the one resourceMux has for its resource,
\* unless the resource was closed since.
LockOwn == \A p \in Proc : pc[p] \in HasLock /\ p \notin unlocked => lock[p] = mux[Res(p)]

\* From ensureDriverLoaded to the end of the call, the plugin is bound to the
\* device's own resource and stays loaded, unless it was unloaded since.
PluginOwn ==
    \A p \in Proc : p \notin swapped =>
        /\ pc[p] = "call" \/ InPlugin(p) => loaded[Drv(p)] = Res(p)
        /\ InPlugin(p) => use[p] = Res(p) /\ alive[p]

BusInv == TidyInv /\ LockOwn /\ PluginOwn

\* Two executions for one resource are never both inside its mutex.
LEMMA OneInside ==
    ASSUME TidyInv, LockOwn, NEW p \in Proc, NEW q \in Proc, Calm(p), Calm(q),
           pc[p] \in Holding, pc[q] \in Holding, Res(p) = Res(q)
    PROVE  p = q
BY DEF TidyInv, Locked, LockOwn, HasLock, Calm

\* The device, resource and driver of an execution past its beginning.
LEMMA WorkTyped ==
    ASSUME TidyInv, NEW p \in Proc, pc[p] \in AtWork
    PROVE  dev[p] \in Device /\ Res(p) \in Resource /\ Drv(p) \in Driver
<1>1. dev[p] \in Device
  BY DEF TidyInv, Placed, TypeOK
<1> QED BY <1>1 DEF Res, Drv

LEMMA BusInit == Init => BusInv
<1> SUFFICES ASSUME Init PROVE BusInv
  OBVIOUS
<1>1. TidyInv
  BY TidyInit
<1>2. \A p \in Proc : pc[p] = "idle"
  BY DEF Init
<1> QED BY <1>1, <1>2 DEF BusInv, LockOwn, PluginOwn, InPlugin, HasLock, Holding

\* A step that leaves goroutine q where it was, or takes it no further in.
SameFor(q) ==
    /\ dev'[q] = dev[q] /\ lock'[q] = lock[q] /\ use'[q] = use[q] /\ alive'[q] = alive[q]
    /\ pc'[q] \in HasLock => pc[q] \in HasLock
    /\ pc'[q] = "call" => pc[q] = "call"
    /\ InPlugin(q)' => InPlugin(q)
    /\ (q \in unlocked => q \in unlocked') /\ (q \in swapped => q \in swapped')

\* A step without effect on what the others hold and on the plugins.
LEMMA SameKeeps ==
    ASSUME BusInv, TidyInv', mux' = mux, loaded' = loaded, \A q \in Proc : SameFor(q)
    PROVE  BusInv'
<1>1. LockOwn'
  BY DEF BusInv, LockOwn, SameFor, Res
<1>2. PluginOwn'
  BY DEF BusInv, PluginOwn, SameFor, Res, Drv
<1> QED BY <1>1, <1>2 DEF BusInv

\* Goroutine q is taken no further in.
NoFurther(q) ==
    /\ pc'[q] \in HasLock => pc[q] \in HasLock
    /\ pc'[q] = "call" => pc[q] = "call"
    /\ InPlugin(q)' => InPlugin(q)

\* A plugin is unloaded, or one that was not loaded is: every other driver's
\* stays, and those who have checked this one are swapped.
LEMMA UnloadKeeps ==
    ASSUME BusInv, TidyInv', NEW v \in Driver, mux' = mux,
           loaded' = [loaded EXCEPT ![v] = "no"], alive' = AliveAfterClose(v),
           swapped' = swapped \cup Checked(v), unlocked' = unlocked,
           dev' = dev, lock' = lock, use' = use,
           \A q \in Proc : NoFurther(q)
    PROVE  BusInv'
<1> USE DEF BusInv
<1>1. LockOwn'
  BY DEF LockOwn, Res, NoFurther
<1>2. PluginOwn'
  <2> SUFFICES ASSUME NEW q \in Proc, q \notin swapped', pc'[q] = "call" \/ InPlugin(q)'
               PROVE  /\ loaded'[Drv(q)] = Res(q)
                      /\ InPlugin(q)' => use[q] = Res(q) /\ alive'[q]
    BY DEF PluginOwn, Res, Drv
  <2>1. (pc[q] = "call" \/ InPlugin(q)) /\ (InPlugin(q)' => InPlugin(q))
    BY DEF NoFurther
  <2>2. Drv(q) # v /\ q \notin swapped
    BY <2>1 DEF Checked
  <2>3. Drv(q) \in Driver
    BY <2>1, WorkTyped DEF InPlugin, AtWork, PC
  <2>4. loaded'[Drv(q)] = loaded[Drv(q)] /\ (alive[q] => alive'[q])
    BY <2>2, <2>3, Zenon DEF AliveAfterClose, TidyInv, TypeOK
  <2> QED BY <2>1, <2>2, <2>4 DEF PluginOwn
<1> QED BY <1>1, <1>2

\* A plugin that was not loaded is loaded: nobody who checked it relies on it.
LEMMA LoadKeeps ==
    ASSUME BusInv, NEW v \in Driver, loaded[v] = "no", NEW r,
           loaded' = [loaded EXCEPT ![v] = r],
           NEW q \in Proc, q \notin swapped, pc[q] = "call" \/ InPlugin(q)
    PROVE  loaded'[Drv(q)] = loaded[Drv(q)]
<1>1. Res(q) \in Resource /\ Drv(q) \in Driver
  BY WorkTyped DEF BusInv, InPlugin, AtWork, PC
<1>2. loaded[Drv(q)] = Res(q)
  BY DEF BusInv, PluginOwn
<1>3. Drv(q) # v
  BY <1>1, <1>2
<1> QED BY <1>1, <1>3 DEF BusInv, TidyInv, TypeOK

\* getResourceLock returns the mutex everybody at the resource has.
LEMMA LockOfKeeps ==
    ASSUME TidyInv, LockOwn, NEW r \in Resource, NEW m \in Mutex, LockOf(r, m),
           mux' = [mux EXCEPT ![r] = m], NEW q \in Proc, pc[q] \in HasLock, q \notin unlocked
    PROVE  mux'[Res(q)] = lock[q]
<1>1. lock[q] = mux[Res(q)] /\ lock[q] # None
  BY DEF LockOwn, TidyInv, Placed
<1>2. Res(q) \in Resource
  BY WorkTyped DEF AtWork, HasLock, Holding, PC
<1> QED BY <1>1, <1>2 DEF LockOf, TidyInv, TypeOK

LEMMA BusStep ==
    ASSUME BusInv, TidyInv', NEW p \in Proc, Step(p)
    PROVE  BusInv'
<1> USE DEF BusInv
<1>1. CASE EnsurePath(p) \/ Acquire(p) \/ OpenSerial(p) \/ StartIO(p) \/ PluginReturn(p)
           \/ DialAcquire(p) \/ EndIO(p)
  <2>1. mux' = mux /\ loaded' = loaded /\ calls' = calls /\ hits' = hits
    BY <1>1 DEF EnsurePath, Acquire, OpenSerial, StartIO, PluginReturn, DialAcquire, EndIO, calls, hits
  <2>2. \A q \in Proc : SameFor(q)
    BY <1>1, <2>1 DEF EnsurePath, Acquire, OpenSerial, StartIO, PluginReturn, DialAcquire, EndIO,
                      Goto, calls, hits, SameFor, HasLock, Holding, InPlugin, TidyInv, TypeOK
  <2> QED BY <2>1, <2>2, SameKeeps
<1>2. CASE FailIO(p)
  <2>1. \A q \in Proc : SameFor(q)
    BY <1>2 DEF FailIO, Broken, calls, hits, SameFor, HasLock, Holding, InPlugin, TidyInv, TypeOK
  <2> QED BY <1>2, <2>1, SameKeeps DEF FailIO
<1>3. CASE Dial(p)
  <2>1. \A q \in Proc : SameFor(q)
    BY <1>3 DEF Dial, Goto, hits, SameFor, HasLock, Holding, InPlugin, TidyInv, TypeOK
  <2> QED BY <1>3, <2>1, SameKeeps DEF Dial
<1>4. CASE Return(p) \/ Fail(p)
  <2>1. /\ \A q \in Proc : q # p => SameFor(q)
        /\ pc'[p] = "idle" /\ mux' = mux /\ loaded' = loaded
    BY <1>4 DEF Return, Fail, Finish, Goto, SameFor, InPlugin, TidyInv, TypeOK
  <2>2. LockOwn' /\ PluginOwn'
    BY <2>1 DEF LockOwn, PluginOwn, SameFor, Res, Drv, HasLock, Holding, InPlugin
  <2> QED BY <2>2
<1>5. CASE GetLock(p)
  <2>1. pc[p] = "getlock" /\ pc' = [pc EXCEPT ![p] = "acquire"] /\ dev[p] \in Device
    BY <1>5 DEF GetLock, Goto, TidyInv, Placed, AtWork, PC, TypeOK
  <2> PICK r \in Resource : r = Res(p)
    BY <2>1 DEF Res
  <2> PICK m \in Mutex : /\ LockOf(r, m) /\ mux' = [mux EXCEPT ![r] = m]
                         /\ lock' = [lock EXCEPT ![p] = m]
    BY <1>5 DEF GetLock
  <2>2. dev' = dev /\ use' = use /\ alive' = alive /\ loaded' = loaded /\ hits' = hits
    BY <1>5 DEF GetLock, hits
  <2>3. LockOwn'
    <3> SUFFICES ASSUME NEW q \in Proc, pc'[q] \in HasLock, q \notin unlocked
                 PROVE  lock'[q] = mux'[Res(q)]
      BY <2>2 DEF LockOwn, Res, hits
    <3>1. CASE q = p
      BY <3>1 DEF TidyInv, TypeOK
    <3>2. CASE q # p
      <4>1. pc[q] \in HasLock /\ lock'[q] = lock[q]
        BY <2>1, <3>2 DEF TidyInv, TypeOK
      <4> QED BY <4>1, LockOfKeeps
    <3> QED BY <3>1, <3>2
  <2>4. PluginOwn'
    BY <2>1, <2>2 DEF PluginOwn, InPlugin, Res, Drv, hits, TidyInv, TypeOK
  <2> QED BY <2>3, <2>4
<1>6. CASE DialGetLock(p)
  <2>1. pc[p] = "plugin" /\ pc' = [pc EXCEPT ![p] = "dial_lock"]
    BY <1>6 DEF DialGetLock, Goto
  <2> PICK r \in Resource : r = use[p]
    BY <1>6 DEF DialGetLock
  <2> PICK m \in Mutex : LockOf(r, m) /\ mux' = [mux EXCEPT ![r] = m]
    BY <1>6 DEF DialGetLock
  <2>2. /\ dev' = dev /\ use' = use /\ alive' = alive /\ loaded' = loaded /\ lock' = lock
        /\ hits' = hits
    BY <1>6 DEF DialGetLock, hits
  <2>3. \A q \in Proc : pc'[q] \in HasLock => pc[q] \in HasLock
    BY <2>1 DEF HasLock, Holding, TidyInv, TypeOK
  <2>4. LockOwn'
    BY <2>2, <2>3, LockOfKeeps DEF LockOwn, Res, hits
  <2>5. PluginOwn'
    BY <2>1, <2>2 DEF PluginOwn, InPlugin, Res, Drv, hits, TidyInv, TypeOK
  <2> QED BY <2>4, <2>5
<1>7. CASE CheckDriver(p)
  <2>1. /\ pc[p] = "check" /\ mux' = mux /\ loaded' = loaded /\ dev' = dev /\ lock' = lock
        /\ use' = use /\ alive' = alive /\ hits' = hits
        /\ \A q \in Proc : q # p => pc'[q] = pc[q]
        /\ pc'[p] = "reload" \/ (pc'[p] = "call" /\ loaded[Drv(p)] = Res(p))
    BY <1>7 DEF CheckDriver, Goto, calls, hits, TidyInv, TypeOK
  <2>2. LockOwn'
    BY <2>1 DEF LockOwn, Res, HasLock, Holding, hits
  <2>3. PluginOwn'
    BY <2>1 DEF PluginOwn, InPlugin, Res, Drv, hits
  <2> QED BY <2>2, <2>3
<1>8. CASE Call(p)
  <2>1. /\ pc[p] = "call" /\ mux' = mux /\ loaded' = loaded /\ dev' = dev /\ lock' = lock
        /\ hits' = hits
        /\ \A q \in Proc : q # p => pc'[q] = pc[q] /\ use'[q] = use[q] /\ alive'[q] = alive[q]
    BY <1>8 DEF Call, Goto, hits, TidyInv, TypeOK
  <2>2. pc'[p] = "return" \/ (pc'[p] = "plugin" /\ use'[p] = loaded[Drv(p)] /\ alive'[p])
    BY <1>8 DEF Call, Goto, TidyInv, TypeOK
  <2>3. LockOwn'
    BY <2>1, <2>2 DEF LockOwn, Res, HasLock, Holding, hits
  <2>4. PluginOwn'
    BY <2>1, <2>2 DEF PluginOwn, InPlugin, Res, Drv, hits
  <2> QED BY <2>3, <2>4
<1>9. CASE Unload(p)
  <2>1. /\ pc[p] = "reload" /\ pc' = [pc EXCEPT ![p] = "load"]
        /\ mux' = mux /\ dev' = dev /\ lock' = lock /\ use' = use /\ unlocked' = unlocked
        /\ loaded' = [loaded EXCEPT ![Drv(p)] = "no"] /\ alive' = AliveAfterClose(Drv(p))
        /\ swapped' = swapped \cup Checked(Drv(p))
    BY <1>9 DEF Unload, Goto
  <2>2. Drv(p) \in Driver
    BY <2>1, WorkTyped DEF AtWork, PC
  <2> PICK v \in Driver : v = Drv(p)
    BY <2>2
  <2>3. \A q \in Proc : NoFurther(q)
    BY <2>1 DEF NoFurther, HasLock, Holding, InPlugin, TidyInv, TypeOK
  <2>4. /\ loaded' = [loaded EXCEPT ![v] = "no"] /\ alive' = AliveAfterClose(v)
        /\ swapped' = swapped \cup Checked(v)
    BY <2>1
  <2>5. mux' = mux /\ dev' = dev /\ lock' = lock /\ use' = use /\ unlocked' = unlocked
    BY <2>1
  <2> HIDE DEF BusInv
  <2>6. BusInv
    BY DEF BusInv
  <2> QED BY <2>3, <2>4, <2>5, <2>6, UnloadKeeps
<1>10. CASE Load(p)
  <2>1. /\ pc[p] = "load" /\ mux' = mux /\ dev' = dev /\ lock' = lock /\ use' = use
        /\ alive' = alive /\ hits' = hits
        /\ \A q \in Proc : q # p => pc'[q] = pc[q]
        /\ pc'[p] \in {"call", "return"}
    BY <1>10 DEF Load, Goto, calls, hits, TidyInv, TypeOK
  <2>2. Drv(p) \in Driver
    BY <2>1, WorkTyped DEF AtWork, PC
  <2>3. pc'[p] = "call" => loaded'[Drv(p)] = Res(p)
    BY <1>10, <2>2 DEF Load, Goto, calls, TidyInv, TypeOK
  <2>4. LockOwn'
    BY <2>1 DEF LockOwn, Res, HasLock, Holding, hits
  <2>5. PluginOwn'
    <3> SUFFICES ASSUME NEW q \in Proc, q \notin swapped, pc'[q] = "call" \/ InPlugin(q)'
                 PROVE  /\ loaded'[Drv(q)] = Res(q)
                        /\ InPlugin(q)' => use[q] = Res(q) /\ alive[q]
      BY <2>1 DEF PluginOwn, Res, Drv, hits
    <3>1. CASE q = p
      BY <2>1, <2>3, <3>1 DEF InPlugin
    <3>2. CASE q # p
      <4>1. pc[q] = "call" \/ InPlugin(q)
        BY <2>1, <3>2 DEF InPlugin
      <4>2. loaded'[Drv(q)] = loaded[Drv(q)]
        BY <1>10, <2>2, <4>1, LoadKeeps DEF Load
      <4> QED BY <2>1, <3>2, <4>1, <4>2 DEF PluginOwn, InPlugin
    <3> QED BY <3>1, <3>2
  <2> QED BY <2>4, <2>5
<1> QED BY <1>1, <1>2, <1>3, <1>4, <1>5, <1>6, <1>7, <1>8, <1>9, <1>10 DEF Step

\* What operators do.
LEMMA BusAdmin ==
    ASSUME BusInv, TidyInv',
           (\E r \in Resource : CloseResource(r) \/ SetResourcePath(r))
           \/ \E v \in Driver : UnloadDriver(v) \/ LoadDriver(v)
    PROVE  BusInv'
<1> USE DEF BusInv
<1>1. CASE \E r \in Resource : CloseResource(r)
  <2> PICK r \in Resource : CloseResource(r)
    BY <1>1
  <2>1. /\ dev' = dev /\ lock' = lock /\ use' = use /\ alive' = alive /\ loaded' = loaded
        /\ swapped' = swapped /\ mux' = [mux EXCEPT ![r] = None]
        /\ unlocked' = unlocked \cup {p \in Proc : lock[p] # None /\ Res(p) = r}
        /\ \A q \in Proc : pc'[q] = pc[q] \/ (pc[q] = "io" /\ pc'[q] = "plugin")
    BY DEF CloseResource, Broken, calls, TidyInv, TypeOK
  <2>2. LockOwn'
    <3> SUFFICES ASSUME NEW q \in Proc, pc'[q] \in HasLock, q \notin unlocked'
                 PROVE  lock[q] = mux'[Res(q)]
      BY <2>1 DEF LockOwn, Res
    <3>1. pc[q] \in HasLock /\ q \notin unlocked
      BY <2>1 DEF HasLock, Holding
    <3>2. lock[q] # None /\ lock[q] = mux[Res(q)]
      BY <3>1 DEF TidyInv, Placed, LockOwn
    <3> QED BY <2>1, <3>2 DEF TidyInv, TypeOK
  <2>3. PluginOwn'
    BY <2>1 DEF PluginOwn, InPlugin, Res, Drv
  <2> QED BY <2>2, <2>3
<1>2. CASE \E r \in Resource : SetResourcePath(r)
  <2>1. /\ mux' = mux /\ loaded' = loaded /\ calls' = calls /\ hits' = hits
        /\ \A q \in Proc : pc'[q] = pc[q] \/ (pc[q] = "io" /\ pc'[q] = "plugin")
    BY <1>2 DEF SetResourcePath, Broken, TidyInv, TypeOK
  <2>2. \A q \in Proc : SameFor(q)
    BY <2>1 DEF calls, hits, SameFor, HasLock, Holding, InPlugin
  <2> QED BY <2>1, <2>2, SameKeeps
<1>3. CASE \E v \in Driver : UnloadDriver(v)
  <2> PICK v \in Driver : UnloadDriver(v)
    BY <1>3
  <2>1. \A q \in Proc : NoFurther(q)
    BY DEF UnloadDriver, InPlugin, NoFurther
  <2>2. /\ loaded' = [loaded EXCEPT ![v] = "no"] /\ alive' = AliveAfterClose(v)
        /\ swapped' = swapped \cup Checked(v)
        /\ mux' = mux /\ dev' = dev /\ lock' = lock /\ use' = use /\ unlocked' = unlocked
    BY DEF UnloadDriver
  <2> QED BY <2>1, <2>2, UnloadKeeps
<1>4. CASE \E v \in Driver : LoadDriver(v)
  <2> PICK v \in Driver : LoadDriver(v)
    BY <1>4
  <2> PICK r \in Resource \cup {None} : loaded' = [loaded EXCEPT ![v] = r]
    BY DEF LoadDriver
  <2>1. loaded[v] = "no" /\ mux' = mux /\ pc' = pc /\ calls' = calls /\ hits' = hits
    BY DEF LoadDriver
  <2>2. LockOwn'
    BY <2>1 DEF LockOwn, Res, calls, hits
  <2>3. PluginOwn'
    <3> SUFFICES ASSUME NEW q \in Proc, q \notin swapped, pc[q] = "call" \/ InPlugin(q)
                 PROVE  /\ loaded'[Drv(q)] = Res(q)
                        /\ InPlugin(q) => use[q] = Res(q) /\ alive[q]
      BY <2>1 DEF PluginOwn, InPlugin, Res, Drv, calls, hits
    <3>1. loaded'[Drv(q)] = loaded[Drv(q)]
      BY <2>1, LoadKeeps
    <3> QED BY <3>1 DEF PluginOwn
  <2> QED BY <2>2, <2>3
<1> QED BY <1>1, <1>2, <1>3, <1>4

LEMMA BusNext ==
    ASSUME BusInv, [Next]_vars
    PROVE  BusInv'
<1> USE DEF BusInv
<1>1. TidyInv'
  BY TidyStep
<1>2. CASE \E p \in Proc : Step(p)
  BY <1>1, <1>2, BusStep
<1>3. CASE \E p \in Proc, d \in Device : Begin(p, d)
  <2> PICK p \in Proc, d \in Device : Begin(p, d)
    BY <1>3
  <2>1. /\ pc'[p] = "path" /\ \A q \in Proc : q # p => pc'[q] = pc[q] /\ dev'[q] = dev[q]
        /\ mux' = mux /\ loaded' = loaded /\ lock' = lock /\ use' = use /\ alive' = alive
        /\ hits' = hits
    BY DEF Begin, Goto, hits, TidyInv, TypeOK
  <2>2. LockOwn' /\ PluginOwn'
    BY <2>1 DEF LockOwn, PluginOwn, Res, Drv, HasLock, Holding, InPlugin, hits
  <2> QED BY <1>1, <2>2
<1>4. CASE (\E r \in Resource : CloseResource(r) \/ SetResourcePath(r))
           \/ \E v \in Driver : UnloadDriver(v) \/ LoadDriver(v)
  BY <1>1, <1>4, BusAdmin
<1>5. CASE UNCHANGED vars
  <2>1. \A q \in Proc : SameFor(q)
    BY <1>5 DEF vars, calls, hits, SameFor, InPlugin
  <2> QED BY <1>1, <1>5, <2>1, SameKeeps DEF vars
<1> QED BY <1>2, <1>3, <1>4, <1>5 DEF Next

LEMMA BusSafe ==
    ASSUME BusInv
    PROVE  BusSerialised
<1> USE DEF BusInv
<1>1. OwnResource
  BY DEF OwnResource, PluginOwn
<1>2. ResourceExclusive
  BY <1>1, OneInside DEF ResourceExclusive, OwnResource, Holding, InPlugin, Calm
<1>3. PluginExclusive
  <2> SUFFICES ASSUME NEW p \in Proc, NEW q \in Proc, InPlugin(p), InPlugin(q),
                      Drv(q) = Drv(p), Calm(p), Calm(q)
               PROVE  p = q
    BY DEF PluginExclusive, PluginOwn
  <2>1. Res(p) = Res(q)
    BY DEF PluginOwn, Calm
  <2> QED BY <2>1, OneInside DEF InPlugin, Holding
<1> QED BY <1>1, <1>2, <1>3 DEF BusSerialised

\* One goroutine at a time transfers over a resource, a plugin serves one call
\* at a time, alive, and for its caller's own resource - however many
\* goroutines, devices and buses there are, whichever drivers they share and
\* whatever operators do - but for executions whose resource was closed, or
\* whose plugin was unloaded, while they were at work on it.
THEOREM BusKept == Spec => []BusSerialised
<1>1. Init => BusInv
  BY BusInit
<1>2. BusInv /\ [Next]_vars => BusInv'
  BY BusNext
<1>3. BusInv => BusSerialised
  BY BusSafe
<1> QED BY <1>1, <1>2, <1>3, PTL DEF Spec
=============================================================================

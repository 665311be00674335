--------------------------- MODULE DriverExecutor ---------------------------
(***************************************************************************)
(* internal/driver: DriverExecutor runs a device's driver plugin while it  *)
(* holds the mutex of the device's resource (a serial port or a TCP        *)
(* address), and DriverManager keeps one loaded plugin per driver, bound   *)
(* to the resource it was loaded for.  A plugin reaches the hardware       *)
(* through host functions that look the resource up again.                 *)
(*                                                                         *)
(* A mutex is an object of its own: resourceMux maps a resource to one,    *)
(* and CloseResource forgets it whether or not somebody holds it.  Every   *)
(* device here has a resource (resourceID > 0).  A plugin call is a        *)
(* sequence of transfers, each of which looks its port or connection up;   *)
(* closing a port or connection ends the transfer in progress on it.       *)
(***************************************************************************)
EXTENDS Integers, FiniteSets

CONSTANTS
    Proc,        \* goroutines that execute drivers
    Device, Resource, Driver,
    ResOf,       \* ResOf[d]: the resource of device d
    DrvOf,       \* DrvOf[d]: the driver of device d
    Net,         \* the resources of type "net"; the others are serial
    Mutex,       \* mutex objects
    MaxAdmin,    \* bound: operator actions on resources and drivers
    None         \* no mutex, no resource, no device, nobody

ASSUME ExecutorAssumption ==
    /\ ResOf \in [Device -> Resource] /\ DrvOf \in [Device -> Driver]
    /\ Net \subseteq Resource /\ MaxAdmin \in Nat
    /\ None \notin Proc \cup Device \cup Resource \cup Mutex
    /\ "no" \notin Resource \cup {None}

VARIABLES
    executing,   \* e.executing: devices being read
    mux,         \* e.resourceMux
    owner,       \* who has locked a mutex
    path,        \* resources with an entry in e.resourcePaths
    open,        \* resources with an open serial port or TCP connection
    loaded,      \* m.drivers: "no", or the resource the plugin is bound to
    pc, dev,     \* each goroutine's place and device
    lock,        \* the mutex executePrepared... locks
    dialLock,    \* the mutex GetTCPConn locks
    use,         \* the resource the called plugin is bound to
    alive,       \* the called plugin has not been closed
    unlocked,    \* executions whose mutex was forgotten while they had it
    swapped,     \* executions whose plugin was unloaded after they had checked it
    admin        \* operator actions so far

calls == <<dev, lock, dialLock, use, alive>>
hits  == <<unlocked, swapped>>
vars  == <<executing, mux, owner, path, open, loaded, pc, calls, hits, admin>>

Res(p) == ResOf[dev[p]]
Drv(p) == DrvOf[dev[p]]
Bound  == Resource \cup {None, "no"}
InPlugin(p) == pc[p] \in {"plugin", "io", "dial_lock", "dial"}

Init ==
    /\ executing = {} /\ mux = [r \in Resource |-> None]
    /\ owner = [m \in Mutex |-> None]
    /\ path = {} /\ open = {}
    /\ loaded \in [Driver -> Bound]
    /\ pc = [p \in Proc |-> "idle"] /\ dev = [p \in Proc |-> None]
    /\ lock = [p \in Proc |-> None] /\ dialLock = [p \in Proc |-> None]
    /\ use = [p \in Proc |-> None] /\ alive = [p \in Proc |-> FALSE]
    /\ unlocked = {} /\ swapped = {} /\ admin = 0

Goto(p, q) == pc' = [pc EXCEPT ![p] = q]

-----------------------------------------------------------------------------
\* startExecution: a device that is already being read is refused.
\* Wrong variant: the flag is not tested.
Unchecked(d) == TRUE
NotExecuting(d) == d \notin executing

Begin(p, d) ==
    /\ pc[p] = "idle" /\ NotExecuting(d)
    /\ executing' = executing \cup {d}
    /\ dev' = [dev EXCEPT ![p] = d]
    /\ Goto(p, "path")
    /\ UNCHANGED <<mux, owner, path, open, loaded, lock, dialLock, use, alive, hits, admin>>

\* ensureResourcePath: a network resource without a path gets one, unless
\* neither the resource row nor the device has an address.
EnsurePath(p) ==
    /\ pc[p] = "path" /\ Goto(p, "getlock")
    /\ path' \in {path, path \cup ({Res(p)} \cap Net)}
    /\ UNCHANGED <<executing, mux, owner, open, loaded, calls, hits, admin>>

\* getResourceLock: LoadOrStore of a mutex nothing else refers to.
Fresh(m) ==
    /\ owner[m] = None
    /\ \A r \in Resource : mux[r] # m
    /\ \A p \in Proc : lock[p] # m /\ dialLock[p] # m

\* Wrong variant: the mutex is stored without looking for an earlier one.
StoredAnew(r, m) == Fresh(m)
LockOf(r, m) == IF mux[r] = None THEN Fresh(m) ELSE m = mux[r]

GetLock(p) ==
    /\ pc[p] = "getlock" /\ Goto(p, "acquire")
    /\ \E m \in Mutex :
         /\ LockOf(Res(p), m)
         /\ mux' = [mux EXCEPT ![Res(p)] = m]
         /\ lock' = [lock EXCEPT ![p] = m]
    /\ UNCHANGED <<executing, owner, path, open, loaded, dev, dialLock, use, alive, hits, admin>>

Acquire(p) ==
    /\ pc[p] = "acquire" /\ owner[lock[p]] = None
    /\ owner' = [owner EXCEPT ![lock[p]] = p]
    /\ Goto(p, "locked")
    /\ UNCHANGED <<executing, mux, path, open, loaded, calls, hits, admin>>

\* ensureSerialResource opens the port of a serial resource.
OpenSerial(p) ==
    /\ pc[p] = "locked" /\ Goto(p, "check")
    /\ open' = IF Res(p) \in Net THEN open ELSE open \cup {Res(p)}
    /\ UNCHANGED <<executing, mux, owner, path, loaded, calls, hits, admin>>

\* ensureDriverLoaded: a plugin bound to another resource is reloaded.
CheckDriver(p) ==
    /\ pc[p] = "check"
    /\ Goto(p, IF loaded[Drv(p)] = Res(p) THEN "call" ELSE "reload")
    /\ UNCHANGED <<executing, mux, owner, path, open, loaded, calls, hits, admin>>

\* UnloadDriver closes the plugin, whoever is running it.
AliveAfterClose(v) == [q \in Proc |-> alive[q] /\ Drv(q) # v]
Checked(v) == {q \in Proc : (pc[q] = "call" \/ InPlugin(q)) /\ Drv(q) = v}

Unload(p) ==
    /\ pc[p] = "reload" /\ Goto(p, "load")
    /\ loaded' = [loaded EXCEPT ![Drv(p)] = "no"]
    /\ alive' = AliveAfterClose(Drv(p)) /\ swapped' = swapped \cup Checked(Drv(p))
    /\ UNCHANGED <<executing, mux, owner, path, open, dev, lock, dialLock, use, unlocked, admin>>

\* LoadDriver refuses a driver that somebody else has loaded meanwhile.
\* Wrong variant: the plugin is bound to the resource of its config schema.
LoadForSchema(p) ==
    /\ pc[p] = "load" /\ Goto(p, "call")
    /\ \E r \in Resource : loaded' = [loaded EXCEPT ![Drv(p)] = r]
    /\ UNCHANGED <<executing, mux, owner, path, open, calls, hits, admin>>

Load(p) ==
    /\ pc[p] = "load"
    /\ IF loaded[Drv(p)] = "no"
       THEN loaded' = [loaded EXCEPT ![Drv(p)] = Res(p)] /\ Goto(p, "call")
       ELSE Goto(p, "return") /\ UNCHANGED loaded
    /\ UNCHANGED <<executing, mux, owner, path, open, calls, hits, admin>>

\* executeDriverWithInput looks the plugin up again, and calls it.
Call(p) ==
    /\ pc[p] = "call"
    /\ IF loaded[Drv(p)] = "no"
       THEN Goto(p, "return") /\ UNCHANGED <<use, alive>>
       ELSE /\ Goto(p, "plugin")
            /\ use' = [use EXCEPT ![p] = loaded[Drv(p)]]
            /\ alive' = [alive EXCEPT ![p] = TRUE]
    /\ UNCHANGED <<executing, mux, owner, path, open, loaded, dev, lock, dialLock, hits, admin>>

-----------------------------------------------------------------------------
(* Host functions, called by the plugin with the resource it is bound to.   *)

\* GetSerialPort or GetTCPConn finds the port or connection.
StartIO(p) ==
    /\ pc[p] = "plugin" /\ use[p] \in open /\ Goto(p, "io")
    /\ UNCHANGED <<executing, mux, owner, path, open, loaded, calls, hits, admin>>

\* The plugin returns: it is done, it gives up because a host function had no
\* port or connection for it, or its context has expired.
PluginReturn(p) ==
    /\ pc[p] = "plugin" /\ Goto(p, "return")
    /\ UNCHANGED <<executing, mux, owner, path, open, loaded, calls, hits, admin>>

\* GetTCPConn must dial: it locks the resource's mutex first.
DialGetLock(p) ==
    /\ pc[p] = "plugin" /\ use[p] \in Net \cap path /\ use[p] \notin open
    /\ \E m \in Mutex :
         /\ LockOf(use[p], m)
         /\ mux' = [mux EXCEPT ![use[p]] = m]
         /\ dialLock' = [dialLock EXCEPT ![p] = m]
    /\ Goto(p, "dial_lock")
    /\ UNCHANGED <<executing, owner, path, open, loaded, dev, lock, use, alive, hits, admin>>

DialAcquire(p) ==
    /\ pc[p] = "dial_lock" /\ owner[dialLock[p]] = None
    /\ owner' = [owner EXCEPT ![dialLock[p]] = p]
    /\ Goto(p, "dial")
    /\ UNCHANGED <<executing, mux, path, open, loaded, calls, hits, admin>>

\* The dial succeeds or gives up after its attempts; then the mutex is freed.
Dial(p) ==
    /\ pc[p] = "dial"
    /\ owner' = [owner EXCEPT ![dialLock[p]] = None]
    /\ dialLock' = [dialLock EXCEPT ![p] = None]
    /\ \/ open' = open \cup {use[p]} /\ Goto(p, "io")
       \/ UNCHANGED open /\ Goto(p, "plugin")
    /\ UNCHANGED <<executing, mux, path, loaded, dev, lock, use, alive, hits, admin>>

\* Closing resource r's port or connection ends the transfers over it.
Broken(r) == [q \in Proc |-> IF pc[q] = "io" /\ use[q] = r THEN "plugin" ELSE pc[q]]

EndIO(p) ==
    /\ pc[p] = "io" /\ Goto(p, "plugin")
    /\ UNCHANGED <<executing, mux, owner, path, open, loaded, calls, hits, admin>>

\* A failed transfer closes the TCP connection (UnregisterTCP).
FailIO(p) ==
    /\ pc[p] = "io" /\ use[p] \in Net
    /\ open' = open \ {use[p]} /\ pc' = Broken(use[p])
    /\ UNCHANGED <<executing, mux, owner, path, loaded, calls, hits, admin>>

\* The deferred calls, unlock and then done, on every way out.
\* Wrong variant: the mutex stays locked.
StillLocked(p) == owner
Unlocked(p) == [owner EXCEPT ![lock[p]] = None]

Finish(p) ==
    /\ owner' = Unlocked(p)
    /\ executing' = executing \ {dev[p]}
    /\ dev' = [dev EXCEPT ![p] = None] /\ lock' = [lock EXCEPT ![p] = None]
    /\ use' = [use EXCEPT ![p] = None] /\ alive' = [alive EXCEPT ![p] = FALSE]
    /\ Goto(p, "idle")
    /\ unlocked' = unlocked \ {p} /\ swapped' = swapped \ {p}
    /\ UNCHANGED <<mux, path, open, loaded, dialLock, admin>>

Return(p) == pc[p] = "return" /\ Finish(p)

\* Opening the port, reading the driver row or loading the plugin fails.
Fail(p) == pc[p] \in {"locked", "reload", "load"} /\ Finish(p)

-----------------------------------------------------------------------------
(* Operators change resources and drivers through the HTTP interface.       *)

\* A resource is deleted, disabled, or a serial one is edited.
CloseResource(r) ==
    /\ admin < MaxAdmin /\ admin' = admin + 1
    /\ open' = open \ {r} /\ path' = path \ {r} /\ pc' = Broken(r)
    /\ mux' = [mux EXCEPT ![r] = None]
    /\ unlocked' = unlocked \cup {p \in Proc : lock[p] # None /\ Res(p) = r}
    /\ UNCHANGED <<executing, owner, loaded, calls, swapped>>

\* A network resource is edited.  SetResourcePath with another path, or with
\* none, closes the connection to the old one.
SetResourcePath(r) ==
    /\ admin < MaxAdmin /\ admin' = admin + 1
    /\ r \in Net /\ path' \in {path \cup {r}, path \ {r}}
    /\ IF r \in path THEN open' = open \ {r} /\ pc' = Broken(r)
                     ELSE UNCHANGED <<open, pc>>
    /\ UNCHANGED <<executing, mux, owner, loaded, calls, hits>>

UnloadDriver(v) ==
    /\ admin < MaxAdmin /\ admin' = admin + 1
    /\ loaded' = [loaded EXCEPT ![v] = "no"]
    /\ alive' = AliveAfterClose(v) /\ swapped' = swapped \cup Checked(v)
    /\ UNCHANGED <<executing, mux, owner, path, open, pc, dev, lock, dialLock, use, unlocked>>

\* CreateDriver, UpdateDriver and the second half of ReloadDriver: the plugin
\* is bound to the resource its config schema names, if any.
LoadDriver(v) ==
    /\ admin < MaxAdmin /\ admin' = admin + 1
    /\ loaded[v] = "no"
    /\ \E r \in Resource \cup {None} : loaded' = [loaded EXCEPT ![v] = r]
    /\ UNCHANGED <<executing, mux, owner, path, open, pc, calls, hits>>

Step(p) ==
    \/ EnsurePath(p) \/ GetLock(p) \/ Acquire(p) \/ OpenSerial(p)
    \/ CheckDriver(p) \/ Unload(p) \/ Load(p) \/ Call(p)
    \/ StartIO(p) \/ EndIO(p) \/ FailIO(p) \/ PluginReturn(p)
    \/ DialGetLock(p) \/ DialAcquire(p) \/ Dial(p)
    \/ Return(p) \/ Fail(p)

Next ==
    \/ \E p \in Proc : Step(p) \/ \E d \in Device : Begin(p, d)
    \/ \E r \in Resource : CloseResource(r) \/ SetResourcePath(r)
    \/ \E v \in Driver : UnloadDriver(v) \/ LoadDriver(v)

Spec == Init /\ [][Next]_vars

\* Each goroutine keeps running, a Go mutex starves nobody, and a plugin call
\* does not transfer for ever: executeDriverWithInput gives it a deadline.
FairSpec ==
    /\ Spec
    /\ \A p \in Proc : /\ WF_vars(Step(p)) /\ SF_vars(Acquire(p))
                       /\ SF_vars(DialAcquire(p)) /\ SF_vars(PluginReturn(p))

-----------------------------------------------------------------------------
(* Properties.                                                              *)

PC == {"idle", "path", "getlock", "acquire", "locked", "check", "reload", "load", "call",
       "plugin", "dial_lock", "dial", "io", "return"}

\* Every variable has the type its field has in the code.
TypeOK ==
    /\ executing \subseteq Device /\ path \subseteq Resource /\ open \subseteq Resource
    /\ mux \in [Resource -> Mutex \cup {None}] /\ owner \in [Mutex -> Proc \cup {None}]
    /\ loaded \in [Driver -> Bound] /\ pc \in [Proc -> PC]
    /\ dev \in [Proc -> Device \cup {None}]
    /\ lock \in [Proc -> Mutex \cup {None}] /\ dialLock \in [Proc -> Mutex \cup {None}]
    /\ use \in [Proc -> Resource \cup {None}] /\ alive \in [Proc -> BOOLEAN]
    /\ unlocked \subseteq Proc /\ swapped \subseteq Proc /\ admin \in Nat

\* startExecution: the flag stands for exactly one execution, whatever way
\* out earlier executions of the device took.
OneReadPerDevice ==
    /\ \A p, q \in Proc : dev[p] = dev[q] /\ dev[p] # None => p = q
    /\ executing = {dev[p] : p \in {q \in Proc : dev[q] # None}}

Holding == {"locked", "check", "reload", "load", "call", "plugin", "dial_lock", "dial",
            "io", "return"}

\* A mutex is locked by goroutines inside executePreparedWithContextAndConfig
\* or GetTCPConn only: every error path gives it back.
LocksGivenBack ==
    \A m \in Mutex : owner[m] # None =>
        LET p == owner[m]
        IN  (pc[p] \in Holding /\ lock[p] = m) \/ (pc[p] = "dial" /\ dialLock[p] = m)

\* Nothing the mutex of the resource does not guard was done to execution p: its
\* resource was not closed, nor its plugin unloaded, while p was at work on it.
Calm(p) == p \notin unlocked \cup swapped

\* At most one goroutine at a time transfers data over a resource (README:
\* access to the underlying resource is serialised per resource).
ResourceExclusive ==
    \A p, q \in Proc :
        pc[p] = "io" /\ pc[q] = "io" /\ use[p] = use[q] /\ Calm(p) /\ Calm(q) => p = q

\* A plugin, which is one WASM instance, serves one call at a time and is not
\* closed under it.
PluginExclusive ==
    \A p \in Proc : InPlugin(p) /\ p \notin swapped =>
        /\ alive[p]
        /\ \A q \in Proc : InPlugin(q) /\ Drv(q) = Drv(p) /\ Calm(p) /\ Calm(q) => p = q

\* A plugin serves the device's own resource, whose mutex its caller holds.
OwnResource == \A p \in Proc : InPlugin(p) /\ p \notin swapped => use[p] = Res(p)

\* Every execution returns.
ExecutionReturns == \A p \in Proc : pc[p] # "idle" ~> pc[p] = "idle"

\* GetTCPConn connects lazily: a goroutine that needs a connection gets past
\* the resource's mutex (README: connections are set up serially per resource).
LazyConnects == \A p \in Proc : pc[p] = "dial_lock" ~> pc[p] # "dial_lock"

\* One transfer at a time over a resource, one call at a time in a plugin, and
\* each on the resource whose mutex is held: whatever operators and devices of
\* the same driver on other resources did to earlier or concurrent executions,
\* those it was not done to keep each other out.
BusSerialised == ResourceExclusive /\ PluginExclusive /\ OwnResource

\* Whichever way out executions take, flags and mutexes belong to those under way.
ExecutionsTidy == TypeOK /\ OneReadPerDevice /\ LocksGivenBack
=============================================================================

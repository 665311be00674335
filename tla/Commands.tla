------------------------------ MODULE Commands ------------------------------
(***************************************************************************)
(* Commands from the platforms: the downlink handlers of the adapters      *)
(* (ithings_downlink.go, sagoo_downlink.go, pandax_rpc.go), the queues the *)
(* collector pulls from (northbound/manager.go) and the worker that runs   *)
(* the commands one by one and reports their results to every enabled      *)
(* adapter (collector/command_poll.go).                                    *)
(*                                                                         *)
(* A message carries one request: to write some fields of a device, or to  *)
(* invoke an action; each field or action is a command.  iThings answers a *)
(* request once, from the state it keeps for it; Sagoo answers it when it  *)
(* arrives and, like PandaX, each result.  Requests have ids of their own: *)
(* a message delivered twice is left out, and so are two platforms that    *)
(* choose the same id.                                                     *)
(***************************************************************************)
EXTENDS Integers, Sequences

CONSTANTS
    IThings, Sagoo, PandaX,   \* the adapters of each type
    MaxFields,     \* fields a request writes
    CommandCap,    \* commandCap
    PullLimit,     \* commands pulled at once
    MaxMessages    \* bound: messages received

ASSUME CommandsAssumption ==
    {CommandCap, PullLimit, MaxFields} \subseteq Nat \ {0} /\ MaxMessages \in Nat

CmdAdapter == IThings \cup Sagoo \cup PandaX
Kind == {"control", "action"}
Request == 1 .. MaxMessages     \* the requests' ids, in the order they arrive
CommandNr == 1 .. MaxMessages * MaxFields

VARIABLES
    enabledAdapters,  \* enabledAdapterRefs: registered and enabled
    commandQueue,     \* of each adapter: commands, by their number and request
    requestStates,    \* of each iThings adapter: [request |-> state], of the open ones
    handler,          \* the message whose commands are queued and whose state is not yet kept
    poll,             \* where processNorthboundCommands is
    messages, nextNr, \* messages received, number of the next command
    origin,           \* [request |-> [by, kind, nrs]]: where a request came from
    executed,         \* of each adapter: the number of the last command of its that was run
    ran, failedRun,   \* numbers of the commands of iThings that were run, and that failed
    reported,         \* of each adapter: the last command whose result was reported to it
    reply,            \* replies the last step published: [by, req, kind, ok, from]
    cmdPanicked       \* a handler wrote to the map Close had removed

ghosts == <<origin, executed, ran, failedRun, reported>>
CommandsVars == <<enabledAdapters, commandQueue, requestStates, handler, poll, messages, nextNr,
                  ghosts, reply, cmdPanicked>>

NoMessage == [req |-> 0, kind |-> "control", pending |-> 0]
NoPoll == [pc |-> "idle", left |-> {}, batch |-> <<>>, ok |-> TRUE]
NoStates == [r \in {} |-> NoMessage]

CommandsInit ==
    /\ enabledAdapters = CmdAdapter
    /\ commandQueue = [a \in CmdAdapter |-> <<>>]
    /\ requestStates = [a \in CmdAdapter |-> NoStates]
    /\ handler = [a \in CmdAdapter |-> NoMessage]
    /\ poll = NoPoll /\ messages = 0 /\ nextNr = 1
    /\ origin = [r \in {} |-> NoMessage]
    /\ executed = [a \in CmdAdapter |-> 0] /\ reported = [a \in CmdAdapter |-> 0]
    /\ ran = {} /\ failedRun = {} /\ reply = {} /\ cmdPanicked = FALSE

Says(a, r, kind, ok, from) ==
    reply' = {[by |-> a, req |-> r, kind |-> kind, ok |-> ok, from |-> from]}

-----------------------------------------------------------------------------
(* Receiving.  A client runs one handler at a time.                         *)

\* appendCommandQueueWithCap: the oldest commands give way.
Capped(q) == IF Len(q) > CommandCap THEN SubSeq(q, Len(q) - CommandCap + 1, Len(q)) ELSE q
Nrs(q) == {q[i].nr : i \in DOMAIN q}

\* The commands of a request: one per field, in the order of their names.
\* Wrong variant: the newest comes first.
BuiltBackwards(a, r, n) == [i \in 1 .. n |-> [by |-> a, req |-> r, nr |-> nextNr + n - i]]
Built(a, r, n) == [i \in 1 .. n |-> [by |-> a, req |-> r, nr |-> nextNr + i - 1]]

IThingsCommands(a, r, kind, n) == Built(a, r, IF kind = "action" THEN 1 ELSE n)
SagooCommands(a, r, n) == Built(a, r, n)
\* A call without fields is a command itself, named by its method.
PandaXCommands(a, r, n) == Built(a, r, IF n = 0 THEN 1 ELSE n)

Receive(a, r, kind, commands) ==
    /\ a \in enabledAdapters /\ handler[a] = NoMessage /\ messages < MaxMessages
    /\ r = messages + 1
    /\ messages' = messages + 1 /\ nextNr' = nextNr + Len(commands)
    /\ commandQueue' = [commandQueue EXCEPT ![a] = Capped(@ \o commands)]
    /\ origin' = [x \in DOMAIN origin \cup {r} |->
            IF x = r THEN [by |-> a, kind |-> kind, nrs |-> Nrs(commands)] ELSE origin[x]]
    /\ UNCHANGED <<enabledAdapters, requestStates, poll, executed, ran, failedRun, reported, cmdPanicked>>

\* handleDownlink: the request's state is kept only after the queue is let go.
IThingsDownlink(a, r, kind, n) ==
    LET commands == IThingsCommands(a, r, kind, n) IN
    /\ a \in IThings /\ commands # <<>> /\ Receive(a, r, kind, commands)
    /\ handler' = [handler EXCEPT ![a] = [req |-> r, kind |-> kind, pending |-> Len(commands)]]
    /\ reply' = {}

\* handlePropertySet says success before anything was run.
SagooPropertySet(a, r, n) ==
    /\ a \in Sagoo /\ Receive(a, r, "control", SagooCommands(a, r, n))
    /\ Says(a, r, "control", TRUE, "receipt") /\ UNCHANGED handler

\* handleServiceCall: its parameters are queued like the fields of a write.
SagooServiceCall(a, r, n) ==
    /\ a \in Sagoo /\ Receive(a, r, "action", IF n = 0 THEN <<>> ELSE SagooCommands(a, r, n))
    /\ Says(a, r, "action", TRUE, "receipt") /\ UNCHANGED handler

\* handleConfigPush is answered, and nothing is done.
SagooConfigPush(a, r) ==
    /\ a \in Sagoo /\ Receive(a, r, "config", <<>>)
    /\ Says(a, r, "config", TRUE, "receipt") /\ UNCHANGED handler

\* handleRPCRequest
PandaXRequest(a, r, n) ==
    /\ a \in PandaX /\ Receive(a, r, "control", PandaXCommands(a, r, n))
    /\ reply' = {} /\ UNCHANGED handler

\* The map is gone when Close has run meanwhile.
RegisterRequest(a) ==
    /\ handler[a] # NoMessage
    /\ IF a \in enabledAdapters
       THEN /\ requestStates' = [requestStates EXCEPT ![a] =
                 [r \in DOMAIN @ \cup {handler[a].req} |->
                    IF r = handler[a].req
                    THEN [kind |-> handler[a].kind, pending |-> handler[a].pending, ok |-> TRUE]
                    ELSE @[r]]]
            /\ UNCHANGED cmdPanicked
       ELSE cmdPanicked' = TRUE /\ UNCHANGED requestStates
    /\ handler' = [handler EXCEPT ![a] = NoMessage] /\ reply' = {}
    /\ UNCHANGED <<enabledAdapters, commandQueue, poll, messages, nextNr, ghosts>>

\* UnregisterAdapter: stopped, closed and no longer enabled.
RemoveAdapter(a) ==
    /\ a \in enabledAdapters /\ enabledAdapters' = enabledAdapters \ {a}
    /\ commandQueue' = [commandQueue EXCEPT ![a] = <<>>]
    /\ requestStates' = [requestStates EXCEPT ![a] = NoStates] /\ reply' = {}
    /\ UNCHANGED <<handler, poll, messages, nextNr, ghosts, cmdPanicked>>

-----------------------------------------------------------------------------
(* processNorthboundCommands.                                               *)

PollTick ==
    /\ poll.pc = "idle" /\ \E a \in CmdAdapter : commandQueue[a] # <<>>
    /\ poll' = [NoPoll EXCEPT !.pc = "pull", !.left = enabledAdapters] /\ reply' = {}
    /\ UNCHANGED <<enabledAdapters, commandQueue, requestStates, handler, messages, nextNr, ghosts, cmdPanicked>>

\* PullCommands of one adapter: the oldest, and the rest stay.
\* Wrong variant: the rest is dropped.
RestDropped(q, n) == <<>>
Rest(q, n) == SubSeq(q, n + 1, Len(q))

Pulling(a) ==
    /\ poll.pc = "pull" /\ a \in poll.left /\ Len(poll.batch) < PullLimit /\ reply' = {}
    /\ LET q == commandQueue[a]
           room == PullLimit - Len(poll.batch)
           n == IF Len(q) < room THEN Len(q) ELSE room
       IN  /\ poll' = [poll EXCEPT !.left = @ \ {a}, !.batch = @ \o SubSeq(q, 1, n)]
           /\ commandQueue' = [commandQueue EXCEPT ![a] = Rest(q, n)]
    /\ UNCHANGED <<enabledAdapters, requestStates, handler, messages, nextNr, ghosts, cmdPanicked>>
IThingsPull(a) == a \in IThings /\ Pulling(a)
SagooPull(a) == a \in Sagoo /\ Pulling(a)
PandaXPull(a) == a \in PandaX /\ Pulling(a)

PullEnds ==
    /\ poll.pc = "pull" /\ (poll.left = {} \/ Len(poll.batch) >= PullLimit) /\ reply' = {}
    /\ poll' = IF poll.batch = <<>> THEN NoPoll ELSE [poll EXCEPT !.pc = "run", !.left = {}]
    /\ UNCHANGED <<enabledAdapters, commandQueue, requestStates, handler, messages, nextNr, ghosts, cmdPanicked>>

\* executeNorthboundCommand: the driver writes the field, or some step of it
\* fails.  The refs the result goes to are taken after that.
Execute(ok) ==
    /\ poll.pc = "run" /\ reply' = {}
    /\ LET c == Head(poll.batch)
       IN  /\ executed' = [executed EXCEPT ![c.by] = c.nr]
           /\ ran' = IF c.by \in IThings THEN ran \cup {c.nr} ELSE ran
           /\ failedRun' = IF ok \/ c.by \notin IThings THEN failedRun ELSE failedRun \cup {c.nr}
    /\ poll' = [poll EXCEPT !.pc = "report", !.ok = ok, !.left = enabledAdapters]
    /\ UNCHANGED <<enabledAdapters, commandQueue, requestStates, handler, messages, nextNr,
                   origin, reported, cmdPanicked>>

Reporting(a) ==
    /\ poll.pc = "report" /\ a \in poll.left
    /\ poll' = [poll EXCEPT !.left = @ \ {a}]
    /\ reported' = IF Head(poll.batch).by = a THEN [reported EXCEPT ![a] = Head(poll.batch).nr] ELSE reported
    /\ UNCHANGED <<enabledAdapters, commandQueue, handler, messages, nextNr,
                   origin, executed, ran, failedRun, cmdPanicked>>

\* A result is answered by itself, as a write, whoever asked for it.
ReportAlone(a) ==
    /\ IF a \in enabledAdapters THEN Says(a, Head(poll.batch).req, "control", poll.ok, "result")
       ELSE reply' = {}
    /\ UNCHANGED requestStates
SagooReport(a) == a \in Sagoo /\ Reporting(a) /\ ReportAlone(a)
PandaXReport(a) == a \in PandaX /\ Reporting(a) /\ ReportAlone(a)

\* applyCommandResult: the state after a result.  ok is its Code, which every
\* result sets (it is 200 or 500, never 0); Success, which a failure clears for
\* good, is read only for a Code of 0.
\* Wrong variant: a failure settles the request.
AppliedAtOnce(s, ok) == [s EXCEPT !.pending = IF ok /\ @ > 0 THEN @ - 1 ELSE 0, !.ok = ok]
Applied(s, ok) == [s EXCEPT !.pending = IF @ > 0 THEN @ - 1 ELSE 0, !.ok = ok]

\* The last result answers the request, if there is a state for it, with its
\* own code: 200 after a failure that came before.
IThingsReport(a) ==
    LET r == Head(poll.batch).req IN
    /\ a \in IThings /\ Reporting(a)
    /\ IF r \notin DOMAIN requestStates[a] THEN ReportAlone(a)
       ELSE LET s == Applied(requestStates[a][r], poll.ok)
            IN  IF s.pending > 0
                THEN requestStates' = [requestStates EXCEPT ![a][r] = s] /\ reply' = {}
                ELSE /\ requestStates' = [requestStates EXCEPT ![a] =
                            [x \in DOMAIN @ \ {r} |-> @[x]]]
                     /\ Says(a, r, s.kind, s.ok, "state")

ReportEnds ==
    /\ poll.pc = "report" /\ poll.left = {} /\ reply' = {}
    /\ poll' = IF Len(poll.batch) = 1 THEN NoPoll
               ELSE [poll EXCEPT !.pc = "run", !.batch = Tail(@)]
    /\ UNCHANGED <<enabledAdapters, commandQueue, requestStates, handler, messages, nextNr, ghosts, cmdPanicked>>

PollStep ==
    \/ PollTick \/ PullEnds \/ ReportEnds
    \/ \E ok \in BOOLEAN : Execute(ok)
    \/ \E a \in CmdAdapter : IThingsPull(a) \/ SagooPull(a) \/ PandaXPull(a)
    \/ \E a \in CmdAdapter : IThingsReport(a) \/ SagooReport(a) \/ PandaXReport(a)

\* After a panic the process is gone.
CommandsNext ==
    /\ ~cmdPanicked
    /\ \/ PollStep
       \/ \E a \in CmdAdapter : RegisterRequest(a) \/ RemoveAdapter(a)
       \/ \E a \in CmdAdapter, r \in Request, n \in 0 .. MaxFields :
            \/ \E k \in Kind : IThingsDownlink(a, r, k, n)
            \/ SagooPropertySet(a, r, n) \/ SagooServiceCall(a, r, n)
            \/ PandaXRequest(a, r, n)
       \/ \E a \in CmdAdapter, r \in Request : SagooConfigPush(a, r)

\* The worker's ticker ticks and it finishes what it has pulled; a handler ends.
CommandsFairness ==
    /\ WF_CommandsVars(PollStep /\ ~cmdPanicked)
    /\ \A a \in CmdAdapter : WF_CommandsVars(RegisterRequest(a) /\ ~cmdPanicked)

CommandsSpec == CommandsInit /\ [][CommandsNext]_CommandsVars /\ CommandsFairness

-----------------------------------------------------------------------------
Command == [by : CmdAdapter, req : Request, nr : CommandNr]

CommandsTypeOK ==
    /\ enabledAdapters \subseteq CmdAdapter
    /\ \A a \in CmdAdapter :
        /\ Len(commandQueue[a]) <= CommandCap /\ commandQueue[a] \in Seq(Command)
        /\ DOMAIN requestStates[a] \subseteq Request /\ (a \notin IThings => requestStates[a] = NoStates)
        /\ \A r \in DOMAIN requestStates[a] :
            requestStates[a][r] \in [kind : Kind, pending : 1 .. MaxFields, ok : BOOLEAN]
        /\ handler[a].req \in Request \cup {0}
        /\ {executed[a], reported[a]} \subseteq CommandNr \cup {0}
    /\ poll.pc \in {"idle", "pull", "run", "report"} /\ Len(poll.batch) <= PullLimit
    /\ messages \in 0 .. MaxMessages /\ cmdPanicked \in BOOLEAN

\* The commands of an adapter are run in the order they arrived in, and each
\* at most once: a later write of a field is never undone by an earlier one.
CommandsInOrder ==
    [][\A a \in CmdAdapter : executed'[a] >= executed[a]
            /\ (poll.pc = "run" /\ poll'.pc = "report" /\ Head(poll.batch).by = a =>
                    executed'[a] > executed[a])]_CommandsVars

\* A platform is answered from a request's state only when every command of the
\* request has been run, none having given way in the queue or been reported
\* before the state was kept, and with the outcome of the newest of them.
AnswersWhole ==
    \A p \in reply : p.from = "state" =>
        LET nrs == origin[p.req].nrs
        IN  /\ nrs \subseteq ran
            /\ \A n \in nrs : (\A m \in nrs : m <= n) => (p.ok <=> n \notin failedRun)

Newest(a) ==
    LET nrs == UNION {origin[r].nrs : r \in {x \in DOMAIN origin : origin[x].by = a}}
    IN  IF nrs = {} THEN 0 ELSE CHOOSE n \in nrs : \A m \in nrs : m <= n

\* The worker always catches up: the newest command of every adapter that is
\* still enabled is run and its result reported to it (an older one too,
\* unless the queue was full and it gave way).
CommandsServed ==
    []<>(\A a \in enabledAdapters : cmdPanicked \/ reported[a] >= Newest(a))

\* The answer to an action is an actionReply (docs/ithings.md).  The code
\* breaks it when the poll overtakes the handler (README, section 7); no run
\* checks it.
ActionReplied ==
    \A p \in reply : origin[p.req].by = p.by => p.kind = origin[p.req].kind

\* Queues and request states are well formed, and answers say what happened.
AnswersTrue == CommandsTypeOK /\ AnswersWhole
=============================================================================

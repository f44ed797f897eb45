------------------------------ MODULE CadWorker ------------------------------
(***************************************************************************)
(* The dashboard's CAD worker (web/cad_worker.py) and the HTTP handlers    *)
(* that wait for it (_request_cad and _await_ticket in web/api.py).        *)
(*                                                                         *)
(* Handlers put requests in a bounded queue; one thread, which owns a COM  *)
(* apartment, takes them out and executes them under the CAD gate, which   *)
(* MCP tools take too.  Handlers give up at their deadline, clients hang   *)
(* up, the application shuts the worker down and may start another one.    *)
(* A critical section of _state_lock is one step, and so is an operation   *)
(* of a Future, an Event, the queue or the gate; everything else           *)
(* interleaves.                                                            *)
(***************************************************************************)
EXTENDS Naturals, Sequences, SequencesExt

CONSTANTS
    Request,      \* the HTTP requests for CAD commands
    QueueSize,    \* queue_size
    MaxWorkers    \* bound: how many workers the application starts

NoRequest == "none"

ASSUME WorkerAssumption ==
    /\ NoRequest \notin Request
    /\ QueueSize \in Nat \ {0}
    /\ MaxWorkers \in Nat \ {0}

VARIABLES
    caller,            \* where the handler of each request is
    answer,            \* what it told its client
    future,            \* the Future of the request
    cancel_requested,  \* the requests whose event is set
    running,           \* the requests whose event is set
    expired,           \* the requests whose deadline has passed
    queue,             \* _queue
    thread,            \* where the worker thread is
    current,           \* the request it executes
    outcome,           \* what became of its command
    doomed,            \* the requests its last drain has to settle
    closed, stop_requested, startup_error, com,  \* worker flags; COM is initialised
    stopper,           \* where shutdown() is
    finishing,         \* the requests shutdown() has to settle
    gate,              \* who holds the CAD gate
    entered,           \* history: the requests whose command has entered CAD code
    workers            \* history: how many workers there have been

callerVars == <<caller, answer, expired>>
ticketVars == <<future, cancel_requested, running>>
threadVars == <<thread, current, outcome, doomed>>
flagVars == <<closed, stop_requested, startup_error, com>>
stopVars == <<stopper, finishing>>
historyVars == <<entered, workers>>
vars == <<callerVars, ticketVars, queue, threadVars, flagVars, stopVars, gate, historyVars>>

Settled == {"cancelled", "result", "failed", "timeout", "stopped", "interrupted"}
Answer == {"none", "busy", "abandoned", "outcome_unknown"} \cup (Settled \ {"cancelled"})

\* Thread states that no longer execute a request.
Ended == {"none", "dead"}
Busy == {"took", "begin", "gate", "recheck", "mark", "command", "settle"}

TypeOK ==
    /\ caller \in [Request -> {"new", "waiting", "timedOut", "cancelling", "leaving", "answered"}]
    /\ answer \in [Request -> Answer]
    /\ future \in [Request -> {"none", "pending", "running"} \cup Settled]
    /\ cancel_requested \subseteq Request /\ running \subseteq Request /\ expired \subseteq Request
    /\ queue \in Seq(Request) /\ Len(queue) <= QueueSize
    /\ thread \in Ended \cup {"starting", "loop", "get", "final", "finish", "release"} \cup Busy
    /\ current \in Request \cup {NoRequest}
    /\ thread \in Busy <=> current # NoRequest
    /\ outcome \in {"none"} \cup (Settled \ {"cancelled"})
    /\ doomed \subseteq Request /\ finishing \subseteq Request
    /\ closed \in BOOLEAN /\ stop_requested \in BOOLEAN
    /\ startup_error \in BOOLEAN /\ com \in BOOLEAN
    /\ stopper \in {"idle", "finish", "join", "stopped", "stuck"}
    /\ gate \in {"free", "worker", "tool"}
    /\ entered \subseteq Request
    /\ workers \in 1 .. MaxWorkers

Init ==
    /\ caller = [r \in Request |-> "new"]
    /\ answer = [r \in Request |-> "none"]
    /\ future = [r \in Request |-> "none"]
    /\ cancel_requested = {} /\ running = {} /\ expired = {}
    /\ queue = <<>>
    /\ thread = "none" /\ current = NoRequest /\ outcome = "none" /\ doomed = {}
    /\ closed = FALSE /\ stop_requested = FALSE /\ startup_error = FALSE /\ com = FALSE
    /\ stopper = "idle" /\ finishing = {}
    /\ gate = "free"
    /\ entered = {} /\ workers = 1

-----------------------------------------------------------------------------
(* The handlers.                                                           *)

Tell(r, what) ==
    /\ caller' = [caller EXCEPT ![r] = "answered"]
    /\ answer' = [answer EXCEPT ![r] = what]

\* submit, one critical section.  The first request starts the thread.
Refuses == closed \/ stop_requested

\* Variants named <definition>_<slip> are what a plausible slip in the code
\* would make of a definition.  The specification does not use them.
HasRoom_OffByOne == Len(queue) <= QueueSize
HasRoom == Len(queue) < QueueSize

Submit(r) ==
    /\ caller[r] = "new"
    /\ \/ /\ Refuses \/ startup_error
          /\ Tell(r, "stopped")
          /\ UNCHANGED <<future, queue, thread>>
       \/ /\ ~Refuses /\ ~startup_error
          /\ thread' = IF thread = "none" THEN "starting" ELSE thread
          /\ \/ /\ HasRoom
                /\ queue' = Append(queue, r)
                /\ future' = [future EXCEPT ![r] = "pending"]
                /\ caller' = [caller EXCEPT ![r] = "waiting"]
                /\ UNCHANGED answer
             \/ /\ ~HasRoom
                /\ Tell(r, "busy")
                /\ UNCHANGED <<future, queue>>
    /\ UNCHANGED <<expired, cancel_requested, running, current, outcome, doomed,
                   flagVars, stopVars, gate, historyVars>>

\* The awaited Future is done; the handler answers with what it holds.
Receive(r) ==
    /\ caller[r] = "waiting" /\ future[r] \in Settled
    /\ Tell(r, IF future[r] = "interrupted" THEN "outcome_unknown" ELSE future[r])
    /\ UNCHANGED <<expired, ticketVars, queue, threadVars, flagVars, stopVars, gate, historyVars>>

RunsOut_Never(r) == FALSE
RunsOut(r) == r \in expired

\* cancel_requested is set first.  The Future may be done by then, for its
\* callback may not have run yet.
StopWaiting(r, next) ==
    /\ caller[r] = "waiting"
    /\ caller' = [caller EXCEPT ![r] = next]
    /\ cancel_requested' = cancel_requested \cup {r}
    /\ UNCHANGED <<answer, expired, future, running, queue, threadVars, flagVars, stopVars,
                   gate, historyVars>>

\* wait_for gives up.
GiveUp(r) == RunsOut(r) /\ StopWaiting(r, "timedOut")

\* The client hangs up, which cancels the handler.
HangUp(r) == StopWaiting(r, "leaving")

\* Future.cancel succeeds only on a pending Future.
CancelFuture(r) ==
    /\ caller[r] \in {"timedOut", "leaving"}
    /\ future' = IF future[r] = "pending" THEN [future EXCEPT ![r] = "cancelled"] ELSE future
    /\ IF caller[r] = "leaving" THEN Tell(r, "abandoned")
       ELSE IF future[r] = "pending" THEN Tell(r, "timeout")
       ELSE caller' = [caller EXCEPT ![r] = "cancelling"] /\ UNCHANGED answer
    /\ UNCHANGED <<expired, cancel_requested, running, queue, threadVars, flagVars, stopVars,
                   gate, historyVars>>

\* outcome_unknown = running.is_set() and not cancelled
ReportTimeout(r) ==
    /\ caller[r] = "cancelling"
    /\ Tell(r, IF r \in running THEN "outcome_unknown" ELSE "timeout")
    /\ UNCHANGED <<expired, ticketVars, queue, threadVars, flagVars, stopVars, gate, historyVars>>

DeadlinePasses(r) ==
    /\ future[r] # "none" /\ r \notin expired
    /\ expired' = expired \cup {r}
    /\ UNCHANGED <<caller, answer, ticketVars, queue, threadVars, flagVars, stopVars, gate,
                   historyVars>>

-----------------------------------------------------------------------------
(* The worker thread.                                                      *)

ThreadStep(from, to) == thread = from /\ thread' = to

\* _set_exception_if_pending and _set_result_if_pending
SetIfPending(r, what) ==
    future' = IF future[r] \in Settled THEN future ELSE [future EXCEPT ![r] = what]

InitializeCom ==
    /\ \/ ThreadStep("starting", "loop") /\ com' = TRUE /\ UNCHANGED startup_error
       \/ ThreadStep("starting", "final") /\ startup_error' = TRUE /\ UNCHANGED com
    /\ UNCHANGED <<callerVars, ticketVars, queue, current, outcome, doomed, closed,
                   stop_requested, stopVars, gate, historyVars>>

CheckStop ==
    /\ ThreadStep("loop", IF stop_requested THEN "final" ELSE "get")
    /\ UNCHANGED <<callerVars, ticketVars, queue, current, outcome, doomed, flagVars, stopVars,
                   gate, historyVars>>

GetTimesOut_Never == FALSE
GetTimesOut == queue = <<>>

\* get(timeout=0.1)
Take ==
    /\ \/ /\ queue # <<>>
          /\ ThreadStep("get", "took")
          /\ current' = Head(queue) /\ queue' = Tail(queue)
       \/ /\ GetTimesOut
          /\ ThreadStep("get", "loop")
          /\ UNCHANGED <<current, queue>>
    /\ UNCHANGED <<callerVars, ticketVars, outcome, doomed, flagVars, stopVars, gate, historyVars>>

Discarded == stop_requested \/ current \in cancel_requested \/ current \in expired
DiscardError == IF stop_requested THEN "stopped" ELSE "timeout"

NextRequest == thread' = "loop" /\ current' = NoRequest

Precheck ==
    /\ thread = "took"
    /\ IF Discarded THEN SetIfPending(current, DiscardError) /\ NextRequest
       ELSE thread' = "begin" /\ UNCHANGED <<future, current>>
    /\ UNCHANGED <<callerVars, cancel_requested, running, queue, outcome, doomed, flagVars,
                   stopVars, gate, historyVars>>

\* set_running_or_notify_cancel
MayRun_Always == TRUE
MayRun == future[current] = "pending"

BeginRunning ==
    /\ thread = "begin"
    /\ \/ MayRun /\ future' = [future EXCEPT ![current] = "running"]
                 /\ thread' = "gate" /\ UNCHANGED current
       \/ ~MayRun /\ NextRequest /\ UNCHANGED future
    /\ UNCHANGED <<callerVars, cancel_requested, running, queue, outcome, doomed, flagVars,
                   stopVars, gate, historyVars>>

GateTimesOut_Never == FALSE
GateTimesOut == current \in expired

\* cad_operation(timeout=remaining)
EnterGate ==
    /\ thread = "gate"
    /\ \/ /\ gate = "free"
          /\ gate' = "worker" /\ thread' = "recheck"
          /\ UNCHANGED <<future, current>>
       \/ /\ GateTimesOut
          /\ SetIfPending(current, "timeout") /\ NextRequest
          /\ UNCHANGED gate
    /\ UNCHANGED <<callerVars, cancel_requested, running, queue, outcome, doomed, flagVars,
                   stopVars, historyVars>>

\* The error of the second check is raised with the gate held, and set on the
\* Future after the gate is released.
Recheck ==
    /\ thread = "recheck"
    /\ IF Discarded THEN thread' = "settle" /\ outcome' = DiscardError /\ gate' = "free"
       ELSE thread' = "mark" /\ UNCHANGED <<outcome, gate>>
    /\ UNCHANGED <<callerVars, ticketVars, queue, current, doomed, flagVars, stopVars,
                   historyVars>>

MarkRunning ==
    /\ ThreadStep("mark", "command")
    /\ running' = running \cup {current}
    /\ UNCHANGED <<callerVars, future, cancel_requested, queue, current, outcome, doomed,
                   flagVars, stopVars, gate, historyVars>>

\* _CadCommands.execute enters CAD code ...
EnterCad ==
    /\ thread = "command" /\ current \notin entered
    /\ entered' = entered \cup {current}
    /\ UNCHANGED <<callerVars, ticketVars, queue, threadVars, flagVars, stopVars, gate, workers>>

\* The error of a command that a signal unwinds says outcome_unknown.
SignalError_Stopped == "stopped"
SignalError == "interrupted"

\* ... and returns, raises, or is unwound by a signal; the gate is released.
LeaveCad ==
    /\ current \in entered /\ ThreadStep("command", "settle")
    /\ outcome' \in {"result", "failed", SignalError}
    /\ gate' = "free"
    /\ UNCHANGED <<callerVars, ticketVars, queue, current, doomed, flagVars, stopVars, historyVars>>

\* A signal also ends the loop.
AfterSettle(what) == IF what = "interrupted" THEN "final" ELSE "loop"

Settle ==
    /\ thread = "settle"
    /\ SetIfPending(current, outcome)
    /\ thread' = AfterSettle(outcome)
    /\ current' = NoRequest /\ outcome' = "none"
    /\ UNCHANGED <<callerVars, cancel_requested, running, queue, doomed, flagVars, stopVars, gate,
                   historyVars>>

Drained_Left == {}
Drained == ToSet(queue)

\* The last critical section of _run.
Close ==
    /\ ThreadStep("final", "finish")
    /\ closed' = TRUE /\ stop_requested' = TRUE
    /\ doomed' = Drained /\ queue' = <<>>
    /\ UNCHANGED <<callerVars, ticketVars, current, outcome, startup_error, com, stopVars, gate,
                   historyVars>>

FinishOne ==
    /\ thread = "finish"
    /\ \/ \E r \in doomed :
            /\ SetIfPending(r, "stopped")
            /\ doomed' = doomed \ {r}
            /\ UNCHANGED thread
       \/ doomed = {} /\ thread' = "release" /\ UNCHANGED <<future, doomed>>
    /\ UNCHANGED <<callerVars, cancel_requested, running, queue, current, outcome, flagVars,
                   stopVars, gate, historyVars>>

\* The adapter is released, then COM, if it was initialised.
ReleaseCom ==
    /\ ThreadStep("release", "dead")
    /\ com' = FALSE
    /\ UNCHANGED <<callerVars, ticketVars, queue, current, outcome, doomed, closed,
                   stop_requested, startup_error, stopVars, gate, historyVars>>

-----------------------------------------------------------------------------
(* The application.                                                        *)

\* shutdown, its critical section.
Shutdown ==
    /\ stopper = "idle"
    /\ stopper' = "finish"
    /\ closed' = TRUE /\ stop_requested' = TRUE
    /\ finishing' = Drained /\ queue' = <<>>
    /\ UNCHANGED <<callerVars, ticketVars, threadVars, startup_error, com, gate, historyVars>>

FinishPending ==
    /\ stopper = "finish"
    /\ \/ \E r \in finishing :
            /\ SetIfPending(r, "stopped")
            /\ finishing' = finishing \ {r}
            /\ UNCHANGED stopper
       \/ finishing = {} /\ stopper' = "join" /\ UNCHANGED <<future, finishing>>
    /\ UNCHANGED <<callerVars, cancel_requested, running, queue, threadVars, flagVars, gate,
                   historyVars>>

\* join(timeout) and the returned "not is_alive()".
Join ==
    /\ stopper = "join"
    /\ stopper' = IF thread \in Ended THEN "stopped" ELSE "stuck"
    /\ UNCHANGED <<callerVars, ticketVars, queue, threadVars, flagVars, finishing, gate,
                   historyVars>>

\* _prepare_dashboard_worker: a new lifespan replaces a closed worker whose
\* thread has ended; it fails while the old thread is alive.
Replaceable_WhileAlive == closed
Replaceable == closed /\ thread \in Ended

PrepareWorker ==
    /\ workers < MaxWorkers /\ stopper \in {"stopped", "stuck"}
    /\ Replaceable
    /\ workers' = workers + 1
    /\ thread' = "none" /\ current' = NoRequest /\ outcome' = "none" /\ doomed' = {}
    /\ closed' = FALSE /\ stop_requested' = FALSE /\ startup_error' = FALSE /\ com' = FALSE
    /\ queue' = <<>>
    /\ stopper' = "idle"
    /\ UNCHANGED <<callerVars, ticketVars, finishing, gate, entered>>

\* An MCP tool on another thread: cad_tool takes the same gate.
Tool ==
    /\ \/ gate = "free" /\ gate' = "tool"
       \/ gate = "tool" /\ gate' = "free"
    /\ UNCHANGED <<callerVars, ticketVars, queue, threadVars, flagVars, stopVars, historyVars>>

Handler(r) == Receive(r) \/ CancelFuture(r) \/ ReportTimeout(r)
Thread ==
    \/ InitializeCom \/ CheckStop \/ Take \/ Precheck \/ BeginRunning \/ EnterGate \/ Recheck
    \/ MarkRunning \/ EnterCad \/ LeaveCad \/ Settle \/ Close \/ FinishOne \/ ReleaseCom

Next ==
    \/ \E r \in Request : Submit(r) \/ Handler(r) \/ GiveUp(r) \/ HangUp(r) \/ DeadlinePasses(r)
    \/ Thread
    \/ Shutdown \/ FinishPending \/ Join \/ PrepareWorker
    \/ Tool

Spec == Init /\ [][Next]_vars

\* Deadlines pass and the event loop runs.  This is all LiveSpec assumes; it
\* assumes nothing of AutoCAD.
HandlersRun ==
    \A r \in Request :
        /\ WF_vars(DeadlinePasses(r))
        /\ WF_vars(GiveUp(r))
        /\ WF_vars(Handler(r))

\* Threads are scheduled, COM calls return and tools release the gate; shutdown
\* settles what it drained.
ThreadsRun == WF_vars(Thread) /\ WF_vars(FinishPending) /\ WF_vars(Tool /\ gate = "tool")

LiveSpec == Spec /\ HandlersRun

-----------------------------------------------------------------------------
(* Properties.                                                             *)

\* The worker implements Ticket: a late result, a late cancellation and a drain
\* never overwrite what the handler may have read, no command is executed twice,
\* and one that was entered settles with what became of it
\* (set_running_or_notify_cancel and the *_if_pending helpers).
Tickets == INSTANCE Ticket WITH state <- future

TicketKept == Tickets!Spec

\* An error that says the command was not executed is true: CAD code was never
\* entered for a request refused, cancelled, expired or stopped.
RefusedNeverEntered ==
    \A r \in entered : future[r] \notin {"none", "pending", "cancelled", "timeout", "stopped"}

\* No ticket is lost, whatever startup failure, signal or shutdown meets it:
\* one of the queue with a thread to serve it, the thread, and the two drains
\* has every ticket that is not settled.
NoTicketLost ==
    \A r \in Request :
        /\ future[r] = "pending" =>
              \/ r \in ToSet(queue) /\ thread \notin Ended \cup {"finish", "release"}
              \/ r = current /\ thread \in {"took", "begin"}
              \/ r \in doomed /\ thread = "finish"
              \/ r \in finishing /\ stopper = "finish"
        /\ future[r] = "running" => r = current

\* The worker leaves the CAD gate on every path, and no worker is replaced while
\* its thread is inside: otherwise every MCP tool would wait for ever.
GateOwned == gate = "worker" <=> thread \in {"recheck", "mark", "command"}

\* Every handler answers its client, even when a COM call never returns and no
\* tool ever releases the gate (_await_ticket).
EveryHandlerAnswers == \A r \in Request : caller[r] = "waiting" ~> caller[r] = "answered"

\* When COM calls return, every ticket settles, whether its handler waits or has
\* gone and whatever stops the worker (_execute_request, _run, shutdown).
EveryTicketSettles ==
    ThreadsRun =>
        \A r \in Request : future[r] \in {"pending", "running"} ~> future[r] \in Settled

\* When COM calls return, a worker told to stop ends its thread (_run).
StopEndsThread == ThreadsRun => (stop_requested ~> thread \in Ended)

\* "A timeout after COM execution begins returns HTTP 504 with outcome_unknown":
\* a timeout reported without it means that CAD code is not entered for the
\* request (docs/06-WEB-DASHBOARD.md, "Thread Safety").
KnownTimeoutNeverEntered == \A r \in Request : answer[r] = "timeout" => r \notin entered

=============================================================================

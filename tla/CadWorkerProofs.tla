-------------------------- MODULE CadWorkerProofs --------------------------
(***************************************************************************)
(* For any number of requests, any size of the queue and any number of     *)
(* generations of the worker: no ticket is lost, a command that is said    *)
(* not to have been executed was not entered, the gate is given back, and  *)
(* the worker implements Ticket.                                           *)
(***************************************************************************)
EXTENDS CadWorker, TLAPS

-----------------------------------------------------------------------------
(* The inductive invariant.                                                *)

Waiting == ToSet(queue) \cup doomed \cup finishing

\* A request is submitted once ...
Fresh == \A r \in Request : caller[r] = "new" => future[r] = "none"

\* A Future is cancelled by its handler, which then answers.
CancelledAnswered == \A r \in Request : future[r] = "cancelled" => caller[r] = "answered"

\* ... and the queue has it once.
QueueOnce == \A i, j \in DOMAIN queue : queue[i] = queue[j] => i = j

\* A request that waits to be executed or refused is not at work.
WaitingUntouched ==
    \A r \in Waiting : future[r] \notin {"none", "running"} /\ r \notin entered /\ r # current

\* How far the request that the thread has got is.
Starting == {"took", "begin"}
Inside == {"gate", "recheck", "mark"}
CurrentAt ==
    /\ thread \in Starting => future[current] \notin {"none", "running"} /\ current \notin entered
    /\ thread \in Busy \ Starting => future[current] = "running"
    /\ thread \in Inside => current \notin entered
    /\ thread = "settle" =>
          outcome \in IF current \in entered THEN Tickets!Executed ELSE Tickets!NotExecuted
OnlyCurrentRuns ==
    \A r \in Request : future[r] = "running" => r = current /\ thread \in Busy \ Starting

\* A closed worker takes no requests, and its drains end before it is replaced.
Closing ==
    /\ closed => queue = <<>>
    /\ stopper # "idle" \/ thread \in {"finish", "release", "dead"} => closed
    /\ doomed # {} => thread = "finish"
    /\ finishing # {} => stopper = "finish"

IInv ==
    /\ TypeOK /\ Fresh /\ CancelledAnswered /\ QueueOnce /\ WaitingUntouched /\ CurrentAt
    /\ OnlyCurrentRuns /\ Closing
    /\ RefusedNeverEntered /\ NoTicketLost /\ GateOwned

-----------------------------------------------------------------------------
(* Sequences.                                                              *)

LEMMA QueueElements ==
    ASSUME NEW q \in Seq(Request)
    PROVE  /\ ToSet(q) \subseteq Request
           /\ \A r \in Request : ToSet(Append(q, r)) = ToSet(q) \cup {r}
           /\ q # <<>> => Head(q) \in Request /\ ToSet(q) = {Head(q)} \cup ToSet(Tail(q))
  <1>1. ToSet(q) \subseteq Request
    BY DEF ToSet
  <1>2. ASSUME NEW r \in Request
        PROVE  ToSet(Append(q, r)) = ToSet(q) \cup {r}
    <2>1. DOMAIN Append(q, r) = DOMAIN q \cup {Len(q) + 1}
      OBVIOUS
    <2>2. \A i \in DOMAIN q : Append(q, r)[i] = q[i]
      OBVIOUS
    <2>3. Append(q, r)[Len(q) + 1] = r
      OBVIOUS
    <2> QED
      BY <2>3 DEF ToSet
  <1>3. ASSUME q # <<>>
        PROVE  Head(q) \in Request /\ ToSet(q) = {Head(q)} \cup ToSet(Tail(q))
    <2>1. Head(q) = q[1] /\ 1 \in DOMAIN q
      BY <1>3
    <2>2. \A i \in DOMAIN Tail(q) : i + 1 \in DOMAIN q /\ Tail(q)[i] = q[i + 1]
      OBVIOUS
    <2>3. \A i \in DOMAIN q : i # 1 => i - 1 \in DOMAIN Tail(q) /\ Tail(q)[i - 1] = q[i]
      OBVIOUS
    <2>4. Head(q) \in Request /\ Tail(q) \in Seq(Request)
      BY <1>3
    <2>5. ToSet(q) \subseteq {Head(q)} \cup ToSet(Tail(q))
      BY <2>1, <2>3 DEF ToSet
    <2>6. {Head(q)} \cup ToSet(Tail(q)) \subseteq ToSet(q)
      BY <2>1 DEF ToSet
    <2> QED
      BY <2>4, <2>5, <2>6
  <1> QED
    BY <1>1, <1>2, <1>3

LEMMA EmptyQueue == ToSet(<<>>) = {}
  BY DEF ToSet

\* The head of a queue that has every request once is not in its tail.
LEMMA HeadOnce ==
    ASSUME NEW q \in Seq(Request), q # <<>>, \A i, j \in DOMAIN q : q[i] = q[j] => i = j
    PROVE  /\ Head(q) \notin ToSet(Tail(q))
           /\ \A i, j \in DOMAIN Tail(q) : Tail(q)[i] = Tail(q)[j] => i = j
  <1>1. \A i \in DOMAIN Tail(q) :
           i \in Nat /\ i >= 1 /\ i + 1 \in DOMAIN q /\ Tail(q)[i] = q[i + 1]
    OBVIOUS
  <1>2. Head(q) = q[1] /\ 1 \in DOMAIN q
    OBVIOUS
  <1>3. ASSUME Head(q) \in ToSet(Tail(q)) PROVE FALSE
    <2>1. PICK i \in DOMAIN Tail(q) : Tail(q)[i] = Head(q)
      BY <1>3 DEF ToSet
    <2>2. q[i + 1] = q[1] /\ i + 1 \in DOMAIN q /\ i + 1 # 1
      BY <2>1
    <2> QED
      BY <2>2
  <1>4. ASSUME NEW i \in DOMAIN Tail(q), NEW j \in DOMAIN Tail(q), Tail(q)[i] = Tail(q)[j]
        PROVE  i = j
    <2>1. i + 1 = j + 1
      BY <1>4
    <2> QED
      BY <2>1
  <1> QED
    BY <1>3

LEMMA AppendOnce ==
    ASSUME NEW q \in Seq(Request), NEW r \in Request, r \notin ToSet(q),
           \A i, j \in DOMAIN q : q[i] = q[j] => i = j
    PROVE  \A i, j \in DOMAIN Append(q, r) : Append(q, r)[i] = Append(q, r)[j] => i = j
  <1>1. DOMAIN Append(q, r) = DOMAIN q \cup {Len(q) + 1}
    OBVIOUS
  <1>2. \A i \in DOMAIN q : Append(q, r)[i] = q[i] /\ q[i] # r
    BY DEF ToSet
  <1>3. Append(q, r)[Len(q) + 1] = r
    OBVIOUS
  <1> QED
    BY <1>2

-----------------------------------------------------------------------------
(* Types.                                                                  *)

LEMMA InitIInv == Init => IInv
  <1> SUFFICES ASSUME Init PROVE IInv
    OBVIOUS
  <1>1. TypeOK
    <2>1. queue \in Seq(Request) /\ Len(queue) <= QueueSize /\ workers \in 1 .. MaxWorkers
      BY WorkerAssumption DEF Init
    <2> QED
      BY <2>1 DEF Init, TypeOK, Busy, Ended, Answer
  <1>2. Fresh /\ CancelledAnswered /\ QueueOnce /\ OnlyCurrentRuns /\ CurrentAt /\ Closing
    BY DEF Init, Fresh, CancelledAnswered, QueueOnce, OnlyCurrentRuns, CurrentAt, Closing, Busy,
       Starting
  <1>3. WaitingUntouched
    BY EmptyQueue DEF Init, Waiting, WaitingUntouched
  <1>4. RefusedNeverEntered /\ NoTicketLost /\ GateOwned
    BY DEF Init, RefusedNeverEntered, NoTicketLost, GateOwned
  <1> QED
    BY <1>1, <1>2, <1>3, <1>4 DEF IInv

LEMMA TypeStep ==
    ASSUME TypeOK, CancelledAnswered, [Next]_vars
    PROVE  TypeOK'
  <1> USE WorkerAssumption DEF TypeOK
  <1>q. queue \in Seq(Request) /\ <<>> \in Seq(Request) /\ Len(<<>>) = 0 /\ QueueSize \in Nat
    OBVIOUS
  <1>d. Drained \subseteq Request
    BY QueueElements DEF Drained
  <1>1. ASSUME NEW r \in Request, Submit(r) PROVE TypeOK'
    <2>1. queue' \in Seq(Request) /\ Len(queue') <= QueueSize
      BY <1>1 DEF Submit, HasRoom
    <2>2. caller' \in [Request -> {"new", "waiting", "timedOut", "cancelling", "leaving", "answered"}]
      BY <1>1 DEF Submit, Tell
    <2>3. answer' \in [Request -> Answer]
      BY <1>1 DEF Submit, Tell, Answer, Settled
    <2>4. future' \in [Request -> {"none", "pending", "running"} \cup Settled]
      BY <1>1 DEF Submit
    <2> QED
      BY <1>1, <2>1, <2>2, <2>3 DEF Submit, flagVars, stopVars, historyVars, Busy
  <1>2. ASSUME NEW r \in Request, Receive(r) \/ ReportTimeout(r) PROVE TypeOK'
    <2>1. \E what \in Answer : Tell(r, what)
      <3>1. CASE Receive(r)
        BY <3>1 DEF Receive, CancelledAnswered, Answer
      <3>2. CASE ReportTimeout(r)
        BY <3>2 DEF ReportTimeout, Settled, Answer
      <3> QED
        BY <1>2, <3>1, <3>2
    <2>2. PICK what \in Answer : Tell(r, what)
      BY <2>1
    <2> QED
      BY <1>2, <2>2 DEF Receive, ReportTimeout, Tell, ticketVars, threadVars, flagVars, stopVars,
         historyVars
  <1>3. ASSUME NEW r \in Request, CancelFuture(r) PROVE TypeOK'
    <2>1. caller' \in [Request -> {"new", "waiting", "timedOut", "cancelling", "leaving", "answered"}]
      BY <1>3 DEF CancelFuture, Tell
    <2>2. answer' \in [Request -> Answer]
      BY <1>3 DEF CancelFuture, Tell, Answer, Settled
    <2>3. future' \in [Request -> {"none", "pending", "running"} \cup Settled]
      BY <1>3 DEF CancelFuture, Settled
    <2> QED
      BY <1>3, <2>1, <2>2, <2>3 DEF CancelFuture, threadVars, flagVars, stopVars, historyVars
  <1>4. ASSUME NEW r \in Request, GiveUp(r) \/ HangUp(r) \/ DeadlinePasses(r) PROVE TypeOK'
    <2>1. ASSUME NEW next \in {"timedOut", "leaving"}, StopWaiting(r, next) PROVE TypeOK'
      BY <2>1 DEF StopWaiting, threadVars, flagVars, stopVars, historyVars
    <2>2. CASE DeadlinePasses(r)
      BY <2>2 DEF DeadlinePasses, ticketVars, threadVars, flagVars, stopVars, historyVars
    <2> QED
      BY <1>4, <2>1, <2>2 DEF GiveUp, HangUp
  <1>5. ASSUME InitializeCom \/ CheckStop \/ ReleaseCom PROVE TypeOK'
    BY <1>5 DEF InitializeCom, CheckStop, ReleaseCom, ThreadStep, callerVars, ticketVars, flagVars,
       stopVars, historyVars, Busy, Ended
  <1>6. ASSUME Take PROVE TypeOK'
    <2>1. queue # <<>> => Tail(queue) \in Seq(Request) /\ Len(Tail(queue)) <= QueueSize
                            /\ Head(queue) \in Request
      OBVIOUS
    <2> QED
      BY <1>6, <2>1 DEF Take, ThreadStep, callerVars, ticketVars, flagVars, stopVars, historyVars,
         Busy
  <1>7. ASSUME Precheck \/ BeginRunning \/ EnterGate PROVE TypeOK'
    BY <1>7 DEF Precheck, BeginRunning, EnterGate, NextRequest, DiscardError, SetIfPending,
       callerVars, flagVars, stopVars, historyVars, Busy, Settled
  <1>8. ASSUME Recheck \/ MarkRunning \/ EnterCad \/ LeaveCad \/ Settle PROVE TypeOK'
    BY <1>8
       DEF Recheck, MarkRunning, EnterCad, LeaveCad, Settle, AfterSettle, DiscardError,
           SignalError, SetIfPending, ThreadStep, callerVars, ticketVars, threadVars, flagVars,
           stopVars, historyVars, Busy, Settled
  <1>9. ASSUME Close PROVE TypeOK'
    BY <1>9, <1>d DEF Close, ThreadStep, callerVars, ticketVars, stopVars, historyVars, Busy
  <1>10. ASSUME FinishOne PROVE TypeOK'
    BY <1>10 DEF FinishOne, SetIfPending, callerVars, flagVars, stopVars, historyVars, Busy,
       Settled
  <1>11. ASSUME Shutdown PROVE TypeOK'
    BY <1>11, <1>d DEF Shutdown, callerVars, ticketVars, threadVars, historyVars
  <1>12. ASSUME FinishPending \/ Join \/ Tool PROVE TypeOK'
    BY <1>12 DEF FinishPending, Join, Tool, SetIfPending, callerVars, ticketVars, threadVars,
       flagVars, stopVars, historyVars, Settled
  <1>13. ASSUME PrepareWorker PROVE TypeOK'
    <2>1. workers' \in 1 .. MaxWorkers /\ queue' \in Seq(Request) /\ Len(queue') <= QueueSize
      BY <1>13 DEF PrepareWorker
    <2>2. /\ thread' \in Ended /\ thread' \notin Busy /\ current' = NoRequest
          /\ outcome' = "none" /\ doomed' = {} /\ stopper' = "idle"
      BY <1>13 DEF PrepareWorker, Busy, Ended
    <2> QED
      BY <1>13, <2>1, <2>2 DEF PrepareWorker, callerVars, ticketVars
  <1>14. CASE UNCHANGED vars
    BY <1>14 DEF vars, callerVars, ticketVars, threadVars, flagVars, stopVars, historyVars
  <1> QED
    BY <1>1, <1>2, <1>3, <1>4, <1>5, <1>6, <1>7, <1>8, <1>9, <1>10, <1>11, <1>12, <1>13, <1>14 DEF
       Next, Thread, Handler

LEMMA WaitingTyped == TypeOK => Waiting \subseteq Request
  BY QueueElements DEF TypeOK, Waiting

LEMMA SettleOne ==
    ASSUME TypeOK, NEW r \in Request, NEW what \in Settled, SetIfPending(r, what)
    PROVE  /\ \A q \in Request \ {r} : future'[q] = future[q]
           /\ future'[r] = IF future[r] \in Settled THEN future[r] ELSE what
  BY DEF TypeOK, SetIfPending

\* Steps that change no Future and no queue, and neither enter nor leave the gate.
LEMMA IdleStep ==
    ASSUME IInv, TypeOK', InitializeCom \/ CheckStop \/ ReleaseCom \/ Join \/ Tool
    PROVE  IInv'
  <1>1. /\ UNCHANGED <<caller, future, queue, current, outcome, doomed, closed, finishing, entered>>
        /\ gate' = gate \/ {gate, gate'} = {"free", "tool"}
        /\ \/ UNCHANGED <<thread, stopper>>
           \/ /\ UNCHANGED stopper
              /\ \/ thread = "starting" /\ thread' \in {"loop", "final"}
                 \/ thread = "loop" /\ thread' \in {"get", "final"}
                 \/ thread = "release" /\ thread' = "dead"
           \/ UNCHANGED thread /\ stopper = "join" /\ stopper' \in {"stopped", "stuck"}
    BY DEF InitializeCom, CheckStop, ReleaseCom, Join, Tool, ThreadStep, callerVars, ticketVars,
       threadVars, flagVars, stopVars, historyVars
  <1> USE <1>1 DEF IInv, Busy, Starting, Inside, Ended
  <1>2. Fresh' /\ CancelledAnswered' /\ QueueOnce' /\ RefusedNeverEntered' /\ GateOwned'
    BY DEF Fresh, CancelledAnswered, QueueOnce, RefusedNeverEntered, GateOwned
  <1>3. WaitingUntouched' /\ CurrentAt' /\ OnlyCurrentRuns' /\ Closing' /\ NoTicketLost'
    BY DEF WaitingUntouched, Waiting, CurrentAt, OnlyCurrentRuns, Closing, NoTicketLost
  <1> QED
    BY <1>2, <1>3

LEMMA CancelFutureStep ==
    ASSUME IInv, TypeOK', NEW r \in Request, CancelFuture(r)
    PROVE  IInv'
  <1> USE DEF IInv, TypeOK, CancelFuture, Tell, threadVars, flagVars, stopVars, historyVars
  <1>1. Fresh' /\ CancelledAnswered' /\ QueueOnce' /\ RefusedNeverEntered' /\ GateOwned'
    BY DEF Fresh, CancelledAnswered, QueueOnce, RefusedNeverEntered, GateOwned
  <1>2. WaitingUntouched' /\ CurrentAt' /\ OnlyCurrentRuns' /\ Closing' /\ NoTicketLost'
    BY DEF WaitingUntouched, Waiting, CurrentAt, OnlyCurrentRuns, Closing, NoTicketLost
  <1> QED
    BY <1>1, <1>2

LEMMA PrecheckStep ==
    ASSUME IInv, TypeOK', Precheck
    PROVE  IInv'
  <1> USE DEF IInv, TypeOK, Precheck, DiscardError, NextRequest, SetIfPending, callerVars,
         flagVars, stopVars, historyVars
  <1>1. /\ current \in Request /\ future[current] # "none" /\ current \notin Waiting
        /\ \A q \in Request \ {current} : future'[q] = future[q]
        /\ future'[current] \notin {"none", "running"} \/ UNCHANGED <<future, current>>
    BY DEF CurrentAt, WaitingUntouched, Busy, Settled
  <1>2. Fresh'
    BY <1>1 DEF Fresh
  <1>3. WaitingUntouched'
    <2>1. Waiting' = Waiting /\ entered' = entered /\ current' \in {current, NoRequest}
      BY DEF Waiting
    <2> QED
      BY <2>1, WorkerAssumption, WaitingTyped DEF WaitingUntouched
  <1>4. CancelledAnswered' /\ QueueOnce' /\ RefusedNeverEntered' /\ GateOwned'
    BY DEF CancelledAnswered, QueueOnce, RefusedNeverEntered, CurrentAt, GateOwned, Starting
  <1>5. CurrentAt' /\ OnlyCurrentRuns' /\ Closing' /\ NoTicketLost'
    BY DEF CurrentAt, OnlyCurrentRuns, Closing, NoTicketLost, Starting, Inside, Ended, Settled
  <1> QED
    BY <1>2, <1>3, <1>4, <1>5

LEMMA BeginRunningStep ==
    ASSUME IInv, TypeOK', BeginRunning
    PROVE  IInv'
  <1> USE DEF IInv, TypeOK, BeginRunning, MayRun, NextRequest, callerVars, flagVars, stopVars,
         historyVars
  <1>1. WaitingUntouched'
    <2>1. Waiting' = Waiting /\ entered' = entered /\ current' \in {current, NoRequest}
      BY DEF Waiting
    <2>2. current \in Request /\ current \notin Waiting
      BY DEF Busy, WaitingUntouched
    <2>3. \A r \in Request \ {current} : future'[r] = future[r]
      OBVIOUS
    <2> QED
      BY <2>1, WorkerAssumption, WaitingTyped DEF WaitingUntouched
  <1>2. NoTicketLost'
    <2>1. CASE MayRun
      BY <2>1 DEF NoTicketLost, Ended
    <2>2. CASE ~MayRun
      BY DEF NoTicketLost, CurrentAt, Starting, Ended
    <2> QED
      BY <2>1, <2>2
  <1>3. Fresh' /\ CancelledAnswered' /\ QueueOnce' /\ RefusedNeverEntered' /\ GateOwned'
    BY DEF Fresh, CancelledAnswered, QueueOnce, RefusedNeverEntered, GateOwned
  <1>4. CurrentAt' /\ OnlyCurrentRuns' /\ Closing'
    BY DEF CurrentAt, OnlyCurrentRuns, Closing, Starting, Inside, Ended
  <1> QED
    BY <1>1, <1>2, <1>3, <1>4

LEMMA EnterGateStep ==
    ASSUME IInv, TypeOK', EnterGate
    PROVE  IInv'
  <1> USE DEF IInv, TypeOK, EnterGate, NextRequest, SetIfPending, callerVars, flagVars, stopVars,
         historyVars
  <1>1. /\ current \in Request /\ future[current] # "none" /\ current \notin Waiting
        /\ \A q \in Request \ {current} : future'[q] = future[q]
        /\ future'[current] \notin {"none", "running"} \/ UNCHANGED <<future, current>>
    BY DEF CurrentAt, WaitingUntouched, Busy, Settled
  <1>2. Fresh'
    BY <1>1 DEF Fresh
  <1>3. WaitingUntouched'
    <2>1. Waiting' = Waiting /\ entered' = entered /\ current' \in {current, NoRequest}
      BY DEF Waiting
    <2> QED
      BY <2>1, WorkerAssumption, WaitingTyped DEF WaitingUntouched
  <1>4. CancelledAnswered' /\ QueueOnce' /\ RefusedNeverEntered' /\ GateOwned'
    BY DEF CancelledAnswered, QueueOnce, RefusedNeverEntered, CurrentAt, GateOwned, Inside
  <1>5. CurrentAt' /\ OnlyCurrentRuns' /\ Closing' /\ NoTicketLost'
    BY DEF CurrentAt, OnlyCurrentRuns, Closing, NoTicketLost, Starting, Inside, Ended, Settled
  <1> QED
    BY <1>2, <1>3, <1>4, <1>5

LEMMA RecheckStep ==
    ASSUME IInv, TypeOK', Recheck
    PROVE  IInv'
  <1> USE DEF IInv, TypeOK, Recheck, DiscardError, callerVars, ticketVars, flagVars, stopVars,
         historyVars, Tickets!NotExecuted
  <1>1. Fresh' /\ CancelledAnswered' /\ QueueOnce' /\ RefusedNeverEntered' /\ GateOwned'
    BY DEF Fresh, CancelledAnswered, QueueOnce, RefusedNeverEntered, GateOwned
  <1>2. WaitingUntouched' /\ CurrentAt' /\ OnlyCurrentRuns' /\ Closing' /\ NoTicketLost'
    BY DEF WaitingUntouched, Waiting, CurrentAt, OnlyCurrentRuns, Closing, NoTicketLost, Starting,
       Inside, Ended
  <1> QED
    BY <1>1, <1>2

LEMMA MarkRunningStep ==
    ASSUME IInv, TypeOK', MarkRunning
    PROVE  IInv'
  <1> USE DEF IInv, TypeOK, MarkRunning, ThreadStep, callerVars, flagVars, stopVars, historyVars
  <1>1. Fresh' /\ CancelledAnswered' /\ QueueOnce' /\ RefusedNeverEntered' /\ GateOwned'
    BY DEF Fresh, CancelledAnswered, QueueOnce, RefusedNeverEntered, GateOwned
  <1>2. WaitingUntouched' /\ CurrentAt' /\ OnlyCurrentRuns' /\ Closing' /\ NoTicketLost'
    BY DEF WaitingUntouched, Waiting, CurrentAt, OnlyCurrentRuns, Closing, NoTicketLost, Starting,
       Inside, Ended
  <1> QED
    BY <1>1, <1>2

LEMMA EnterCadStep ==
    ASSUME IInv, TypeOK', EnterCad
    PROVE  IInv'
  <1> USE DEF IInv, TypeOK, EnterCad, callerVars, ticketVars, threadVars, flagVars, stopVars
  <1>1. Fresh' /\ CancelledAnswered' /\ QueueOnce' /\ RefusedNeverEntered' /\ GateOwned'
    BY DEF Fresh, CancelledAnswered, QueueOnce, RefusedNeverEntered, CurrentAt, GateOwned,
       Starting, Ended
  <1>2. WaitingUntouched' /\ CurrentAt' /\ OnlyCurrentRuns' /\ Closing' /\ NoTicketLost'
    BY DEF WaitingUntouched, Waiting, CurrentAt, OnlyCurrentRuns, Closing, NoTicketLost, Starting,
       Inside
  <1> QED
    BY <1>1, <1>2

LEMMA LeaveCadStep ==
    ASSUME IInv, TypeOK', LeaveCad
    PROVE  IInv'
  <1> USE DEF IInv, TypeOK, LeaveCad, SignalError, ThreadStep, callerVars, ticketVars, flagVars,
         stopVars, historyVars, Tickets!Executed
  <1>1. Fresh' /\ CancelledAnswered' /\ QueueOnce' /\ RefusedNeverEntered' /\ GateOwned'
    BY DEF Fresh, CancelledAnswered, QueueOnce, RefusedNeverEntered, GateOwned
  <1>2. WaitingUntouched' /\ CurrentAt' /\ OnlyCurrentRuns' /\ Closing' /\ NoTicketLost'
    BY DEF WaitingUntouched, Waiting, CurrentAt, OnlyCurrentRuns, Closing, NoTicketLost, Starting,
       Inside, Ended
  <1> QED
    BY <1>1, <1>2

LEMMA SettleStep ==
    ASSUME IInv, TypeOK', Settle
    PROVE  IInv'
  <1> USE DEF IInv, TypeOK, Settle, AfterSettle, SetIfPending, callerVars, flagVars, stopVars,
         historyVars, Tickets!Executed, Tickets!NotExecuted
  <1>1. /\ current \in Request /\ future[current] # "none" /\ current \notin Waiting
        /\ \A q \in Request \ {current} : future'[q] = future[q]
        /\ future'[current] \notin {"none", "running"} \/ UNCHANGED <<future, current>>
    BY DEF CurrentAt, WaitingUntouched, Busy, Settled
  <1>2. Fresh'
    BY <1>1 DEF Fresh
  <1>3. WaitingUntouched'
    <2>1. Waiting' = Waiting /\ entered' = entered /\ current' \in {current, NoRequest}
      BY DEF Waiting
    <2> QED
      BY <2>1, WorkerAssumption, WaitingTyped DEF WaitingUntouched
  <1>4. CancelledAnswered' /\ QueueOnce' /\ RefusedNeverEntered' /\ GateOwned'
    BY DEF CancelledAnswered, QueueOnce, RefusedNeverEntered, CurrentAt, GateOwned
  <1>5. CurrentAt' /\ OnlyCurrentRuns' /\ Closing' /\ NoTicketLost'
    BY DEF CurrentAt, OnlyCurrentRuns, Closing, NoTicketLost, Starting, Inside, Ended, Settled
  <1> QED
    BY <1>2, <1>3, <1>4, <1>5

LEMMA FinishOneStep ==
    ASSUME IInv, TypeOK', FinishOne
    PROVE  IInv'
  <1> USE DEF IInv, TypeOK, FinishOne, SetIfPending, callerVars, flagVars, stopVars, historyVars
  <1>1. \/ UNCHANGED <<future, doomed>>
        \/ \E r \in doomed :
              /\ doomed' = doomed \ {r} /\ r \in Waiting
              /\ \A q \in Request \ {r} : future'[q] = future[q]
              /\ future[r] \notin {"none", "running"} /\ future'[r] \notin {"none", "running"}
    BY DEF WaitingUntouched, Waiting
  <1>2. Fresh'
    BY <1>1 DEF Fresh
  <1>3. WaitingUntouched'
    <2>1. Waiting' \subseteq Waiting /\ entered' = entered /\ current' = current
      BY DEF Waiting
    <2> QED
      BY <2>1, WaitingTyped DEF WaitingUntouched
  <1>4. RefusedNeverEntered'
    <2>1. entered' = entered /\ \A r \in Waiting : r \notin entered
      BY DEF WaitingUntouched
    <2> QED
      BY <1>1 DEF RefusedNeverEntered
  <1>5. CancelledAnswered' /\ QueueOnce' /\ GateOwned'
    BY DEF CancelledAnswered, QueueOnce, GateOwned
  <1>6. CurrentAt' /\ OnlyCurrentRuns' /\ Closing' /\ NoTicketLost'
    BY DEF CurrentAt, OnlyCurrentRuns, Closing, NoTicketLost, Busy, Starting, Inside, Settled
  <1> QED
    BY <1>2, <1>3, <1>4, <1>5, <1>6

LEMMA FinishPendingStep ==
    ASSUME IInv, TypeOK', FinishPending
    PROVE  IInv'
  <1> USE DEF IInv, TypeOK, FinishPending, SetIfPending, callerVars, threadVars, flagVars,
         historyVars
  <1>1. \/ UNCHANGED <<future, finishing>>
        \/ \E r \in finishing :
              /\ finishing' = finishing \ {r} /\ r \in Waiting
              /\ \A q \in Request \ {r} : future'[q] = future[q]
              /\ future[r] \notin {"none", "running"} /\ future'[r] \notin {"none", "running"}
    BY DEF WaitingUntouched, Waiting
  <1>2. Fresh'
    BY <1>1 DEF Fresh
  <1>3. WaitingUntouched'
    <2>1. Waiting' \subseteq Waiting /\ entered' = entered /\ current' = current
      BY DEF Waiting
    <2> QED
      BY <2>1, WaitingTyped DEF WaitingUntouched
  <1>4. RefusedNeverEntered'
    <2>1. entered' = entered /\ \A r \in Waiting : r \notin entered
      BY DEF WaitingUntouched
    <2> QED
      BY <1>1 DEF RefusedNeverEntered
  <1>5. CancelledAnswered' /\ QueueOnce' /\ GateOwned'
    BY DEF CancelledAnswered, QueueOnce, GateOwned
  <1>6. CurrentAt' /\ OnlyCurrentRuns' /\ Closing' /\ NoTicketLost'
    BY DEF CurrentAt, WaitingUntouched, Waiting, OnlyCurrentRuns, Closing, NoTicketLost, Starting,
       Ended, Settled
  <1> QED
    BY <1>2, <1>3, <1>4, <1>5, <1>6

\* Steps of the handlers that only they see.
LEMMA QuietStep ==
    ASSUME IInv, TypeOK', UNCHANGED <<future, queue, threadVars, closed, stopVars, gate, entered>>,
           \A r \in Request : caller'[r] # caller[r] =>
               caller'[r] # "new" /\ (future[r] = "cancelled" => caller'[r] = "answered")
    PROVE  IInv'
  <1> USE DEF IInv, threadVars, stopVars
  <1>1. Fresh' /\ CancelledAnswered'
    BY DEF Fresh, CancelledAnswered
  <1>2. QueueOnce' /\ WaitingUntouched' /\ CurrentAt' /\ OnlyCurrentRuns' /\ Closing'
    BY DEF QueueOnce, WaitingUntouched, Waiting, CurrentAt, OnlyCurrentRuns, Closing
  <1>3. RefusedNeverEntered' /\ NoTicketLost' /\ GateOwned'
    BY DEF RefusedNeverEntered, NoTicketLost, GateOwned
  <1> QED
    BY <1>1, <1>2, <1>3

LEMMA HandlerStep ==
    ASSUME IInv, TypeOK', NEW r \in Request,
           Receive(r) \/ ReportTimeout(r) \/ GiveUp(r) \/ HangUp(r) \/ DeadlinePasses(r)
    PROVE  IInv'
  <1>1. UNCHANGED <<future, queue, threadVars, closed, stopVars, gate, entered>>
    BY DEF Receive, ReportTimeout, GiveUp, HangUp, StopWaiting, DeadlinePasses, ticketVars,
       flagVars, historyVars
  <1>2. ASSUME NEW q \in Request, caller'[q] # caller[q]
        PROVE  caller'[q] # "new" /\ (future[q] = "cancelled" => caller'[q] = "answered")
    <2>1. q = r /\ caller[r] \in {"waiting", "cancelling"} /\ caller'[r] # "new"
      BY <1>2 DEF Receive, ReportTimeout, GiveUp, HangUp, StopWaiting, DeadlinePasses, Tell, TypeOK
    <2> QED
      BY <2>1 DEF IInv, CancelledAnswered
  <1> QED
    BY <1>1, <1>2, QuietStep

LEMMA SubmitStep ==
    ASSUME IInv, TypeOK', NEW r \in Request, Submit(r)
    PROVE  IInv'
  <1> USE DEF IInv
  <1>1. CASE UNCHANGED <<future, queue, thread>>
    <2>1. /\ UNCHANGED <<threadVars, closed, stopVars, gate, entered>>
          /\ \A q \in Request : caller'[q] # caller[q] => caller'[q] = "answered"
      BY <1>1 DEF Submit, Tell, threadVars, flagVars, historyVars, TypeOK
    <2> QED
      BY <1>1, <2>1, QuietStep
  <1>2. CASE HasRoom /\ ~Refuses /\ queue' = Append(queue, r)
             /\ future' = [future EXCEPT ![r] = "pending"]
             /\ caller' = [caller EXCEPT ![r] = "waiting"]
    <2>1. /\ future[r] = "none" /\ r \notin Waiting /\ r \notin entered
          /\ thread' = IF thread = "none" THEN "starting" ELSE thread
          /\ ~closed /\ UNCHANGED <<current, outcome, doomed, closed, stopVars, gate, entered>>
      BY <1>2 DEF Submit, Refuses, Fresh, WaitingUntouched, RefusedNeverEntered, flagVars,
         historyVars
    <2>2. r # current
      BY <2>1, WorkerAssumption DEF CurrentAt, TypeOK
    <2>3. ToSet(queue') = ToSet(queue) \cup {r} /\ Waiting' = Waiting \cup {r}
      BY <1>2, <2>1, QueueElements DEF TypeOK, Waiting, stopVars
    <2>4. /\ \A q \in Request \ {r} : future'[q] = future[q] /\ caller'[q] = caller[q]
          /\ future'[r] = "pending" /\ caller'[r] = "waiting"
      BY <1>2 DEF TypeOK
    <2>5. Fresh' /\ CancelledAnswered' /\ OnlyCurrentRuns' /\ CurrentAt' /\ GateOwned'
      BY <2>1, <2>4, WorkerAssumption DEF Fresh, CancelledAnswered, OnlyCurrentRuns, CurrentAt,
         GateOwned, TypeOK, Busy, Starting
    <2>6. QueueOnce'
      BY <1>2, <2>1, AppendOnce DEF QueueOnce, TypeOK, Waiting
    <2>7. WaitingUntouched' /\ RefusedNeverEntered'
      BY <2>1, <2>2, <2>3, <2>4, WaitingTyped DEF WaitingUntouched, RefusedNeverEntered, TypeOK
    <2>8. Closing' /\ NoTicketLost'
      BY <2>1, <2>3, <2>4 DEF Closing, NoTicketLost, Ended, stopVars
    <2> QED
      BY <2>5, <2>6, <2>7, <2>8
  <1>3. CASE Tell(r, "busy") /\ UNCHANGED <<future, queue>>
    <2>1. /\ UNCHANGED <<current, outcome, doomed, closed, stopVars, gate, entered>>
          /\ thread' = IF thread = "none" THEN "starting" ELSE thread
          /\ ~closed /\ \A q \in Request : caller'[q] # caller[q] => caller'[q] = "answered"
      BY <1>3 DEF Submit, Refuses, Tell, TypeOK, flagVars, historyVars
    <2>2. Fresh' /\ CancelledAnswered' /\ QueueOnce' /\ WaitingUntouched' /\ RefusedNeverEntered'
      BY <1>3, <2>1 DEF Fresh, CancelledAnswered, QueueOnce, WaitingUntouched, Waiting,
         RefusedNeverEntered, stopVars
    <2>3. CurrentAt' /\ OnlyCurrentRuns' /\ GateOwned' /\ Closing' /\ NoTicketLost'
      BY <1>3, <2>1 DEF CurrentAt, OnlyCurrentRuns, GateOwned, Closing, NoTicketLost, Busy,
         Starting, Inside, Ended, stopVars
    <2> QED
      BY <2>2, <2>3
  <1> QED
    BY <1>1, <1>2, <1>3 DEF Submit

LEMMA TakeStep ==
    ASSUME IInv, TypeOK', Take
    PROVE  IInv'
  <1> USE DEF IInv
  <1>1. /\ UNCHANGED <<future, caller, doomed, closed, stopVars, gate, entered>>
        /\ thread = "get" /\ thread' \in {"took", "loop"} /\ doomed = {}
    BY DEF Take, ThreadStep, callerVars, ticketVars, flagVars, historyVars, Closing
  <1>2. Fresh' /\ CancelledAnswered' /\ RefusedNeverEntered' /\ GateOwned'
    BY <1>1 DEF Fresh, CancelledAnswered, RefusedNeverEntered, GateOwned
  <1>3. OnlyCurrentRuns'
    BY <1>1 DEF OnlyCurrentRuns, Busy
  <1>4. CASE UNCHANGED <<queue, current>> /\ thread' = "loop"
    <2>1. WaitingUntouched' /\ QueueOnce' /\ CurrentAt' /\ Closing' /\ NoTicketLost'
      BY <1>1, <1>4 DEF WaitingUntouched, Waiting, QueueOnce, CurrentAt, Closing, NoTicketLost,
         Busy, Starting, Inside, Ended, stopVars
    <2> QED
      BY <1>2, <1>3, <2>1
  <1>5. CASE queue # <<>> /\ thread' = "took" /\ current' = Head(queue) /\ queue' = Tail(queue)
    <2>1. /\ current' \in Request /\ ToSet(queue) = {current'} \cup ToSet(queue')
          /\ current' \notin ToSet(queue') /\ QueueOnce'
      BY <1>5, QueueElements, HeadOnce DEF TypeOK, QueueOnce
    <2>2. finishing = {} /\ ~closed
      BY <1>5 DEF Closing
    <2>3. Waiting = Waiting' \cup {current'} /\ current' \notin Waiting'
      BY <1>1, <2>1, <2>2 DEF Waiting, stopVars
    <2>4. WaitingUntouched' /\ CurrentAt'
      BY <1>1, <1>5, <2>3 DEF WaitingUntouched, CurrentAt, Starting
    <2>5. Closing' /\ NoTicketLost'
      BY <1>1, <1>5, <2>1 DEF Closing, NoTicketLost, Ended, OnlyCurrentRuns, Busy, stopVars
    <2> QED
      BY <1>2, <1>3, <2>1, <2>4, <2>5
  <1> QED
    BY <1>4, <1>5 DEF Take, ThreadStep

\* A drain: the queue is emptied, into doomed by the thread, into finishing by shutdown.
LEMMA DrainStep ==
    ASSUME IInv, TypeOK', Close \/ Shutdown
    PROVE  IInv'
  <1> USE DEF IInv
  <1>1. /\ UNCHANGED <<future, caller, current, outcome, gate, entered>>
        /\ queue' = <<>> /\ closed' = TRUE
    BY DEF Close, Shutdown, callerVars, ticketVars, threadVars, historyVars
  <1>2. \/ /\ thread = "final" /\ thread' = "finish" /\ doomed = {} /\ doomed' = ToSet(queue)
           /\ UNCHANGED <<stopper, finishing>>
        \/ /\ stopper = "idle" /\ stopper' = "finish" /\ finishing = {} /\ finishing' = ToSet(queue)
           /\ UNCHANGED <<thread, doomed>>
    BY DEF Close, Shutdown, ThreadStep, Drained, threadVars, stopVars, Closing
  <1>3. ToSet(queue') = {} /\ Waiting' = Waiting
    BY <1>1, <1>2, EmptyQueue DEF Waiting
  <1>4. Fresh' /\ CancelledAnswered' /\ QueueOnce' /\ WaitingUntouched' /\ RefusedNeverEntered'
    BY <1>1, <1>3 DEF Fresh, CancelledAnswered, QueueOnce, WaitingUntouched, RefusedNeverEntered
  <1>5. CurrentAt' /\ OnlyCurrentRuns' /\ GateOwned'
    BY <1>1, <1>2 DEF CurrentAt, OnlyCurrentRuns, GateOwned, Busy, Starting, Inside
  <1>6. Closing' /\ NoTicketLost'
    BY <1>1, <1>2 DEF Closing, NoTicketLost
  <1> QED
    BY <1>4, <1>5, <1>6

LEMMA PrepareWorkerStep ==
    ASSUME IInv, TypeOK', PrepareWorker
    PROVE  IInv'
  <1> USE DEF IInv
  <1>1. /\ UNCHANGED <<future, caller, finishing, gate, entered>>
        /\ thread \in Ended /\ thread' = "none" /\ current' = NoRequest /\ doomed' = {}
        /\ queue' = <<>> /\ closed' = FALSE /\ stopper' = "idle" /\ finishing = {}
    BY DEF PrepareWorker, Replaceable, Closing, callerVars, ticketVars
  <1>2. ToSet(queue') = {} /\ Waiting' = {}
    BY <1>1, EmptyQueue DEF Waiting
  <1>3. Fresh' /\ CancelledAnswered' /\ QueueOnce' /\ WaitingUntouched' /\ RefusedNeverEntered'
    BY <1>1, <1>2 DEF Fresh, CancelledAnswered, QueueOnce, WaitingUntouched, RefusedNeverEntered
  <1>4. CurrentAt' /\ OnlyCurrentRuns' /\ GateOwned' /\ Closing'
    BY <1>1 DEF CurrentAt, OnlyCurrentRuns, GateOwned, Closing, Busy, Starting, Inside, Ended
  <1>5. NoTicketLost'
    BY <1>1 DEF NoTicketLost, OnlyCurrentRuns, Ended, Busy
  <1> QED
    BY <1>3, <1>4, <1>5

LEMMA InvariantStep ==
    ASSUME IInv, [Next]_vars
    PROVE  IInv'
  <1>1. TypeOK'
    BY TypeStep DEF IInv
  <1>2. ASSUME NEW r \in Request,
               Submit(r) \/ Handler(r) \/ GiveUp(r) \/ HangUp(r) \/ DeadlinePasses(r)
        PROVE  IInv'
    BY <1>1, <1>2, SubmitStep, HandlerStep, CancelFutureStep DEF Handler
  <1>3. CASE Thread
    BY <1>1, <1>3, IdleStep, TakeStep, PrecheckStep, BeginRunningStep, EnterGateStep, RecheckStep,
       MarkRunningStep, EnterCadStep, LeaveCadStep, SettleStep, DrainStep, FinishOneStep DEF Thread
  <1>4. CASE Shutdown \/ FinishPending \/ Join \/ PrepareWorker \/ Tool
    BY <1>1, <1>4, DrainStep, FinishPendingStep, IdleStep, PrepareWorkerStep
  <1>5. CASE UNCHANGED vars
    BY <1>1, <1>5, QuietStep DEF vars, callerVars, ticketVars, flagVars, historyVars
  <1> QED
    BY <1>2, <1>3, <1>4, <1>5 DEF Next

-----------------------------------------------------------------------------
(* The refinement.                                                         *)

TicketVars == <<future, entered>>

\* How a ticket moves, one request at a time.
LEMMA OneMoves ==
    ASSUME NEW r \in Request, NEW to, future' = [future EXCEPT ![r] = to], UNCHANGED entered,
           \/ future[r] = "none" /\ to = "pending"
           \/ future[r] = "pending" /\ to \in Tickets!NotExecuted \cup {"cancelled", "running"}
           \/ future[r] = "running" /\ r \notin entered /\ to \in Tickets!NotExecuted
           \/ future[r] = "running" /\ r \in entered /\ to \in Tickets!Executed
    PROVE  Tickets!Next
  <1>1. Tickets!Submit(r) \/ Tickets!Refuse(r) \/ Tickets!Start(r) \/ Tickets!Withdraw(r)
        \/ Tickets!Finish(r)
    BY DEF Tickets!Submit, Tickets!Refuse, Tickets!Start, Tickets!Withdraw, Tickets!Finish,
       Tickets!Moves
  <1> QED
    BY <1>1 DEF Tickets!Next

LEMMA TicketStep ==
    ASSUME IInv, [Next]_vars
    PROVE  [Tickets!Next]_TicketVars
  <1> USE DEF TicketVars
  <1>1. ASSUME NEW r \in Request,
               Submit(r) \/ Handler(r) \/ GiveUp(r) \/ HangUp(r) \/ DeadlinePasses(r)
        PROVE  [Tickets!Next]_TicketVars
    <2>1. CASE Submit(r)
      <3>1. /\ UNCHANGED entered
            /\ \/ UNCHANGED future
               \/ future[r] = "none" /\ future' = [future EXCEPT ![r] = "pending"]
        BY <2>1 DEF Submit, IInv, Fresh, historyVars
      <3> QED
        BY <3>1, OneMoves
    <2>2. CASE CancelFuture(r)
      <3>1. /\ UNCHANGED entered
            /\ \/ UNCHANGED future
               \/ future[r] = "pending" /\ future' = [future EXCEPT ![r] = "cancelled"]
        BY <2>2 DEF CancelFuture, historyVars
      <3> QED
        BY <3>1, OneMoves
    <2>3. CASE Receive(r) \/ ReportTimeout(r) \/ GiveUp(r) \/ HangUp(r) \/ DeadlinePasses(r)
      BY <2>3 DEF Receive, ReportTimeout, GiveUp, HangUp, StopWaiting, DeadlinePasses, ticketVars,
         historyVars
    <2> QED
      BY <1>1, <2>1, <2>2, <2>3 DEF Handler
  <1>2. CASE Precheck \/ BeginRunning
    <2>1. /\ current \in Request /\ future[current] \notin {"none", "running"} /\ UNCHANGED entered
          /\ \/ UNCHANGED future
             \/ /\ future[current] \notin Settled
                /\ future' = [future EXCEPT ![current] = DiscardError]
             \/ future[current] = "pending" /\ future' = [future EXCEPT ![current] = "running"]
      BY <1>2 DEF Precheck, BeginRunning, MayRun, SetIfPending, IInv, TypeOK, CurrentAt, Busy,
         Starting, historyVars
    <2>2. future[current] \notin Settled => future[current] = "pending"
      BY <2>1 DEF IInv, TypeOK
    <2> QED
      BY <2>1, <2>2, OneMoves DEF DiscardError, Tickets!NotExecuted
  <1>3. CASE EnterGate \/ Settle
    <2>1. /\ current \in Request /\ future[current] = "running" /\ UNCHANGED entered
          /\ \/ UNCHANGED future
             \/ /\ current \notin entered
                /\ future' = [future EXCEPT ![current] = "timeout"]
             \/ /\ outcome \in IF current \in entered THEN Tickets!Executed ELSE Tickets!NotExecuted
                /\ future' = [future EXCEPT ![current] = outcome]
      BY <1>3 DEF EnterGate, Settle, SetIfPending, IInv, TypeOK, CurrentAt, Busy, Starting, Inside,
         historyVars
    <2> QED
      BY <2>1, OneMoves DEF Tickets!NotExecuted
  <1>4. CASE EnterCad
    <2>1. current \in Request /\ Tickets!Enter(current)
      BY <1>4 DEF EnterCad, IInv, TypeOK, CurrentAt, Busy, Starting, ticketVars, Tickets!Enter
    <2> QED
      BY <2>1 DEF Tickets!Next
  <1>5. CASE FinishOne \/ FinishPending
    <2>1. /\ UNCHANGED entered
          /\ \/ UNCHANGED future
             \/ \E r \in Waiting : /\ future[r] \notin Settled
                                   /\ future' = [future EXCEPT ![r] = "stopped"]
      BY <1>5 DEF FinishOne, FinishPending, SetIfPending, Waiting, historyVars
    <2>2. \A r \in Waiting : r \in Request /\ (future[r] \notin Settled => future[r] = "pending")
      BY WaitingTyped DEF IInv, TypeOK, WaitingUntouched
    <2> QED
      BY <2>1, <2>2, OneMoves DEF Tickets!NotExecuted
  <1>6. CASE InitializeCom \/ CheckStop \/ Take \/ Recheck \/ MarkRunning \/ LeaveCad \/ Close
             \/ ReleaseCom
    BY <1>6 DEF InitializeCom, CheckStop, Take, Recheck, MarkRunning, LeaveCad, Close, ReleaseCom,
       ticketVars, historyVars
  <1>7. CASE Shutdown \/ Join \/ PrepareWorker \/ Tool
    BY <1>7 DEF Shutdown, Join, PrepareWorker, Tool, ticketVars, historyVars
  <1>8. CASE UNCHANGED vars
    BY <1>8 DEF vars, ticketVars, historyVars
  <1> QED
    BY <1>1, <1>2, <1>3, <1>4, <1>5, <1>6, <1>7, <1>8 DEF Next, Thread

-----------------------------------------------------------------------------
LEMMA Invariance == Spec => []IInv
  BY InitIInv, InvariantStep, PTL DEF Spec

\* For any number of requests, any queue and any number of workers the variables
\* keep their types; a handler never receives a cancelled Future.
THEOREM WorkerTypeCorrect == Spec => []TypeOK
  BY Invariance, PTL DEF IInv

\* For any number of requests and workers CAD code was never entered for a request
\* whose error says so (_execute_request, submit, shutdown).
THEOREM RefusedNeverEnteredHolds == Spec => []RefusedNeverEntered
  BY Invariance, PTL DEF IInv

\* For any number of requests and workers every ticket that is not settled is one
\* that the queue, the thread or a drain will settle (_run, shutdown).
THEOREM NoTicketLostHolds == Spec => []NoTicketLost
  BY Invariance, PTL DEF IInv

\* For any number of requests and workers the gate is the worker's exactly while
\* its thread is inside (cad_operation in _execute_request).
THEOREM GateOwnedHolds == Spec => []GateOwned
  BY Invariance, PTL DEF IInv

\* For any number of requests and workers every ticket is one of Ticket
\* (set_running_or_notify_cancel, the *_if_pending helpers, both drains).
THEOREM WorkerImplementsTicket == Spec => TicketKept
  <1>1. Init => Tickets!Init
    BY DEF Init, Tickets!Init
  <1>2. IInv /\ [Next]_vars => [Tickets!Next]_TicketVars
    BY TicketStep
  <1> QED
    BY <1>1, <1>2, Invariance, PTL DEF Spec, TicketKept, Tickets!Spec, TicketVars

=============================================================================

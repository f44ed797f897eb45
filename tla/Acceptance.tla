----------------------------- MODULE Acceptance -----------------------------
(***************************************************************************)
(* The isolated acceptance run (cad_memory/acceptance.py): a test drawing  *)
(* is made, saved, closed and opened again by another server process, each *)
(* step recorded in a state file before and after.  The servers share the  *)
(* directory of the run; the lock file lets one of them work at a time.    *)
(* Every call of the object model may fail, a server may be killed at any  *)
(* moment, and the person works on.                                        *)
(***************************************************************************)
EXTENDS DrawingFiles, Sequences

CONSTANTS Pids,   \* process identifiers, which the system uses again
          None    \* no process

VARIABLES alive,    \* the servers that run
          lock,     \* .acceptance.lock: who wrote it, or None
          run,      \* test_document_state.json, or NoRun
          call,     \* the call that holds the lock, with the state it has in memory
          written   \* how often the run has written the target

runVars == <<alive, lock, run, call, written>>

NoRun == [phase |-> "none"]
Idle == [at |-> "idle"]
Phases == {"preparing", "prepared", "saving", "closing", "closed", "reopening", "reopened"}
NoHash == MaxEdits + 1

ASSUME AcceptanceAssumption == None \notin Pids

\* What file_identity observes of a document.
Identity(n) ==
    [version |-> docs[n].version, saved |-> docs[n].saved,
     hash |-> IF n \in DOMAIN disk THEN disk[n].version ELSE NoHash]

\* _documents, but for the target.
OtherDocuments == [n \in DOMAIN docs \ {"target"} |-> Identity(n)]

RunOK ==
    /\ alive \subseteq Pids /\ lock \in Pids \union {None}
    /\ run = NoRun \/ /\ run.phase \in Phases /\ run.saved \in Versions \union {NoHash}
                      /\ run.closed_by \in Pids \union {None}
    /\ call = Idle \/ /\ call.pid \in alive /\ lock = call.pid /\ call.state.phase \in Phases \union {"none"}
    /\ written \in 0 .. 2

RunInit == alive \in {{p} : p \in Pids} /\ lock = None /\ run = NoRun
           /\ call = Idle /\ written = 0

-----------------------------------------------------------------------------
(* The steps of a call.  A step that raises ends it and releases the lock; *)
(* what was written to the state file stays.                                *)

Working(action, at) == call.at = at /\ call.action \in action
Goto(at, state) == call' = [call EXCEPT !.at = at, !.state = state]

\* Slip: a pending phase is kept in memory until the call ends.
RecordPending_Late(state) == UNCHANGED run

\* _write_state, before the call of the object model that the phase announces.
RecordPending(state) == run' = state
Unchanged == UNCHANGED <<alive, lock>>

\* The call ends with its event.
Finish(state) ==
    /\ call' = Idle /\ lock' = None
    /\ run' = [state EXCEPT !.events = Append(@, [action |-> call.action, pid |-> call.pid,
                                                 saved |-> state.saved])]
    /\ UNCHANGED <<alive, written>>

Raise ==
    /\ call.at # "idle"
    /\ call' = Idle /\ lock' = None
    /\ UNCHANGED <<cadVars, alive, run, written>>

\* lock.open("x"); a call that finds the lock is refused and changes nothing.
execute_lifecycle(pid, action) ==
    /\ lock = None /\ call = Idle
    /\ lock' = pid
    /\ call' = [at |-> "start", action |-> action, pid |-> pid, state |-> run]
    /\ UNCHANGED <<cadVars, alive, run, written>>

guard_target == active = "target"

AssertBaseline(state) == OtherDocuments = state.baseline

CleanTarget == guard_target /\ docs["target"].saved

\* prepare: the run is recorded before the drawing is made.
Prepare ==
    /\ Working({"prepare"}, "start") /\ call.state = NoRun
    /\ LET state == [phase |-> "preparing", baseline |-> OtherDocuments, saved |-> NoHash,
                     closed_by |-> None, events |-> <<>>]
       IN  RecordPending(state) /\ Goto("add", state)
    /\ Unchanged /\ UNCHANGED <<cadVars, written>>

AddDocument ==
    /\ Working({"prepare"}, "add") /\ "new" \notin DOMAIN docs
    /\ docs' = Extended(docs, "new", [version |-> 0, saved |-> TRUE])
    /\ active' = "new"
    /\ Goto("bind", call.state)
    /\ Unchanged /\ UNCHANGED <<disk, edits, clock, turned, run, written>>

\* The drawing in front must be the one that was added, and empty.
BindAddedDocument ==
    /\ Working({"prepare"}, "bind")
    /\ active = "new" /\ docs["new"].version = 0
    /\ Goto("save_as", call.state)
    /\ Unchanged /\ UNCHANGED <<cadVars, run, written>>

SaveAsTarget ==
    /\ Working({"prepare"}, "save_as")
    /\ "target" \notin DOMAIN disk /\ SaveAs("new", "target")
    /\ written' = written + 1
    /\ Goto("check", call.state)
    /\ Unchanged /\ UNCHANGED <<edits, clock, turned, run>>

CheckPrepared ==
    /\ Working({"prepare"}, "check")
    /\ CleanTarget /\ AssertBaseline(call.state)
    /\ Goto("record", [call.state EXCEPT !.phase = "prepared"])
    /\ Unchanged /\ UNCHANGED <<cadVars, run, written>>

Snapshot ==
    /\ Working({"snapshot"}, "start") /\ call.state.phase \in {"prepared", "reopened"}
    /\ guard_target
    /\ Goto("record", call.state)
    /\ Unchanged /\ UNCHANGED <<cadVars, run, written>>

\* Slip: a save that is pending is tried again.
expected_phase_Retry(action) == IF action = "save_close" THEN {"prepared", "saving"} ELSE {"reopening"}

expected_phase(action) == IF action = "save_close" THEN {"prepared"} ELSE {"reopening"}

\* save_close: "saving" is recorded, then the target saved.
StartSaving ==
    /\ Working({"save_close"}, "start") /\ call.state.phase \in expected_phase(call.action)
    /\ guard_target /\ AssertBaseline(call.state)
    /\ LET state == [call.state EXCEPT !.phase = "saving"]
       IN  RecordPending(state) /\ Goto("save", state)
    /\ Unchanged /\ UNCHANGED <<cadVars, written>>

SaveTarget ==
    /\ Working({"save_close"}, "save") /\ Save("target")
    /\ written' = written + 1
    /\ Goto("clean", call.state)
    /\ Unchanged /\ UNCHANGED <<edits, clock, turned, run>>

\* "closing" is recorded, with the hash of what was saved.
StartClosing ==
    /\ Working({"save_close"}, "clean") /\ CleanTarget
    /\ LET state == [call.state EXCEPT !.phase = "closing", !.saved = disk["target"].version]
       IN  RecordPending(state) /\ Goto("close", state)
    /\ Unchanged /\ UNCHANGED <<cadVars, written>>

\* reclose, after an open that did not end: nothing is saved.
Reclose ==
    /\ Working({"reclose"}, "start") /\ call.state.phase \in expected_phase(call.action)
    /\ AssertBaseline(call.state) /\ CleanTarget
    /\ disk["target"].version = call.state.saved
    /\ LET state == [call.state EXCEPT !.phase = "closing"]
       IN  RecordPending(state) /\ Goto("close", state)
    /\ Unchanged /\ UNCHANGED <<cadVars, written>>

\* Slip: the document in front is closed, whichever it is by then.
ClosedDocument_InFront == active

\* Close(False) goes to the document that was checked.
ClosedDocument == "target"

CloseTarget ==
    /\ Working({"save_close", "reclose"}, "close") /\ ClosedDocument \in DOMAIN docs
    /\ Shut(ClosedDocument)
    /\ Goto("gone", call.state)
    /\ Unchanged /\ UNCHANGED <<disk, edits, clock, turned, run, written>>

CheckClosed ==
    /\ Working({"save_close", "reclose"}, "gone")
    /\ "target" \notin DOMAIN docs /\ AssertBaseline(call.state)
    /\ disk["target"].version = call.state.saved
    /\ Goto("record", [call.state EXCEPT !.phase = "closed", !.closed_by = call.pid])
    /\ Unchanged /\ UNCHANGED <<cadVars, run, written>>

\* The last event of a close.
LastClose(events, i) ==
    /\ i \in DOMAIN events /\ events[i].action \in {"save_close", "reclose"}
    /\ \A j \in DOMAIN events : j > i => events[j].action \notin {"save_close", "reclose"}

\* The close that is on record was another process's.
guard_independent_reopen(state) ==
    /\ state.phase = "closed" /\ state.closed_by # call.pid
    /\ \E i \in DOMAIN state.events :
        /\ LastClose(state.events, i)
        /\ state.events[i].pid = state.closed_by /\ state.events[i].saved = state.saved

Reopen ==
    /\ Working({"reopen"}, "start") /\ call.state # NoRun
    /\ guard_independent_reopen(call.state)
    /\ disk["target"].version = call.state.saved
    /\ "target" \notin DOMAIN docs /\ AssertBaseline(call.state)
    /\ LET state == [call.state EXCEPT !.phase = "reopening"]
       IN  RecordPending(state) /\ Goto("open", state)
    /\ Unchanged /\ UNCHANGED <<cadVars, written>>

OpenTarget ==
    /\ Working({"reopen"}, "open") /\ OpenFile("target")
    /\ Goto("reopen_check", call.state)
    /\ Unchanged /\ UNCHANGED <<edits, clock, turned, run, written>>

CheckReopened ==
    /\ Working({"reopen"}, "reopen_check")
    /\ CleanTarget /\ disk["target"].version = call.state.saved
    /\ AssertBaseline(call.state)
    /\ Goto("record", [call.state EXCEPT !.phase = "reopened"])
    /\ Unchanged /\ UNCHANGED <<cadVars, run, written>>

RecordEvent == call.at = "record" /\ Finish(call.state) /\ UNCHANGED cadVars

-----------------------------------------------------------------------------
(* The servers and the person who looks after them.                         *)

\* A killed server leaves its lock.
Kill ==
    /\ \E pid \in alive :
        /\ alive' = alive \ {pid}
        /\ call' = IF call.at # "idle" /\ call.pid = pid THEN Idle ELSE call
    /\ UNCHANGED <<cadVars, lock, run, written>>

Start ==
    /\ \E pid \in Pids \ alive : alive' = alive \union {pid}
    /\ UNCHANGED <<cadVars, lock, run, call, written>>

\* The lock of a server that is gone is removed by hand.
RemoveLock ==
    /\ lock # None /\ lock \notin alive /\ lock' = None
    /\ UNCHANGED <<cadVars, alive, run, call, written>>

Actions == {"prepare", "snapshot", "save_close", "reopen", "reclose"}

AcceptanceStep ==
    \/ \E pid \in alive, action \in Actions : execute_lifecycle(pid, action)
    \/ Prepare \/ AddDocument \/ BindAddedDocument \/ SaveAsTarget \/ CheckPrepared
    \/ Snapshot \/ StartSaving \/ SaveTarget \/ StartClosing \/ Reclose
    \/ CloseTarget \/ CheckClosed \/ Reopen \/ OpenTarget \/ CheckReopened
    \/ RecordEvent \/ Raise

Servers == Kill \/ Start \/ RemoveLock

-----------------------------------------------------------------------------
\* How often the target was written by the phase on record: a pending phase is
\* recorded before the write it announces, so that the two may differ by one.
WritesOf(phase) ==
    CASE phase = "none"      -> {0}
      [] phase = "preparing" -> {0, 1}
      [] phase = "prepared"  -> {1}
      [] phase = "saving"    -> {1, 2}
      [] OTHER               -> {2}

\* The last close came before an open of another process, with the hash that
\* is on record.
IndependentlyReopened(state) ==
    \E i, j \in DOMAIN state.events :
        /\ LastClose(state.events, i) /\ j > i /\ state.events[j].action = "reopen"
        /\ state.events[i].pid # state.events[j].pid
        /\ state.events[i].saved = state.saved

\* The state file tells what was done, whenever a call fails or its server is
\* killed and whatever is called afterwards: the target was written as often as
\* the phase says, at most once more in a pending phase, so that nothing is done
\* twice; and a run that counts as reopened was closed by one process and opened
\* by another, with the hash that the close recorded ("Saving, closing and
\* reopening record a pending phase before their COM call").
EvidenceHolds ==
    written \in WritesOf(run.phase) /\ (run.phase = "reopened" => IndependentlyReopened(run))
=============================================================================

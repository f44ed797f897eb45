-------------------------- MODULE AcceptanceProofs --------------------------
(***************************************************************************)
(* Theorems about the acceptance run and the backups, for any drawings of  *)
(* the person, any server processes and any number of copies to keep.      *)
(***************************************************************************)
EXTENDS AcceptanceRun, FiniteSetTheorems, WellFoundedInduction, TLAPS

USE DrawingFilesAssumption, AcceptanceAssumption, BackupAssumption

-----------------------------------------------------------------------------
(* The documents and files.                                                 *)

DocsOK ==
    /\ DOMAIN docs \subseteq Names /\ \A n \in DOMAIN docs : docs[n] \in Document
    /\ active \in DOMAIN docs \union {"none"} /\ (active = "none") = (DOMAIN docs = {})

DiskOK == DOMAIN disk \subseteq Names \ {"new"} /\ \A n \in DOMAIN disk : disk[n] \in File

RestOK == edits \in Versions /\ clock \in 0 .. MaxClock /\ turned \in BOOLEAN

LEMMA FilesParts ==
    /\ FilesOK <=> DocsOK /\ DiskOK /\ RestOK
    /\ FilesOK' <=> DocsOK' /\ DiskOK' /\ RestOK'
  BY DEF FilesOK, DocsOK, DiskOK, RestOK

\* No step takes a file away.
FilesStay == DOMAIN disk \subseteq DOMAIN disk'

LEMMA NoneIsNoName == "none" \notin Names
  BY DEF Names

LEMMA ShutOK ==
    ASSUME FilesOK, NEW n, Shut(n)
    PROVE  DocsOK'
  <1>1. /\ DOMAIN docs' = DOMAIN docs \ {n}
        /\ \A m \in DOMAIN docs' : docs'[m] = docs[m]
    BY DEF Shut, Without
  <1>2. /\ active' \in DOMAIN docs' \union {"none"}
        /\ (active' = "none") = (DOMAIN docs' = {})
    BY <1>1, NoneIsNoName DEF Shut, FilesOK
  <1> QED
    BY <1>1, <1>2 DEF DocsOK, FilesOK

LEMMA WriteOK ==
    ASSUME FilesOK, NEW n \in Names \ {"new"}, NEW version \in Versions, Write(n, version)
    PROVE  /\ DiskOK' /\ FilesStay /\ n \in DOMAIN disk'
           /\ disk'[n] = [version |-> version, mtime |-> clock]
           /\ \A m \in DOMAIN disk \ {n} : disk'[m] = disk[m]
  <1>1. /\ DOMAIN disk' = DOMAIN disk \union {n}
        /\ \A m \in DOMAIN disk' :
              disk'[m] = IF m = n THEN [version |-> version, mtime |-> clock] ELSE disk[m]
    BY DEF Write, Extended
  <1>2. [version |-> version, mtime |-> clock] \in File
    BY DEF FilesOK, File
  <1> QED
    BY <1>1, <1>2 DEF DiskOK, FilesOK, FilesStay

LEMMA SaveOK ==
    ASSUME FilesOK, NEW n, Save(n)
    PROVE  DocsOK' /\ DiskOK' /\ FilesStay
  <1>1. n \in Names \ {"new"} /\ docs[n].version \in Versions
    BY DEF Save, FilesOK, Document
  <1>2. DiskOK' /\ FilesStay
    BY <1>1, WriteOK DEF Save
  <1>3. /\ DOMAIN docs' = DOMAIN docs
        /\ \A m \in DOMAIN docs' : docs'[m] \in Document
    BY DEF Save, FilesOK, Document
  <1> QED
    BY <1>2, <1>3 DEF Save, DocsOK, FilesOK

LEMMA SaveAsOK ==
    ASSUME FilesOK, SaveAs("new", "target")
    PROVE  DocsOK' /\ DiskOK' /\ FilesStay /\ "target" \in DOMAIN disk'
  <1>1. "target" \in Names \ {"new"} /\ docs["new"].version \in Versions
    BY DEF SaveAs, FilesOK, Document, Names
  <1>2. DiskOK' /\ FilesStay /\ "target" \in DOMAIN disk'
    BY <1>1, WriteOK DEF SaveAs
  <1>3. /\ DOMAIN docs' = (DOMAIN docs \ {"new"}) \union {"target"}
        /\ \A m \in DOMAIN docs' : docs'[m] \in Document
    <2>1. [docs["new"] EXCEPT !.saved = TRUE] \in Document
      BY DEF SaveAs, FilesOK, Document
    <2> QED
      BY <2>1 DEF SaveAs, Extended, Without, FilesOK
  <1>4. active' \in DOMAIN docs' /\ active' # "none"
    BY <1>3, NoneIsNoName DEF SaveAs, FilesOK
  <1> QED
    BY <1>1, <1>2, <1>3, <1>4 DEF DocsOK, FilesOK

LEMMA OpenFileOK ==
    ASSUME FilesOK, NEW n, OpenFile(n)
    PROVE  DocsOK'
  <1>1. n \in Names /\ [version |-> disk[n].version, saved |-> TRUE] \in Document
    BY DEF OpenFile, FilesOK, File, Document
  <1>2. /\ DOMAIN docs' = DOMAIN docs \union {n}
        /\ \A m \in DOMAIN docs' : docs'[m] \in Document
    BY <1>1 DEF OpenFile, Extended, FilesOK
  <1>3. active' = n /\ n \in DOMAIN docs' /\ n # "none"
    BY <1>1, <1>2, NoneIsNoName DEF OpenFile
  <1>4. DOMAIN docs' \subseteq Names
    BY <1>1, <1>2 DEF FilesOK
  <1> QED
    BY <1>2, <1>3, <1>4 DEF DocsOK

LEMMA PersonFilesOK ==
    ASSUME FilesOK, PersonActs
    PROVE  FilesOK' /\ FilesStay
  <1> USE FilesParts DEF FilesStay
  <1>1. CASE EditsDrawing
    <2>1. edits' \in Versions /\ [version |-> edits', saved |-> FALSE] \in Document
      BY <1>1 DEF EditsDrawing, FilesOK, Versions, Document
    <2>2. DocsOK'
      BY <1>1, <2>1 DEF EditsDrawing, DocsOK
    <2> QED
      BY <1>1, <2>1, <2>2 DEF EditsDrawing, DiskOK, RestOK
  <1>2. CASE SavesDrawing
    BY <1>2, SaveOK DEF SavesDrawing, RestOK
  <1>3. CASE ClosesDrawing
    BY <1>3, ShutOK DEF ClosesDrawing, RestOK, DiskOK
  <1>4. CASE OpensDrawing
    BY <1>4, OpenFileOK DEF OpensDrawing, OpenFile, RestOK, DiskOK
  <1>5. CASE Activates
    BY <1>5, NoneIsNoName DEF Activates, RestOK, DiskOK, DocsOK
  <1>6. CASE Restores
    <2>1. PICK n \in DOMAIN disk, v \in 0 .. edits, t \in 0 .. clock :
              disk' = [disk EXCEPT ![n] = [version |-> v, mtime |-> t]]
      BY <1>6 DEF Restores
    <2>2. [version |-> v, mtime |-> t] \in File
      BY <2>1 DEF File, FilesOK, Versions
    <2> QED
      BY <1>6, <2>1, <2>2 DEF Restores, RestOK, DiskOK, DocsOK
  <1>7. CASE TimePasses \/ ClockBack
    <2>1. clock' \in 0 .. MaxClock
      <3>1. clock \in 0 .. MaxClock
        BY DEF FilesOK
      <3>2. CASE TimePasses
        BY <3>1, <3>2 DEF TimePasses
      <3>3. CASE ClockBack
        BY <3>1, <3>3 DEF ClockBack
      <3> QED
        BY <1>7, <3>2, <3>3
    <2>3. turned' \in BOOLEAN
      BY <1>7 DEF TimePasses, ClockBack, FilesOK
    <2>2. UNCHANGED <<docs, active, disk, edits>>
      BY <1>7 DEF TimePasses, ClockBack
    <2> QED
      BY <2>1, <2>2, <2>3 DEF RestOK, DiskOK, DocsOK
  <1> QED
    BY <1>1, <1>2, <1>3, <1>4, <1>5, <1>6, <1>7 DEF PersonActs

\* The steps of a call that reach the object model.
CallsCad == AddDocument \/ SaveAsTarget \/ SaveTarget \/ CloseTarget \/ OpenTarget

LEMMA QuietSteps ==
    ASSUME AcceptanceStep, ~CallsCad
    PROVE  UNCHANGED <<cadVars, written>>
  BY DEF AcceptanceStep, CallsCad, execute_lifecycle, Prepare, BindAddedDocument, CheckPrepared,
         Snapshot, StartSaving, StartClosing, Reclose, CheckClosed, Reopen, CheckReopened,
         RecordEvent, Finish, Raise

LEMMA RunFilesOK ==
    ASSUME FilesOK, AcceptanceStep
    PROVE  FilesOK' /\ FilesStay
  <1> USE FilesParts DEF FilesStay
  <1>1. CASE AddDocument
    <2>1. /\ DOMAIN docs' = DOMAIN docs \union {"new"} /\ active' = "new"
          /\ \A n \in DOMAIN docs' : docs'[n] \in Document
      BY <1>1 DEF AddDocument, Extended, FilesOK, Document, Versions
    <2>2. DocsOK'
      BY <2>1 DEF DocsOK, FilesOK, Names
    <2> QED
      BY <1>1, <2>2 DEF AddDocument, DiskOK, RestOK
  <1>2. CASE SaveAsTarget
    BY <1>2, SaveAsOK DEF SaveAsTarget, RestOK
  <1>3. CASE SaveTarget
    BY <1>3, SaveOK DEF SaveTarget, RestOK
  <1>4. CASE CloseTarget
    BY <1>4, ShutOK DEF CloseTarget, RestOK, DiskOK
  <1>5. CASE OpenTarget
    BY <1>5, OpenFileOK DEF OpenTarget, OpenFile, RestOK, DiskOK
  <1>6. CASE UNCHANGED cadVars
    BY <1>6 DEF cadVars, DocsOK, RestOK, DiskOK
  <1> QED
    BY <1>1, <1>2, <1>3, <1>4, <1>5, <1>6, QuietSteps DEF CallsCad

-----------------------------------------------------------------------------
(* The run: its state file, the call that is at work, and what was written. *)

Closing == {"save_close", "reclose"}
Event == [action : Actions, pid : Pids, saved : Versions \union {NoHash}]

IsState(s) ==
    /\ DOMAIN s = {"phase", "baseline", "saved", "closed_by", "events"}
    /\ s.phase \in Phases /\ s.saved \in Versions \union {NoHash}
    /\ s.closed_by \in Pids \union {None} /\ s.events \in Seq(Event)

\* The last close on record was another process's than the one that opens.
Backed(s, pid) ==
    \E i \in DOMAIN s.events :
        LastClose(s.events, i) /\ s.events[i].pid # pid /\ s.events[i].saved = s.saved

\* What a call knows at each of its steps about what was recorded and written.
Started == call.at = "start" /\ call.state = run
Making ==
    /\ call.at \in {"add", "bind", "save_as"} /\ call.action = "prepare"
    /\ run.phase = "preparing" /\ written = 0
Made == call.at = "check" /\ call.action = "prepare" /\ written = 1
SavesNow == call.at = "save" /\ call.action = "save_close" /\ run.phase = "saving" /\ written = 1
Saved == call.at = "clean" /\ call.action = "save_close" /\ written = 2
Closes == call.at \in {"close", "gone"} /\ call.action \in Closing /\ written = 2
Opens ==
    /\ call.at \in {"open", "reopen_check"} /\ call.action = "reopen"
    /\ written = 2 /\ Backed(call.state, call.pid)
Records ==
    /\ call.at = "record" /\ written \in WritesOf(call.state.phase)
    /\ call.state.phase = "reopened" =>
          \/ call.action = "reopen" /\ Backed(call.state, call.pid)
          \/ call.action = "snapshot" /\ IndependentlyReopened(call.state)

Progress ==
    \/ Started
    \/ /\ IsState(call.state)
       /\ Making \/ Made \/ SavesNow \/ Saved \/ Closes \/ Opens \/ Records

CallTyped ==
    /\ DOMAIN call = {"at", "action", "pid", "state"}
    /\ call.action \in Actions /\ call.pid \in alive /\ lock = call.pid

CallOK == call = Idle \/ (CallTyped /\ Progress)

StateOK ==
    /\ alive \subseteq Pids /\ lock \in Pids \union {None}
    /\ run = NoRun \/ IsState(run)
    /\ written \in 0 .. 2 /\ (written # 0 => "target" \in DOMAIN disk)

RunInv == StateOK /\ CallOK /\ EvidenceHolds

LEMMA RunInvTypes ==
    ASSUME RunInv
    PROVE  RunOK
  <1>1. NoRun.phase = "none" /\ run = NoRun => run.phase = "none"
    BY DEF NoRun
  <1>2. ASSUME call # Idle
        PROVE  call.state.phase \in Phases \union {"none"}
    <2>1. call.state = NoRun \/ IsState(call.state)
      BY <1>2 DEF RunInv, CallOK, Progress, Started, StateOK
    <2> QED
      BY <2>1, <1>1 DEF IsState, NoRun
  <1> QED
    BY <1>2 DEF RunInv, StateOK, CallOK, CallTyped, RunOK, IsState

LEMMA AppendKeepsClose ==
    ASSUME NEW events \in Seq(Event), NEW e \in Event, NEW i, LastClose(events, i)
    PROVE  /\ i \in 1 .. Len(events) /\ i \in DOMAIN Append(events, e)
           /\ Append(events, e)[i] = events[i]
           /\ e.action \notin Closing => LastClose(Append(events, e), i)
  BY DEF LastClose, Closing

LEMMA ExecuteInv ==
    ASSUME RunInv, NEW pid \in alive, NEW action \in Actions, execute_lifecycle(pid, action)
    PROVE  RunInv'
  <1>1. StateOK' /\ EvidenceHolds'
    BY DEF RunInv, StateOK, EvidenceHolds, execute_lifecycle, cadVars
  <1>2. CallTyped' /\ Started'
    BY DEF execute_lifecycle, CallTyped, Started
  <1> QED
    BY <1>1, <1>2 DEF RunInv, CallOK, Progress

LEMMA AtWork ==
    ASSUME RunInv, call.at # "idle"
    PROVE  CallTyped /\ Progress
  BY DEF RunInv, CallOK, Idle

LEMMA GotoOK ==
    ASSUME CallTyped, Unchanged, NEW at, NEW state, Goto(at, state)
    PROVE  /\ CallTyped' /\ call'.at = at /\ call'.state = state
           /\ call'.action = call.action /\ call'.pid = call.pid
  BY DEF CallTyped, Unchanged, Goto

\* A step that records nothing.
LEMMA QuietState ==
    ASSUME RunInv, UNCHANGED <<alive, run, written>>, lock' \in {lock, None}, FilesStay
    PROVE  StateOK' /\ EvidenceHolds'
  BY DEF RunInv, StateOK, EvidenceHolds, FilesStay

\* A step that records a pending phase, before its call of the object model.
LEMMA PendingState ==
    ASSUME RunInv, UNCHANGED <<cadVars, alive, lock, written>>, IsState(run'),
           run'.phase # "reopened", written \in WritesOf(run'.phase)
    PROVE  StateOK' /\ EvidenceHolds'
  BY DEF RunInv, StateOK, EvidenceHolds, cadVars

LEMMA RunOf ==
    ASSUME RunInv
    PROVE  run.phase \in Phases => IsState(run)
  BY DEF RunInv, StateOK, NoRun, Phases

LEMMA MakingSteps ==
    ASSUME RunInv, FilesOK, Prepare \/ AddDocument \/ BindAddedDocument \/ SaveAsTarget
    PROVE  RunInv'
  <1> USE DEF RunInv, CallOK, Progress
  <1>1. CASE Prepare
    <2> DEFINE state == [phase |-> "preparing", baseline |-> OtherDocuments, saved |-> NoHash,
                         closed_by |-> None, events |-> <<>>]
    <2>1. run' = state /\ Goto("add", state) /\ Unchanged /\ UNCHANGED <<cadVars, written>>
      BY <1>1 DEF Prepare, RecordPending
    <2>2. IsState(state) /\ state.phase = "preparing"
      BY DEF IsState, Phases
    <2> HIDE DEF state
    <2>3. CallTyped /\ Started /\ written = 0
      <3>1. CallTyped /\ Started
        BY <1>1, AtWork DEF Prepare, Working, Started, Making, Made, SavesNow, Saved, Closes,
           Opens, Records
      <3>2. run.phase = "none"
        BY <1>1, <3>1 DEF Prepare, NoRun, Started
      <3> QED
        BY <3>1, <3>2 DEF EvidenceHolds, WritesOf
    <2>4. StateOK' /\ EvidenceHolds'
      BY <2>1, <2>2, <2>3, PendingState DEF WritesOf, Unchanged
    <2>5. CallTyped' /\ call'.at = "add" /\ call'.state = state /\ call'.action = "prepare"
      BY <1>1, <2>1, <2>3, GotoOK DEF Prepare, Working
    <2>6. Making'
      BY <2>1, <2>2, <2>3, <2>5 DEF Making
    <2> QED
      BY <2>1, <2>2, <2>4, <2>5, <2>6
  <1>2. CASE AddDocument \/ BindAddedDocument \/ SaveAsTarget
    <2>1. CallTyped /\ Making /\ IsState(call.state)
      BY <1>2, AtWork DEF AddDocument, BindAddedDocument, SaveAsTarget, Working, Started, Making,
         Made, SavesNow, Saved, Closes, Opens, Records
    <2>2. CASE AddDocument \/ BindAddedDocument
      <3>1. /\ UNCHANGED <<disk, run, written, alive, lock>>
            /\ Goto("bind", call.state) \/ Goto("save_as", call.state)
        BY <2>2 DEF AddDocument, BindAddedDocument, Unchanged, cadVars
      <3>2. StateOK' /\ EvidenceHolds'
        BY <3>1, QuietState DEF FilesStay
      <3>3. CallTyped' /\ IsState(call'.state) /\ Making'
        BY <2>1, <3>1, GotoOK DEF Making, Unchanged
      <3> QED
        BY <3>2, <3>3
    <2>3. CASE SaveAsTarget
      <3>1. written' = 1 /\ UNCHANGED <<run, alive, lock>> /\ Goto("check", call.state)
        BY <2>1, <2>3 DEF SaveAsTarget, Making, Unchanged
      <3>2. "target" \in DOMAIN disk'
        BY <2>3, SaveAsOK DEF SaveAsTarget
      <3>3. StateOK' /\ EvidenceHolds'
        BY <2>1, <3>1, <3>2 DEF StateOK, EvidenceHolds, WritesOf, Making
      <3>4. CallTyped' /\ IsState(call'.state) /\ Made'
        BY <2>1, <3>1, GotoOK DEF Making, Made, Unchanged
      <3> QED
        BY <3>3, <3>4
    <2> QED
      BY <1>2, <2>2, <2>3
  <1> QED
    BY <1>1, <1>2

\* A call that checks what it made, or that its document is gone: nothing is
\* recorded, and the phase it will record is not yet on file.
LEMMA CheckingSteps ==
    ASSUME RunInv, CheckPrepared \/ CheckClosed \/ CheckReopened \/ Snapshot
    PROVE  RunInv'
  <1>1. /\ UNCHANGED <<cadVars, run, written, alive, lock>>
        /\ \E state : Goto("record", state)
    BY DEF CheckPrepared, CheckClosed, CheckReopened, Snapshot, Unchanged
  <1>2. StateOK' /\ EvidenceHolds'
    BY <1>1, QuietState DEF FilesStay, cadVars
  <1>3. CallTyped /\ Progress
    BY AtWork DEF CheckPrepared, CheckClosed, CheckReopened, Snapshot, Working
  <1>4. CASE CheckPrepared
    <2>1. Made /\ IsState(call.state)
      BY <1>3, <1>4 DEF CheckPrepared, Working, Progress, Started, Making, Made, SavesNow, Saved,
         Closes, Opens, Records
    <2>2. IsState([call.state EXCEPT !.phase = "prepared"])
      BY <2>1 DEF IsState, Phases
    <2>3. /\ CallTyped' /\ call'.at = "record"
          /\ call'.state = [call.state EXCEPT !.phase = "prepared"]
      BY <1>3, <1>4, GotoOK DEF CheckPrepared
    <2>4. call'.state.phase = "prepared"
      BY <2>1, <2>3 DEF IsState
    <2>5. Records'
      BY <1>1, <2>1, <2>3, <2>4 DEF Records, Made, WritesOf
    <2> QED
      BY <1>2, <2>2, <2>3, <2>5 DEF RunInv, CallOK, Progress
  <1>5. CASE CheckClosed
    <2>1. Closes /\ IsState(call.state)
      BY <1>3, <1>5 DEF CheckClosed, Working, Progress, Started, Making, Made, SavesNow, Saved,
         Closes, Opens, Records
    <2> DEFINE state == [call.state EXCEPT !.phase = "closed", !.closed_by = call.pid]
    <2>2. IsState(state) /\ state.phase = "closed"
      BY <1>3, <2>1 DEF IsState, Phases, CallTyped, RunInv, StateOK
    <2>3. Goto("record", state)
      BY <1>5 DEF CheckClosed
    <2> HIDE DEF state
    <2>4. CallTyped' /\ call'.at = "record" /\ call'.state = state
      BY <1>1, <1>3, <2>3, GotoOK DEF Unchanged
    <2>5. Records'
      BY <1>1, <2>1, <2>2, <2>4 DEF Records, Closes, WritesOf
    <2> QED
      BY <1>2, <2>2, <2>4, <2>5 DEF RunInv, CallOK, Progress
  <1>6. CASE CheckReopened
    <2>1. Opens /\ IsState(call.state)
      BY <1>3, <1>6 DEF CheckReopened, Working, Progress, Started, Making, Made, SavesNow, Saved,
         Closes, Opens, Records
    <2> DEFINE state == [call.state EXCEPT !.phase = "reopened"]
    <2>2. /\ IsState(state) /\ state.phase = "reopened"
          /\ state.events = call.state.events /\ state.saved = call.state.saved
      BY <2>1 DEF IsState, Phases
    <2>3. Goto("record", state)
      BY <1>6 DEF CheckReopened
    <2> HIDE DEF state
    <2>4. /\ CallTyped' /\ call'.at = "record" /\ call'.state = state
          /\ call'.action = call.action /\ call'.pid = call.pid
      BY <1>1, <1>3, <2>3, GotoOK DEF Unchanged
    <2>5. Backed(call'.state, call'.pid)
      BY <2>1, <2>2, <2>4 DEF Opens, Backed
    <2>6. Records'
      BY <1>1, <2>1, <2>2, <2>4, <2>5 DEF Records, Opens, WritesOf
    <2> QED
      BY <1>2, <2>2, <2>4, <2>6 DEF RunInv, CallOK, Progress
  <1>7. CASE Snapshot
    <2>1. Started /\ call.state.phase \in {"prepared", "reopened"} /\ call.action = "snapshot"
      BY <1>3, <1>7 DEF Snapshot, Working, Progress, Started, Making, Made, SavesNow, Saved,
         Closes, Opens, Records
    <2>2. IsState(call.state)
      BY <2>1, RunOf DEF Started, Phases
    <2>3. /\ CallTyped' /\ call'.at = "record" /\ call'.state = call.state
          /\ call'.action = "snapshot"
      BY <1>3, <1>7, <2>1, GotoOK DEF Snapshot
    <2>4. Records'
      BY <1>1, <2>1, <2>3 DEF Records, Started, RunInv, EvidenceHolds
    <2> QED
      BY <1>2, <2>2, <2>3, <2>4 DEF RunInv, CallOK, Progress
  <1> QED
    BY <1>4, <1>5, <1>6, <1>7

\* The calls of the object model that save, close and open the target.
LEMMA TargetSteps ==
    ASSUME RunInv, FilesOK, SaveTarget \/ CloseTarget \/ OpenTarget
    PROVE  RunInv'
  <1>1. CallTyped /\ Progress
    BY AtWork DEF SaveTarget, CloseTarget, OpenTarget, Working
  <1>2. CASE SaveTarget
    <2>1. SavesNow /\ IsState(call.state)
      BY <1>1, <1>2 DEF SaveTarget, Working, Progress, Started, Making, Made, SavesNow, Saved,
         Closes, Opens, Records
    <2>2. written' = 2 /\ UNCHANGED <<run, alive, lock>> /\ Goto("clean", call.state)
      BY <1>2, <2>1 DEF SaveTarget, SavesNow, Unchanged
    <2>3. "target" \in DOMAIN disk'
      <3>1. Save("target") /\ docs["target"].version \in Versions
        BY <1>2 DEF SaveTarget, Save, FilesOK, Document
      <3> QED
        BY <3>1, WriteOK DEF Save, Names
    <2>4. StateOK' /\ EvidenceHolds'
      BY <2>1, <2>2, <2>3 DEF RunInv, StateOK, EvidenceHolds, WritesOf, SavesNow
    <2>5. CallTyped' /\ IsState(call'.state) /\ Saved'
      BY <1>1, <2>1, <2>2, GotoOK DEF Saved, SavesNow, Unchanged
    <2> QED
      BY <2>4, <2>5 DEF RunInv, CallOK, Progress
  <1>3. CASE CloseTarget
    <2>1. Closes /\ IsState(call.state)
      BY <1>1, <1>3 DEF CloseTarget, Working, Progress, Started, Making, Made, SavesNow, Saved,
         Closes, Opens, Records
    <2>2. UNCHANGED <<disk, run, written, alive, lock>> /\ Goto("gone", call.state)
      BY <1>3 DEF CloseTarget, Unchanged
    <2>3. StateOK' /\ EvidenceHolds'
      BY <2>2, QuietState DEF FilesStay
    <2>4. CallTyped' /\ IsState(call'.state) /\ Closes'
      BY <1>1, <2>1, <2>2, GotoOK DEF Closes, Unchanged
    <2> QED
      BY <2>3, <2>4 DEF RunInv, CallOK, Progress
  <1>4. CASE OpenTarget
    <2>1. Opens /\ IsState(call.state)
      BY <1>1, <1>4 DEF OpenTarget, Working, Progress, Started, Making, Made, SavesNow, Saved,
         Closes, Opens, Records
    <2>2. UNCHANGED <<disk, run, written, alive, lock>> /\ Goto("reopen_check", call.state)
      BY <1>4 DEF OpenTarget, OpenFile, Unchanged
    <2>3. StateOK' /\ EvidenceHolds'
      BY <2>2, QuietState DEF FilesStay
    <2>4. CallTyped' /\ IsState(call'.state) /\ Opens'
      BY <1>1, <2>1, <2>2, GotoOK DEF Opens, Unchanged
    <2> QED
      BY <2>3, <2>4 DEF RunInv, CallOK, Progress
  <1> QED
    BY <1>2, <1>3, <1>4

\* The steps that record a pending phase.
LEMMA PendingSteps ==
    ASSUME RunInv, FilesOK, StartSaving \/ StartClosing \/ Reclose \/ Reopen
    PROVE  RunInv'
  <1>1. CallTyped /\ Progress
    BY AtWork DEF StartSaving, StartClosing, Reclose, Reopen, Working
  <1>2. CASE StartSaving
    <2> DEFINE state == [call.state EXCEPT !.phase = "saving"]
    <2>1. Started /\ call.state.phase = "prepared" /\ call.action = "save_close"
      BY <1>1, <1>2 DEF StartSaving, Working, expected_phase, Progress, Started, Making, Made,
         SavesNow, Saved, Closes, Opens, Records
    <2>2. IsState(run) /\ written = 1
      BY <2>1, RunOf DEF Started, Phases, RunInv, EvidenceHolds, WritesOf
    <2>3. IsState(state) /\ state.phase = "saving"
      BY <2>1, <2>2 DEF IsState, Phases, Started
    <2>4. run' = state /\ Goto("save", state) /\ Unchanged /\ UNCHANGED <<cadVars, written>>
      BY <1>2 DEF StartSaving, RecordPending
    <2> HIDE DEF state
    <2>5. StateOK' /\ EvidenceHolds'
      BY <2>2, <2>3, <2>4, PendingState DEF WritesOf, Unchanged
    <2>6. CallTyped' /\ IsState(call'.state) /\ SavesNow'
      BY <1>1, <2>1, <2>2, <2>3, <2>4, GotoOK DEF SavesNow
    <2> QED
      BY <2>5, <2>6 DEF RunInv, CallOK, Progress
  <1>3. CASE StartClosing
    <2> DEFINE state == [call.state EXCEPT !.phase = "closing",
                                           !.saved = disk["target"].version]
    <2>1. Saved /\ IsState(call.state)
      BY <1>1, <1>3 DEF StartClosing, Working, Progress, Started, Making, Made, SavesNow, Saved,
         Closes, Opens, Records
    <2>2. disk["target"].version \in Versions
      BY <2>1 DEF Saved, RunInv, StateOK, FilesOK, File
    <2>3. IsState(state) /\ state.phase = "closing"
      BY <2>1, <2>2 DEF IsState, Phases
    <2>4. run' = state /\ Goto("close", state) /\ Unchanged /\ UNCHANGED <<cadVars, written>>
      BY <1>3 DEF StartClosing, RecordPending
    <2> HIDE DEF state
    <2>5. StateOK' /\ EvidenceHolds'
      BY <2>1, <2>3, <2>4, PendingState DEF WritesOf, Unchanged, Saved
    <2>6. CallTyped' /\ IsState(call'.state) /\ Closes'
      BY <1>1, <2>1, <2>3, <2>4, GotoOK DEF Saved, Closes, Closing
    <2> QED
      BY <2>5, <2>6 DEF RunInv, CallOK, Progress
  <1>4. CASE Reclose
    <2> DEFINE state == [call.state EXCEPT !.phase = "closing"]
    <2>1. Started /\ call.state.phase = "reopening" /\ call.action = "reclose"
      BY <1>1, <1>4 DEF Reclose, Working, expected_phase, Progress, Started, Making, Made,
         SavesNow, Saved, Closes, Opens, Records
    <2>2. IsState(run) /\ written = 2
      BY <2>1, RunOf DEF Started, Phases, RunInv, EvidenceHolds, WritesOf
    <2>3. IsState(state) /\ state.phase = "closing"
      BY <2>1, <2>2 DEF IsState, Phases, Started
    <2>4. run' = state /\ Goto("close", state) /\ Unchanged /\ UNCHANGED <<cadVars, written>>
      BY <1>4 DEF Reclose, RecordPending
    <2> HIDE DEF state
    <2>5. StateOK' /\ EvidenceHolds'
      BY <2>2, <2>3, <2>4, PendingState DEF WritesOf, Unchanged
    <2>6. CallTyped' /\ IsState(call'.state) /\ Closes'
      BY <1>1, <2>1, <2>2, <2>3, <2>4, GotoOK DEF Closes, Closing
    <2> QED
      BY <2>5, <2>6 DEF RunInv, CallOK, Progress
  <1>5. CASE Reopen
    <2> DEFINE state == [call.state EXCEPT !.phase = "reopening"]
    <2>1. Started /\ guard_independent_reopen(call.state) /\ call.action = "reopen"
      BY <1>1, <1>5 DEF Reopen, Working, Progress, Started, Making, Made, SavesNow, Saved,
         Closes, Opens, Records
    <2>2. IsState(run) /\ written = 2
      BY <2>1, RunOf DEF Started, Phases, RunInv, EvidenceHolds, WritesOf,
         guard_independent_reopen
    <2>3. /\ IsState(state) /\ state.phase = "reopening"
          /\ state.events = call.state.events /\ state.saved = call.state.saved
      BY <2>1, <2>2 DEF IsState, Phases, Started
    <2>4. run' = state /\ Goto("open", state) /\ Unchanged /\ UNCHANGED <<cadVars, written>>
      BY <1>5 DEF Reopen, RecordPending
    <2> HIDE DEF state
    <2>5. StateOK' /\ EvidenceHolds'
      BY <2>2, <2>3, <2>4, PendingState DEF WritesOf, Unchanged
    <2>6. /\ CallTyped' /\ call'.at = "open" /\ call'.state = state
          /\ call'.action = "reopen" /\ call'.pid = call.pid
      BY <1>1, <2>1, <2>4, GotoOK
    <2>7. Backed(call'.state, call'.pid)
      BY <2>1, <2>3, <2>6 DEF Backed, guard_independent_reopen
    <2>8. Opens'
      BY <2>2, <2>4, <2>6, <2>7 DEF Opens
    <2> QED
      BY <2>3, <2>5, <2>6, <2>8 DEF RunInv, CallOK, Progress
  <1> QED
    BY <1>2, <1>3, <1>4, <1>5

\* A reopened drawing is recorded as one that another process closed.
LEMMA RecordStep ==
    ASSUME RunInv, RecordEvent
    PROVE  RunInv'
  <1> DEFINE state == call.state
             e == [action |-> call.action, pid |-> call.pid, saved |-> state.saved]
             events == Append(state.events, e)
  <1>1. CallTyped /\ Records /\ IsState(state)
    BY AtWork DEF RecordEvent, Progress, Started, Making, Made, SavesNow, Saved, Closes, Opens,
       Records
  <1>2. state.events \in Seq(Event) /\ e \in Event
    BY <1>1 DEF IsState, Event, CallTyped, RunInv, StateOK
  <1>3. run' = [state EXCEPT !.events = events]
    BY DEF RecordEvent, Finish
  <1>4. /\ IsState(run') /\ run'.phase = state.phase /\ run'.saved = state.saved
        /\ run'.events = events
    BY <1>1, <1>2, <1>3 DEF IsState
  <1>5. UNCHANGED <<disk, alive, written>> /\ lock' = None /\ call' = Idle
    BY DEF RecordEvent, Finish, cadVars
  <1>6. ASSUME state.phase = "reopened"
        PROVE  IndependentlyReopened(run')
    <2>1. e.action = call.action /\ e.pid = call.pid /\ e.saved = state.saved
      OBVIOUS
    <2>2. /\ Len(events) = Len(state.events) + 1 /\ Len(state.events) \in Nat
          /\ DOMAIN events = 1 .. Len(events) /\ events[Len(events)] = e
      BY <1>2
    <2> HIDE DEF state, e, events
    <2>3. CASE call.action = "reopen" /\ Backed(state, call.pid)
      <3>1. PICK i \in DOMAIN state.events :
                LastClose(state.events, i) /\ state.events[i].pid # call.pid
                /\ state.events[i].saved = state.saved
        BY <2>3 DEF Backed
      <3>2. /\ i \in 1 .. Len(state.events) /\ i \in DOMAIN events
            /\ events[i] = state.events[i] /\ LastClose(events, i)
        BY <1>2, <2>1, <2>3, <3>1, AppendKeepsClose DEF events, Closing
      <3>3. Len(events) \in DOMAIN events /\ Len(events) > i
        BY <2>2, <3>2
      <3> QED
        BY <1>4, <2>1, <2>2, <2>3, <3>1, <3>2, <3>3 DEF IndependentlyReopened
    <2>4. CASE call.action = "snapshot" /\ IndependentlyReopened(state)
      <3>1. PICK i, j \in DOMAIN state.events :
                /\ LastClose(state.events, i) /\ j > i /\ state.events[j].action = "reopen"
                /\ state.events[i].pid # state.events[j].pid
                /\ state.events[i].saved = state.saved
        BY <2>4 DEF IndependentlyReopened
      <3>2. i \in DOMAIN events /\ events[i] = state.events[i] /\ LastClose(events, i)
        BY <1>2, <2>1, <2>4, <3>1, AppendKeepsClose DEF events, Closing
      <3>3. j \in DOMAIN events /\ events[j] = state.events[j]
        BY <1>2, <3>1 DEF events
      <3> QED
        BY <1>4, <3>1, <3>2, <3>3 DEF IndependentlyReopened
    <2> QED
      BY <1>1, <1>6, <2>3, <2>4 DEF Records, state
  <1>7. EvidenceHolds'
    BY <1>1, <1>4, <1>5, <1>6 DEF EvidenceHolds, Records
  <1> QED
    BY <1>4, <1>5, <1>7 DEF RunInv, StateOK, CallOK, Idle

\* A call that raises, a server that is killed or started, a lock that is taken
\* away: what is on file stays.
LEMMA EndSteps ==
    ASSUME RunInv, Raise \/ Servers
    PROVE  RunInv'
  <1>1. /\ UNCHANGED <<cadVars, run, written>> /\ alive' \subseteq Pids
        /\ lock' \in {lock, None}
    BY DEF Raise, Servers, Kill, Start, RemoveLock, RunInv, StateOK
  <1>2. StateOK' /\ EvidenceHolds'
    BY <1>1 DEF RunInv, StateOK, EvidenceHolds, cadVars
  <1>3. CallOK'
    <2>1. CASE Raise
      BY <2>1 DEF Raise, CallOK
    <2>2. CASE Kill
      <3>1. CASE call' = Idle
        BY <3>1 DEF CallOK
      <3>2. CASE call' = call /\ call # Idle
        <4>1. PICK pid \in alive : alive' = alive \ {pid} /\ ~(call.at # "idle" /\ call.pid = pid)
          BY <2>2, <3>2 DEF Kill, Idle
        <4>2. CallTyped /\ Progress /\ call.at # "idle"
          BY <3>2 DEF RunInv, CallOK, Progress, Started, Making, Made, SavesNow, Saved, Closes,
             Opens, Records
        <4>3. CallTyped'
          BY <2>2, <3>2, <4>1, <4>2 DEF Kill, CallTyped
        <4>4. Progress'
          BY <2>2, <3>2, <4>2 DEF Kill, Progress, Started, Making, Made, SavesNow, Saved, Closes,
             Opens, Records
        <4> QED
          BY <4>3, <4>4 DEF CallOK
      <3>3. CASE call' = call /\ call = Idle
        BY <3>3 DEF CallOK
      <3> QED
        BY <2>2, <3>1, <3>2, <3>3 DEF Kill
    <2>3. CASE Start
      BY <2>3
         DEF Start, RunInv, CallOK, CallTyped, Progress, Started, Making, Made, SavesNow, Saved,
             Closes, Opens, Records
    <2>4. CASE RemoveLock
      BY <2>4 DEF RemoveLock, RunInv, CallOK, CallTyped
    <2> QED
      BY <2>1, <2>2, <2>3, <2>4 DEF Servers
  <1> QED
    BY <1>2, <1>3 DEF RunInv

LEMMA OutsideSteps ==
    ASSUME RunInv, UNCHANGED runVars, FilesStay
    PROVE  RunInv'
  <1>1. StateOK' /\ EvidenceHolds'
    BY QuietState DEF runVars
  <1>2. CallOK'
    BY DEF runVars, RunInv, CallOK, CallTyped, Progress, Started, Making, Made, SavesNow, Saved,
       Closes, Opens, Records
  <1> QED
    BY <1>1, <1>2 DEF RunInv

LEMMA RunStep ==
    ASSUME FilesOK, RunInv, [Next]_vars
    PROVE  FilesOK' /\ FilesStay /\ RunInv'
  <1>1. CASE AcceptanceStep
    <2>1. RunInv'
      BY <1>1, ExecuteInv, MakingSteps, CheckingSteps, TargetSteps, PendingSteps, RecordStep,
         EndSteps DEF AcceptanceStep
    <2> QED
      BY <1>1, <2>1, RunFilesOK
  <1>2. CASE Servers
    <2>1. UNCHANGED cadVars
      BY <1>2 DEF Servers, Kill, Start, RemoveLock
    <2>2. FilesOK' /\ FilesStay
      BY <2>1 DEF cadVars, FilesOK, FilesStay
    <2> QED
      BY <1>2, <2>2, EndSteps
  <1>3. CASE PersonActs /\ UNCHANGED runVars
    BY <1>3, PersonFilesOK, OutsideSteps
  <1>4. CASE UNCHANGED <<cadVars, runVars>>
    <2>1. FilesOK' /\ FilesStay
      BY <1>4 DEF cadVars, FilesOK, FilesStay
    <2> QED
      BY <1>4, <2>1, OutsideSteps
  <1> QED
    BY <1>1, <1>2, <1>3, <1>4 DEF Next, vars, create_backup

LEMMA RunStart ==
    ASSUME Init
    PROVE  FilesOK /\ RunInv /\ Others \subseteq DOMAIN disk
  <1>1. FilesOK
    <2>1. FilesInit
      BY DEF Init
    <2>2. DocsOK
      <3>1. DOMAIN docs = Others /\ \A n \in Others : docs[n] = [version |-> 0, saved |-> TRUE]
        BY <2>1 DEF FilesInit
      <3>2. [version |-> 0, saved |-> TRUE] \in Document
        BY DEF Document, Versions
      <3>3. IF Others = {} THEN active = "none" ELSE active \in Others
        BY <2>1 DEF FilesInit
      <3> QED
        BY <3>1, <3>2, <3>3 DEF DocsOK, Names
    <2>3. DiskOK
      BY <2>1 DEF FilesInit, DiskOK, Names, File, Versions
    <2>4. RestOK
      <3>1. edits \in Versions /\ clock \in 0 .. MaxClock
        BY <2>1 DEF FilesInit, Versions
      <3>2. turned \in BOOLEAN
        BY <2>1 DEF FilesInit
      <3> QED
        BY <3>1, <3>2 DEF RestOK
    <2> QED
      BY <2>2, <2>3, <2>4, FilesParts
  <1>2. RunInv
    BY DEF Init, RunInit, RunInv, StateOK, CallOK, EvidenceHolds, WritesOf, NoRun
  <1>3. Others \subseteq DOMAIN disk
    BY DEF Init, FilesInit
  <1> QED
    BY <1>1, <1>2, <1>3

-----------------------------------------------------------------------------
(* The drawings of the person.                                              *)

LEMMA OthersAreOther == \A n \in Others : n # "target" /\ n # "new"
  OBVIOUS

LEMMA OthersStep ==
    ASSUME FilesOK, Others \subseteq DOMAIN disk, Next, call' # call \/ copying' # copying,
           NEW n \in Others
    PROVE  /\ n \in DOMAIN docs \intersect DOMAIN docs' => docs'[n] = docs[n]
           /\ (n \in DOMAIN docs') = (n \in DOMAIN docs)
           /\ disk'[n] = disk[n]
  <1>1. n # "target" /\ n # "new" /\ n \in DOMAIN disk
    BY OthersAreOther
  <1>2. CASE UNCHANGED cadVars
    BY <1>2 DEF cadVars
  <1>3. CASE AddDocument
    BY <1>1, <1>3 DEF AddDocument, Extended
  <1>4. CASE SaveAsTarget
    BY <1>1, <1>4 DEF SaveAsTarget, SaveAs, Write, Extended, Without
  <1>5. CASE SaveTarget
    BY <1>1, <1>5 DEF SaveTarget, Save, Write, Extended
  <1>6. CASE CloseTarget
    BY <1>1, <1>6 DEF CloseTarget, ClosedDocument, Shut, Without
  <1>7. CASE OpenTarget
    BY <1>1, <1>7 DEF OpenTarget, OpenFile, Extended
  <1>8. CASE PersonActs /\ UNCHANGED <<runVars, backupVars>>
    BY <1>8 DEF runVars, backupVars
  <1>9. Servers \/ create_backup => UNCHANGED cadVars
    BY DEF Servers, Kill, Start, RemoveLock, create_backup
  <1> QED
    BY <1>2, <1>3, <1>4, <1>5, <1>6, <1>7, <1>8, <1>9, QuietSteps DEF Next, CallsCad

-----------------------------------------------------------------------------
(* The backups.                                                             *)

\* What no older file and no clock put back has disturbed: no file and no copy
\* is newer than the clock, and no copy newer than the file it was made of.
Times ==
    /\ \A n \in DOMAIN disk : disk[n].mtime <= clock
    /\ \A b \in backups :
          b.of \in DOMAIN disk /\ b.stamp <= clock /\ b.mtime <= disk[b.of].mtime

\* No copy of the same drawing is newer than the one that was just made.
Newest == copying \in backups => \A b \in CopiesOf(copying.of) : ~Newer(b, copying)

BackupInv ==
    /\ BackupOK /\ IsFiniteSet(backups)
    /\ "stamp" \in DOMAIN copying => copying \in backups
    /\ ~turned => Times /\ Newest

\* The copies of one drawing have different stamps, so that Newer orders them.
Distinct(S) == \A b, c \in S : b.stamp = c.stamp => b = c

LEMMA NewerOrders ==
    ASSUME NEW S \in SUBSET Copy, Distinct(S), NEW b \in S, NEW c \in S
    PROVE  /\ ~Newer(b, b)
           /\ b = c \/ Newer(b, c) \/ Newer(c, b)
           /\ \A d \in S : Newer(b, c) /\ Newer(c, d) => Newer(b, d)
  <1>1. \A x \in S : x.mtime \in Nat /\ x.stamp \in Nat
    BY DEF Copy
  <1> QED
    BY <1>1 DEF Newer, Distinct

\* A finite set of copies that is not empty has an oldest one: the set of what
\* is older than it is minimal.
LEMMA OldestExists ==
    ASSUME NEW S \in SUBSET Copy, IsFiniteSet(S), Distinct(S), S # {}
    PROVE  \E b \in S : \A c \in S : c # b => Newer(c, b)
  <1> DEFINE Older(b) == {c \in S : Newer(b, c)}
             Sets == {Older(b) : b \in S}
  <1>1. IsWellFoundedOn(StrictSubsetOrdering(S), SUBSET S)
    BY FS_StrictSubsetOrderingWellFounded, FS_FiniteSubsetsOfFinite
  <1>2. Sets \subseteq SUBSET S /\ Sets # {}
    <2>1. ASSUME NEW b \in S PROVE Older(b) \in SUBSET S
      OBVIOUS
    <2>2. Sets \subseteq SUBSET S
      <3> HIDE DEF Older
      <3> QED
        BY <2>1
    <2>3. PICK b \in S : TRUE
      OBVIOUS
    <2>4. Older(b) \in Sets
      <3> HIDE DEF Older
      <3> QED
        OBVIOUS
    <2> QED
      BY <2>2, <2>4
  <1>3. PICK x \in Sets : \A y \in Sets : ~(<<y, x>> \in StrictSubsetOrdering(S))
    <2> HIDE DEF Sets
    <2> QED
      BY <1>1, <1>2, WFMin
  <1>4. PICK b \in S : x = Older(b)
    BY <1>3
  <1>5. ASSUME NEW c \in S, Newer(b, c)
        PROVE  FALSE
    <2>1. Older(c) \subseteq Older(b)
      BY <1>5, NewerOrders
    <2>2. c \in Older(b) /\ c \notin Older(c)
      BY <1>5, NewerOrders
    <2>3. <<Older(c), Older(b)>> \in (SUBSET S) \X (SUBSET S)
      OBVIOUS
    <2>4. <<Older(c), Older(b)>> \in StrictSubsetOrdering(S)
      <3> DEFINE p == Older(c)
                 q == Older(b)
      <3>1. p \subseteq q /\ p # q /\ p \in SUBSET S /\ q \in SUBSET S
        BY <2>1, <2>2
      <3> HIDE DEF p, q
      <3>2. <<p, q>> \in StrictSubsetOrdering(S)
        BY <3>1 DEF StrictSubsetOrdering
      <3> QED
        BY <3>2 DEF p, q
    <2> QED
      BY <1>3, <1>4, <2>4
  <1> QED
    BY <1>5, NewerOrders

\* However many copies there are: no more than Keep have fewer than Keep newer
\* ones, since all of these but the oldest of them are newer than that.
LEMMA FewAreKept ==
    ASSUME NEW S \in SUBSET Copy, IsFiniteSet(S), Distinct(S)
    PROVE  Cardinality({b \in S : ~(Cardinality({c \in S : Newer(c, b)}) >= Keep)}) <= Keep
  <1> DEFINE Above(b) == {c \in S : Newer(c, b)}
             Kept == {b \in S : ~(Cardinality(Above(b)) >= Keep)}
  <1>1. IsFiniteSet(Kept) /\ Kept \in SUBSET Copy /\ Distinct(Kept)
    BY FS_Subset DEF Distinct
  <1>2. CASE Kept = {}
    <2>1. Cardinality(Kept) = 0
      BY <1>2, FS_EmptySet
    <2> HIDE DEF Kept
    <2>2. Cardinality(Kept) <= Keep
      BY <2>1
    <2> QED
      BY <2>2 DEF Kept
  <1>3. CASE Kept # {}
    <2>1. PICK b \in Kept : \A c \in Kept : c # b => Newer(c, b)
      <3> HIDE DEF Kept
      <3> QED
        BY <1>1, <1>3, OldestExists
    <2>2. Kept \ {b} \subseteq Above(b)
      BY <2>1
    <2>3. IsFiniteSet(Above(b)) /\ Cardinality(Above(b)) \in Nat /\ Cardinality(Above(b)) < Keep
      <3>1. IsFiniteSet(Above(b))
        BY FS_Subset
      <3>2. Cardinality(Above(b)) \in Nat
        BY <3>1, FS_CardinalityType
      <3>3. ~(Cardinality(Above(b)) >= Keep)
        BY <2>1
      <3> HIDE DEF Above
      <3>4. Cardinality(Above(b)) < Keep
        BY <3>2, <3>3
      <3> QED
        BY <3>1, <3>2, <3>4
    <2> HIDE DEF Kept, Above
    <2>4. Cardinality(Kept \ {b}) <= Cardinality(Above(b))
      BY <2>2, <2>3, FS_Subset
    <2>5. Cardinality(Kept \ {b}) = Cardinality(Kept) - 1 /\ Cardinality(Kept) \in Nat
      BY <1>1, <2>1, FS_RemoveElement, FS_CardinalityType
    <2>6. Cardinality(Kept) <= Keep
      BY <2>3, <2>4, <2>5
    <2> QED
      BY <2>6 DEF Kept, Above
  <1> QED
    BY <1>2, <1>3

\* What a step does to the files, unless it puts an older one in place or the
\* clock back.
FilesGrow ==
    \/ UNCHANGED disk /\ clock' \in {clock, clock + 1}
    \/ clock' = clock /\ \E n \in Names \ {"new"}, v \in Versions : Write(n, v)

LEMMA FilesGrowOrTurn ==
    ASSUME FilesOK, [Next]_vars
    PROVE  (turned => turned') /\ (turned' \/ FilesGrow)
  <1>1. ASSUME NEW n, Save(n)
        PROVE  \E m \in Names \ {"new"}, v \in Versions : Write(m, v)
    BY <1>1 DEF Save, FilesOK, Document
  <1>2. CASE UNCHANGED cadVars
    BY <1>2 DEF cadVars, FilesGrow
  <1>3. CallsCad => turned' = turned
    BY DEF CallsCad, AddDocument, SaveAsTarget, SaveTarget, CloseTarget, OpenTarget
  <1>4. CallsCad => FilesGrow
    <2>1. AddDocument \/ CloseTarget \/ OpenTarget => FilesGrow
      BY DEF AddDocument, CloseTarget, OpenTarget, OpenFile, FilesGrow
    <2>2. SaveTarget => FilesGrow
      BY <1>1 DEF SaveTarget, FilesGrow
    <2>3. SaveAsTarget => FilesGrow
      BY DEF SaveAsTarget, SaveAs, FilesGrow, FilesOK, Document, Names
    <2> QED
      BY <2>1, <2>2, <2>3 DEF CallsCad
  <1>5. CASE PersonActs
    <2>1. CASE EditsDrawing \/ ClosesDrawing \/ OpensDrawing \/ Activates
      <3>1. UNCHANGED <<disk, clock, turned>>
        BY <2>1 DEF EditsDrawing, ClosesDrawing, OpensDrawing, OpenFile, Activates
      <3> QED
        BY <3>1 DEF FilesGrow
    <2>4. CASE TimePasses
      BY <2>4 DEF TimePasses, FilesGrow
    <2>2. CASE SavesDrawing
      BY <2>2, <1>1 DEF SavesDrawing, FilesGrow
    <2>3. CASE Restores \/ ClockBack
      BY <2>3 DEF Restores, ClockBack
    <2> QED
      BY <1>5, <2>1, <2>2, <2>3, <2>4 DEF PersonActs
  <1>6. Servers \/ create_backup \/ UNCHANGED vars => UNCHANGED cadVars
    BY DEF Servers, Kill, Start, RemoveLock, create_backup, vars
  <1> QED
    BY <1>2, <1>3, <1>4, <1>5, <1>6, QuietSteps DEF Next

LEMMA BackupOutside ==
    ASSUME FilesOK, BackupInv, UNCHANGED backupVars, turned => turned', turned' \/ FilesGrow
    PROVE  BackupInv'
  <1>1. UNCHANGED <<backups, copying, reported>>
    BY DEF backupVars
  <1>2. ASSUME ~turned'
        PROVE  Times'
    <2>1. Times
      BY <1>2 DEF BackupInv
    <2>2. /\ clock \in Nat /\ \A n \in DOMAIN disk : disk[n].mtime \in Nat
          /\ \A b \in backups : b.stamp \in Nat /\ b.mtime \in Nat
      BY DEF FilesOK, File, BackupInv, BackupOK, Copy
    <2>3. CASE UNCHANGED disk /\ clock' \in {clock, clock + 1}
      BY <1>1, <2>1, <2>2, <2>3 DEF Times
    <2>4. CASE clock' = clock /\ \E n \in Names \ {"new"}, v \in Versions : Write(n, v)
      <3>1. PICK n \in Names \ {"new"}, v \in Versions : Write(n, v)
        BY <2>4
      <3>2. /\ DOMAIN disk' = DOMAIN disk \union {n} /\ disk'[n].mtime = clock
            /\ \A m \in DOMAIN disk \ {n} : disk'[m] = disk[m]
        BY <3>1 DEF Write, Extended
      <3>3. \A m \in DOMAIN disk' : disk'[m].mtime <= clock'
        BY <2>1, <2>2, <2>4, <3>2 DEF Times
      <3>4. ASSUME NEW b \in backups
            PROVE  b.of \in DOMAIN disk' /\ b.stamp <= clock' /\ b.mtime <= disk'[b.of].mtime
        <4>1. b.of \in DOMAIN disk /\ b.stamp <= clock /\ b.mtime <= disk[b.of].mtime
          BY <2>1 DEF Times
        <4>2. disk[b.of].mtime <= clock
          BY <2>1, <4>1 DEF Times
        <4> QED
          BY <2>2, <2>4, <3>2, <4>1, <4>2
      <3> QED
        BY <1>1, <3>3, <3>4 DEF Times
    <2> QED
      BY <1>2, <2>3, <2>4 DEF FilesGrow
  <1> QED
    BY <1>1, <1>2 DEF BackupInv, BackupOK, Newest, CopiesOf

LEMMA NoCopyIsNone ==
    ASSUME NEW c \in Copy
    PROVE  DOMAIN c = {"of", "stamp", "version", "mtime"}
  BY DEF Copy

LEMMA BackupStep ==
    ASSUME FilesOK, BackupInv, create_backup
    PROVE  BackupInv'
  <1>1. UNCHANGED <<docs, active, disk, edits, clock, turned>>
    BY DEF create_backup, cadVars
  <1>2. CASE drawing_source
    <2>1. copying'.of \in Names /\ DOMAIN copying' = {"of"} /\ UNCHANGED <<backups, reported>>
      BY <1>2 DEF drawing_source, FilesOK
    <2>2. copying' \notin backups'
      BY <2>1, NoCopyIsNone DEF BackupInv, BackupOK
    <2> QED
      BY <1>1, <2>1, <2>2 DEF BackupInv, BackupOK, Times, Newest
  <1>3. CASE CopySource
    <2> DEFINE copy == Copied(copying.of)
    <2>1. /\ backups' = {b \in backups : b.of # copy.of \/ b.stamp # copy.stamp} \union {copy}
          /\ copying' = copy /\ copying.of \in DOMAIN disk /\ UNCHANGED reported
      BY <1>3 DEF CopySource
    <2>2. /\ copy \in Copy /\ copy.of = copying.of /\ copy.stamp = clock
          /\ copy.mtime = disk[copying.of].mtime
      BY <2>1 DEF Copied, Copy, FilesOK, File
    <2> HIDE DEF copy
    <2>3. BackupOK'
      <3>1. backups' \subseteq Copy
        BY <2>1, <2>2 DEF BackupInv, BackupOK
      <3>2. \A b, c \in backups' : b.of = c.of /\ b.stamp = c.stamp => b = c
        BY <2>1 DEF BackupInv, BackupOK
      <3> QED
        BY <2>1, <2>2, <3>1, <3>2 DEF BackupInv, BackupOK, Copy
    <2>4. IsFiniteSet(backups')
      <3>1. IsFiniteSet({b \in backups : b.of # copy.of \/ b.stamp # copy.stamp})
        BY FS_Subset DEF BackupInv
      <3> QED
        BY <2>1, <3>1, FS_AddElement
    <2>5. ASSUME ~turned'
          PROVE  Times' /\ Newest'
      <3>1. Times
        BY <1>1, <2>5 DEF BackupInv
      <3>2. /\ clock \in Nat /\ \A n \in DOMAIN disk : disk[n].mtime \in Nat
            /\ \A b \in backups : b.stamp \in Nat /\ b.mtime \in Nat
        BY DEF FilesOK, File, BackupInv, BackupOK, Copy
      <3>3. Times'
        <4>1. ASSUME NEW b \in backups'
              PROVE  b.of \in DOMAIN disk /\ b.stamp <= clock /\ b.mtime <= disk[b.of].mtime
          BY <2>1, <2>2, <3>1, <3>2 DEF Times
        <4> QED
          BY <1>1, <3>1, <4>1 DEF Times
      <3>4. ASSUME NEW b \in backups', b.of = copy.of
            PROVE  ~Newer(b, copy)
        BY <2>1, <2>2, <3>1, <3>2, <3>4 DEF Times, Newer
      <3> QED
        BY <2>1, <3>3, <3>4 DEF Newest, CopiesOf
    <2> QED
      BY <2>1, <2>3, <2>4, <2>5 DEF BackupInv
  <1>4. CASE Prune \/ CopyFails
    <2>1. /\ backups' \subseteq backups /\ copying' = NoCopy
          /\ reported' \in {reported, copying}
          /\ reported' = copying => reported' = reported \/ copying \in backups
      BY <1>4 DEF Prune, CopyFails, BackupInv
    <2>2. DOMAIN copying' = {"of"} /\ copying'.of = "none" /\ copying' \notin backups'
      BY <2>1, NoCopyIsNone DEF NoCopy, BackupInv, BackupOK
    <2>3. IsFiniteSet(backups')
      BY <2>1, FS_Subset DEF BackupInv
    <2>4. BackupOK'
      BY <2>1, <2>2 DEF BackupInv, BackupOK
    <2>5. ~turned' => Times' /\ Newest'
      BY <1>1, <2>1, <2>2 DEF BackupInv, Times, Newest
    <2> QED
      BY <2>2, <2>3, <2>4, <2>5 DEF BackupInv
  <1> QED
    BY <1>2, <1>3, <1>4 DEF create_backup

LEMMA BackupsStep ==
    ASSUME FilesOK, BackupInv, [Next]_vars
    PROVE  BackupInv'
  <1>1. create_backup \/ UNCHANGED backupVars
    BY DEF Next, vars
  <1> QED
    BY <1>1, BackupStep, BackupOutside, FilesGrowOrTurn

LEMMA BackupStart ==
    ASSUME Init
    PROVE  BackupInv
  <1>1. backups = {} /\ copying = NoCopy /\ reported = NoCopy
    BY DEF Init, BackupInit
  <1>2. \A n \in DOMAIN disk : disk[n].mtime <= clock
    BY DEF Init, FilesInit
  <1> QED
    BY <1>1, <1>2, FS_EmptySet DEF BackupInv, BackupOK, Times, Newest, NoCopy

LEMMA ReportStep ==
    ASSUME BackupInv, Next, reported' # reported
    PROVE  /\ turned \/ reported' \in backups'
           /\ Cardinality({b \in backups' : b.of = reported'.of}) <= Keep
           /\ \A b \in backups : b.of # reported'.of => b \in backups'
  <1>1. create_backup /\ Prune
    BY DEF Next, create_backup, backupVars, drawing_source, CopySource, CopyFails
  <1>2. backups' = backups \ Stale /\ reported' = copying /\ copying \in backups
    BY <1>1 DEF Prune, BackupInv
  <1>3. turned \/ copying \notin Stale
    <2>1. ASSUME ~turned
          PROVE  {c \in candidates : Newer(c, copying)} = {}
      BY <1>2, <2>1 DEF BackupInv, Newest, candidates
    <2>2. ASSUME ~turned
          PROVE  Cardinality({c \in candidates : Newer(c, copying)}) = 0
      BY <2>1, <2>2, FS_EmptySet
    <2> QED
      BY <2>2 DEF Stale
  <1>4. Cardinality({b \in backups' : b.of = reported'.of}) <= Keep
    <2>1. candidates \in SUBSET Copy /\ IsFiniteSet(candidates) /\ Distinct(candidates)
      <3>1. candidates \in SUBSET backups /\ \A b \in candidates : b.of = copying.of
        BY DEF candidates, CopiesOf
      <3>2. IsFiniteSet(candidates)
        BY <3>1, FS_Subset DEF BackupInv
      <3> QED
        BY <3>1, <3>2 DEF BackupInv, BackupOK, Distinct
    <2>2. {b \in backups' : b.of = reported'.of}
              = {b \in candidates : ~(Cardinality({c \in candidates : Newer(c, b)}) >= Keep)}
      BY <1>2 DEF candidates, CopiesOf, Stale
    <2> QED
      BY <2>1, <2>2, FewAreKept
  <1>5. \A b \in backups : b.of # reported'.of => b \in backups'
    BY <1>2 DEF Stale, candidates, CopiesOf
  <1> QED
    BY <1>2, <1>3, <1>4, <1>5

-----------------------------------------------------------------------------
(* The theorems.                                                            *)

IInv == FilesOK /\ RunInv /\ BackupInv /\ Others \subseteq DOMAIN disk

THEOREM AcceptanceInvariant == Spec => []IInv
  <1>1. Init => IInv
    BY RunStart, BackupStart DEF IInv
  <1>2. IInv /\ [Next]_vars => IInv'
    BY RunStep, BackupsStep DEF IInv, FilesStay
  <1> QED
    BY <1>1, <1>2, PTL DEF Spec

\* Whatever the person and the servers do, every document and file has a version
\* and a time, the lock is that of the call at work, and the copies of a drawing
\* have different names.
THEOREM AcceptanceTypeCorrect == Spec => []TypeOK
  <1>1. IInv => TypeOK
    BY RunInvTypes DEF IInv, TypeOK, BackupInv
  <1> QED
    BY <1>1, AcceptanceInvariant, PTL

\* The state file tells what was done, for any number of servers that are killed
\* at any step of any call: nothing is written twice (_write_state before the
\* call of the object model), and a reopened drawing was closed by another
\* process, with the hash on record (guard_independent_reopen).
THEOREM EvidenceHoldsAlways == Spec => []EvidenceHolds
  <1>1. IInv => EvidenceHolds
    BY DEF IInv, RunInv
  <1> QED
    BY <1>1, AcceptanceInvariant, PTL

\* No step of a run or a backup changes, opens or closes a drawing of the person,
\* however many there are and whichever is in front (guard_target).
THEOREM OthersUntouchedHolds == Spec => OthersUntouched
  <1>1. IInv /\ [Next]_vars =>
          [call' # call \/ copying' # copying =>
            \A n \in Others :
                /\ n \in DOMAIN docs \intersect DOMAIN docs' => docs'[n] = docs[n]
                /\ (n \in DOMAIN docs') = (n \in DOMAIN docs)
                /\ disk'[n] = disk[n]]_vars
    BY OthersStep DEF IInv
  <1> QED
    BY <1>1, AcceptanceInvariant, PTL DEF Spec, OthersUntouched

\* A reported backup is there, at most Keep copies of its drawing are left, for
\* every Keep, and the copies of other drawings stay (create_backup).
THEOREM ReportedIsKeptHolds == Spec => ReportedIsKept
  <1>1. IInv /\ [Next]_vars =>
          [reported' # reported =>
            /\ turned \/ reported' \in backups'
            /\ Cardinality({b \in backups' : b.of = reported'.of}) <= Keep
            /\ \A b \in backups : b.of # reported'.of => b \in backups']_backupVars
    BY ReportStep DEF IInv, vars, backupVars
  <1> QED
    BY <1>1, AcceptanceInvariant, PTL DEF Spec, ReportedIsKept

=============================================================================

# Verification of multiCAD-mcp

multiCAD-mcp lets a language model drive AutoCAD through MCP tools.  This
directory holds TLA+ models of the parts of it that carry the program's own
promises: that a drawing plan is executed only as it was validated, that every
object the program creates can be accounted for, committed and withdrawn, and
that the web dashboard shares one AutoCAD with the tools without losing a
request; and the parts around them: the legacy batch tools, the registry of
adapters, the isolated acceptance run, backups, and the cache of analysed source
drawings.  The models are checked with TLC on small instances; the most important
safety properties are proved with TLAPS for all instances.

Paths below are relative to the repository; the implementation is `src/src/`.

## The system

| Component | State it keeps | Operations | What is hard |
|---|---|---|---|
| Task workflow (`mcp_tools/tools/validation.py`, `tools/tasks.py`, `cad_memory/executor.py`, `task_manager.py`) | none of its own: it moves drawing and store together | execute, verify, render audit, commit, revert | any COM call or transaction may fail; the server may die; a person edits the drawing meanwhile; undo by compensation |
| Task store (`cad_memory/database.py`) | executions, tasks, task entities, audits in SQLite | one transaction per method, most followed by a read-back | the read-back fails after the commit |
| Provenance (`cad_memory/provenance.py`) | XData of each object | read, write | proves ownership before anything is deleted |
| Receipts (`cad_memory/receipts.py`) | in-memory dictionary | issue, consume, purge | replay, expiry at the tick, restart, changes between check and use |
| Session (`adapters/mixins/connection_mixin.py`, `utility_mixin.py`) | the adapter's document | connect, disconnect, get document | the cached document is not the active one; reconnects change it |
| Adapter registry (`adapter_manager.py`, `autocad_adapter.py`) | the one active adapter; per adapter and thread an application, a document and whether COM was initialised | get, detect, shut down | applications quit between two attempts; CoInitialize and CoUninitialize must balance on each thread |
| Dashboard worker (`web/cad_worker.py`) | bounded queue, futures, one thread with a COM apartment | submit, cancel, execute, shutdown | four parties settle one future; timeouts race the start of a command; startup failure, signals |
| HTTP API (`web/api.py`) | snapshot cache, worker, log buffer | handlers, lifespan, publication of snapshots | results are published after the gate is released, in any order or never; the client hangs up |
| Session tool (`mcp_tools/tools/session.py`) | none: it moves adapter and snapshot cache together | connect, disconnect, check_running | publishes from inside the gate while results of the worker are still on their way |
| CAD gate (`adapters/com_gate.py`, `mcp_tools/decorators.py`) | one re-entrant lock, a revision counter | enter with timeout, leave | held over COM calls that may never return |
| Plan validator and verifier (`cad_memory/validator.py`, `verifier.py`) | none | pure functions of plan, layers and objects | validator, executor, drawing methods and verifier each have a table of the fields of every kind |
| Legacy tools (`mcp_tools/tools/drawing.py`, `entities.py`, `layers.py`, `blocks.py`, `files.py`, `session.py`, `strict_mode.py`) and the mixins of the adapter | nothing between calls but the adapter's document | a batch of specs, each with a result | a result may claim what did not happen, or hide what did; exceptions swallowed half way; strict mode asked tool by tool |
| Backup (`cad_ux/backup.py`) | backup files | copy, prune | pruning by modification time |
| Acceptance run (`cad_memory/acceptance.py`) | a state file and a lock file beside a test drawing | prepare, save and close, reopen, reclose, inspect | two server processes, killed anywhere; which document is in front at each call |
| Vision pipeline (`cad_vision/`) | cache of analyses on disk | analyse, load, save | publication while others read; the source replaced half way; doubtful readings merged |
| Shorthand, export, UI, start-up | nothing | pure functions, single COM calls | - |

Tools and dashboard commands run under one process-wide CAD gate, so at most one
of them talks to AutoCAD at a time.  The gate does not stop the person at the
AutoCAD window, who switches, edits and closes drawings at any moment, and it does
not protect what is read before it is taken or used after it is released.

## What makes the components correct

- Workflow: no failure leaves an object the store does not know; layers, XData and
  rows never disagree once a call is over; a status in the store is borne out by
  the drawing; a commit is covered by an audit that is still true; nothing but the
  task's own objects is erased or moved to another layer.
- Receipts: one execution per receipt, within its lifetime, in the process that
  issued it, for the plan, drawing and unit that were validated.
- Worker: every ticket is settled exactly once, an error that says "not executed"
  is true, the gate is released on every path, every handler answers.
- Plans: what is accepted can be drawn, what was drawn as planned passes
  verification, and what was changed afterwards does not.
- Registry: each adapter releases exactly the COM apartments it initialised, and
  what `get_adapter` answers is connected on the thread that asked.
- Legacy tools: success means that it happened; what was made is named in a result;
  strict mode changes no drawing.
- Acceptance run: the state file tells what was done, whoever was killed when;
  nothing is saved twice; the person's drawings are left alone.
- Backup: the copy that is reported is there, and no others are lost.
- Analyses: an answer from the cache is what a new analysis would give, and what is
  doubtful stays marked through every merge.
- Snapshot cache: whatever the order of publication, the dashboard shows the newest
  published observation, and a confirmed disconnection is not undone by an older one.

## Modules

`Drawing` is what AutoCAD contributes to the workflow: objects with a layer, an
XData tag and a shape (everything else the verifier compares), and the person's
edits.  `TaskStore` EXTENDS it with the SQLite tables; each operator is one
transaction of `database.py` with the name of its method.  `TaskTracking` EXTENDS
both with the control of the five tools: `pc` is the place in the active call, `at`
the loop index, `call` the arguments and locals.  Each COM write and each
transaction is a step, and each has a step in which it raises: `DrawFails` leads
to the executor's rollback, `Except` to the except clause of `cad_execute_plan`,
`Fails` to `_restore_entities`.  `Crash` ends a call anywhere.  The variable
`torn` holds the tasks for which the code itself has reported that it could not
undo something, or whose call was killed: for these the properties about agreement
promise nothing, and the code has no recovery step.  The identity check of
commit and revert (`_assert_document_identity`) is left out because the model has
one drawing; `Session` and `Receipts` have several.

`AtomicTasks` is what the workflow promises: an execution, a commit and a revert change
the status of a task and all its objects in one step, or nothing.  `TaskTracking`
implements it with `status` mapped to the status in the store and `items` to the XData
of the created objects as they were when a commit or a revert in progress began; an
execution in progress shows none.  A task in `torn` is mapped to "lost".  Layers are not
in it, for a person may move any object; `LayersAgree` is about these.

`Session` is the adapter's hold on AutoCAD: which document is open, which is in
front, and which one the adapter keeps.  `Receipts` EXTENDS it with the receipt
store and the two tools that use it.  `clock` is `time.monotonic()`; the read of
the clock, the critical section that uses it and every read of the document are
separate steps.

`CadWorker` is the dashboard's worker: `future`, `cancel_requested` and `running`
are the three fields of a ticket, `thread` the place of the worker thread in `_run`
and `_execute_request`, `caller` the place of the HTTP handler in `_await_ticket`,
`gate` the holder of the CAD gate.  A critical section of `_state_lock` is one
step, and so is one operation on a Future, an Event, the queue or the gate.
`Ticket` is the promise: a ticket is submitted, refused or started, entered at most
once and while it runs, and settled once.  `CadWorker` implements it with the state
of a ticket mapped to what its Future holds.

`PlanRules` is the validator: `Accepted` says when a plan passes, and `Executable`
what the executor and the drawing methods need in order not to raise.  `PlanObjects`
EXTENDS it with the objects the drawing methods make and with the verifier: what it
reads (`Observed`), what it expects (`Checks`) and how the two are compared.
`PlanCheck` takes one entity from the validator through drawing, a person's edit
and a property that cannot be read to the verdict.  TaskTracking abstracts all
this to a `shape`; here it is the subject, and failures of COM calls are not.
Coordinates are integers far enough apart for the tolerance, lengths are squares;
constraints are either satisfied or not, issue codes and messages are left out.

`DashboardCache` is the snapshot the dashboard shows.  A job is an HTTP request that
the worker executes (`refresh`, `switch_drawing`, or a command that publishes no
snapshot) or an operation of the session tool; `pc` is its way from the route
through the gate (`name`, `layers`: the COM reads of `collect_dashboard_snapshot`,
between which a person may switch drawings) to `replace`.  `revision` is
`_CAD_REVISION`; `entries`, `at` and the field `from` number the entries of the gate
and are what the properties mean by "newer", independently of the revisions the
code compares.  `NewestView` is the promise: observations published in any order,
the newest one shown.  `DashboardCache` implements it with `published` mapped to the
entries of the jobs that called `replace` and `shown` to the one in the cache.

`AdapterRegistry` is the registry with the connections of its adapters.  `op` is the
call that holds the registry's lock and where it is; `local` is the
`threading.local` of each adapter (`app`, `doc`, `com`), `apartment` the number of
CoInitialize calls outstanding on a thread.  One attempt to connect is a step;
what `connect` initialised before it failed is released in the same step.  A
thread in `Foreign` was initialised in another mode by somebody else, so that
CoInitialize raises there, which the code swallows.

`ManageTools` composes the legacy tools.  `Requests` is what stands in front of
them, the pydantic models of `core/models.py`, as predicates on specs.
`CadDocument` is a drawing as they see it (layers, objects, block definitions, what
is picked) and the three ways a method can go: `Attempt`, through stages each of
which may raise and stay done; `ForSome`, a loop that goes on after the handles
that fail; `Unless`, a refusal before anything is touched.  `LayerActions`,
`DrawActions`, `EntityActions` and `BlockActions` give for each action of a tool,
under the name of the adapter's method, the set of its outcomes: the drawing
afterwards, the success of the result and the handles it names.  `ManageTools` adds
what is beyond one drawing: which drawing a spec gets to (the cached one, or the one
in front for the methods that take it), files, sessions, undo, strict mode, and
the person.  Geometry is a bit, names are members of small sets.

`DrawingFiles` is documents and DWG files, with versions for contents and a clock for
modification times.  `Backup` and `Acceptance` EXTEND it; `AcceptanceRun` lets
both work beside the person.  In `Acceptance` each COM call, each write of the state
file and each hash is a step of `call`, and `run` is the state file; `written` counts
what the run saved and is what the property compares the phase with.

`DimensionEvidence` is the way of a reading: the passes of OCR joined where they
overlap, conflicts marked, dimensions made of the readings and merged with those of
the PDF's text.  `AnalysisCache` EXTENDS it with the servers: hash the source, make
the key, look for the file, read each part of the source, hash again, write a
temporary file, publish it.  `contents` says what each version of the source holds.

Each component's `MC` module gives the finite values of its constants.  A variant
named `<definition>_<slip>` beside a definition is what a plausible slip in the
code would make of it; each property is violated when one of them takes the
place of the original, so no property holds vacuously.

## Runs

| Run | Instance | Shows |
|---|---|---|
| TrackingFaults | one task; a plan of two created objects around a layout-only dimension of the user's, one of the created ones approximate; erasing user | `TypeOK`, `RecordsAgree`, `LayersAgree`, `ExecutedIsComplete`, `ApproximateStaysUncertain`, `NoOrphan`, `ForeignUntouched` under every failure of a COM call or transaction and a kill at any step; `TasksAtomic`: the refinement of `AtomicTasks` (1.5 million states) |
| TrackingTwoTasks | two tasks of one object | `StatusMatchesDrawing`: the shared isolation layer is restored correctly and every status is true (1.5 million) |
| TrackingAudit | one task with a source audit; a user who reshapes, moves and erases objects, edits the source and deletes the comparison | `CommitIsAudited` (7.5 million) |
| Receipts | two receipts, plans, drawings, identities and units; all the acts of a person between calls; one restart | `OneTime`, `AcceptedInTime`, `OnlyRecentHeld`, `DrawnAsValidated` (8.6 million) |
| WorkerTickets | three requests, a queue of one, two generations of the worker | `NoTicketLost`, `RefusedNeverEntered`, `GateOwned`, and `TicketKept`: the refinement of `Ticket` (7.5 million) |
| WorkerLiveness | two requests, a queue of one | `EveryHandlerAnswers`, `EveryTicketSettles`, `StopEndsThread` |
| PlanCheck | some 15 000 plans of one entity, in two drawings | `AcceptedIsDrawn`: what the validator accepts the executor can draw; `FaithfulVerifies`: what was drawn as planned passes, also when moved within the tolerance; `DamageIsFound`: every other change is found, but for those listed in `Unchecked`, among them a change of what was not as planned, which may be one for the better (3.2 million) |
| DashboardCache | three jobs of any kind, two drawings | `ShowsNewest`: the refinement of `NewestView` (6.5 million) |
| ManageTools | two drawings of up to three objects, three specs of any of six tools in any batches, one edit by the person | `SuccessIsTrue`, `UntoldOnlyWhereDoubtful`, `StrictKeepsDrawings` (1.1 million) |
| AdapterRegistry | three adapters of two kinds, of which one can be started; two threads, one of them foreign | `ApartmentsMatch`, `AnswerIsConnected` (0.3 million) |
| AcceptanceRun | two process identifiers, one drawing of the person, one edit, one tick of the clock, four events | `EvidenceHolds`, `OthersUntouched`, `ReportedIsKept` (2.8 million) |
| AnalysisCache | two servers, four requests, a source that is replaced twice and packages upgraded once; some 1400 scanned pages of up to three readings | `HitIsFresh`, `ReviewSurvives` (1.2 million) |

Why these bounds.  The loops of execute, commit and revert treat positions alike
and carry no state from one to the next but the lists of created or changed
objects, so two created objects around a foreign one distinguish "before", "at"
and "after" the failing one.  Two tasks are enough for one task's revert to
disturb the layer another one relies on.  A receipt interacts with another one
only through the purge, so two suffice, with a lifetime of one tick and a clock
of two values for "before", "at" and "after" the expiry.  Three requests and a
queue of one give one in the thread, one in the queue and one refused.  Three
jobs give a publication that is late with regard to a newer one, which is itself
older than the job in the gate.
The plans of PlanCheck vary a sound plan of each kind in its coordinates (two and
three dimensions, coincident points, no point at all), its dimensions (missing, zero,
not finite, angles at both ends of their range) or what is said of it; the rules
look at these separately.  An edit moves a value by every amount up to the
tolerance plus one.
Two objects, one that the person drew and one that a tool made, distinguish what a
tool may touch; three specs give an action, one that relies on it and one that
undoes it.  Three adapters give one in use, one that replaces it and one that fails
on the way.  Two process identifiers are used again, as the system does, so that a
lock file may name a server that is somebody else by now; four events are a whole
run with a reclose.  Three readings give a join, a conflict with what was joined and
a third in between, over the three boxes of which one overlaps two that do not
overlap.  The state constraints `MCApart` and `MCParts` cut behaviours that mix parts
which share no variable that matters: a backup reads documents and files and the
run's lock does not guard it, but it writes neither, so that a run and backups in
one behaviour show nothing that each alone with the person does not; and the
contents of the pages, which servers share nothing about but the file, are varied
with one server at work.
TrackingFaults, TrackingTwoTasks and TrackingAudit stop when every task is
reverted or torn, PlanCheck with the verdict, and ManageTools, AcceptanceRun and
AnalysisCache when the specs, edits, events or replacements of their bounds are used
up, so deadlock is not checked there; it is checked in the others.

Fairness.  `WorkerLiveness` assumes `HandlersRun`: deadlines pass and the event
loop runs the handlers, which is what asyncio does as long as nothing blocks the
loop, and no handler does.  `EveryHandlerAnswers` needs no more: it holds when a
COM call never returns.  The other two properties are stated under `ThreadsRun` as
well: threads are scheduled, COM calls return, tools release the gate.  Nothing
fair is assumed of clients, users or shutdown.

### Where code and documentation differ

TLC finds each of these violated, in the instance of the named configuration; they
are stated in the modules beside the properties that hold.  The twelve runs above
are all expected to pass; these are checked by hand, with
`tlc -config <configuration> <module>` for the ones that have a configuration of their
own and by adding the property to the one that is named for the others.

| Property, configuration | The code | The statement |
|---|---|---|
| `RevertNeedsPermission`, TrackingRevertPermission | `cad_verify_execution` (validation.py:264) sets any task to verified or failed; commit, verify, revert then needs no `allow_committed` | docs/CAD_TASK_TRACKING.md:105 |
| `UncertainNeverFormal`, TrackingUncertain | only `approximate_reference` rows are kept from formal layers (task_manager.py:680); a caller's mapping promotes other `AI_UNCERTAIN` objects | docs/CAD_TASK_TRACKING.md:57 |
| `FailedCommitStaysVerified`, as the PROPERTY in TrackingRevertPermission.cfg with `ReadBackFails = TRUE` | the read-back of `update_task_entities_and_status` (database.py:674) may fail after its transaction: the objects are put back, the status stays committed | tests/unit/test_task_tracking.py:937-948 |
| `KnownTimeoutNeverEntered`, as an INVARIANT in WorkerTickets.cfg | the deadline passes between the worker's last check and `running.set()` (cad_worker.py:666): a 504 without `outcome_unknown` for a command that runs | docs/06-WEB-DASHBOARD.md:169 |
| `ReplacedHoldsNothing`, as an INVARIANT in AdapterRegistry.cfg | `auto_detect_cad` replaces the adapter without releasing it, and `disconnect` releases the calling thread only | adapters/mixins/connection_mixin.py:64 |
| `ReportedIsThere`, as a PROPERTY in AcceptanceRun.cfg | a copy carries the time of its source (backup.py:53), so the backup of an older file is pruned by the call that made and reports it | cad_ux/backup.py:42 |
| `EveryHitIsFresh`, as an INVARIANT in AnalysisCache.cfg | the source is hashed once (analyzer.py:374) and opened again for every part: a file replaced meanwhile is cached under the hash of the former | docs/CAD_VISION_PIPELINE.md:24 |
| `ConflictsMarked`, as an INVARIANT in AnalysisCache.cfg | conflicts are looked for after equal readings were joined into the box of the first (ocr_rotation.py:119) | docs/CAD_OCR.md:54 |

Seen while modelling and not made a run of its own.  With `MidCall = TRUE` in
Receipts.cfg TLC finds `DrawnAsValidated` violated: after the receipt is consumed
the executor validates again without the unit (executor.py:75) and obtains the
document for every object (docs/CAD_SAFETY_HARDENING.md:31 says execution fails
closed).  A line with two elevations is accepted and drawn, and always fails
verification (verifier.py:403 measures the expected length in the plane); a
background fill that cannot be read passes as off (verifier.py:243, against
docs/CAD_MEMORY_VALIDATION.md:240); texts are compared without regard to case; the
rotation of a text, and the closure of a polyline whose plan does not mention it,
are not verified.  The validator compares neither the stated width, height and
measurement with the points nor the elevations of a polyline's vertices: such plans
are accepted and fail verification.  The audit hashes every row of
a task and the commit the owned rows only (task_manager.py:659-671), so a task with
layout-only positions is always "stale for changed CAD entities"; and "Active
drawing changed after validation" compares the adapter's cached document, which
need not be the drawing in front.  Of the cache: when the layers cannot be read, a
refresh shows those of a snapshot taken before it was queued (cad_worker.py:199-201),
which after a switch are the layers of another drawing; and the revision taken when
a command fails ("Invalidate stale snapshots before releasing the CAD gate",
cad_worker.py:673) invalidates nothing unless the failure is a disconnection, for
only published revisions are compared.

Of the legacy tools: `create_polar_array` with `rotate_items=False` turns the copies
back about the centre of the array (manipulation_mixin.py:412-414), which puts them
where they came from; `close` reports "Switched to" the first of the open drawings
(files.py:99) and `save` a path that `save_drawing` does not write (files.py:54,
file_mixin.py:80); an exception in `export_view` leaves FILEDIA at 0
(view_mixin.py:178-190), so `SuccessIsTrue` speaks of successful exports only; the
colour "1" makes a layer white (utility_mixin.py:334-337); a failed `create` of a
block leaves an empty definition under its name (block_mixin.py:102-138), and the
next attempt is refused; undo, paste and block definitions go to the drawing in front,
everything else to the cached one.  Of backups and the run: a `[` in the name of a
drawing is a pattern for `glob` (backup.py:55), so its copies are never pruned; what
is edited in the test drawing between the last check and `Close(False)` is
discarded.  Of analyses: partial geometry of a page after a passing error is cached,
although failures of OCR are not; a server that loaded the old packages caches under
the new fingerprint after an upgrade; killed servers leave temporary files; the
merged dimensions are cut at 200 without a flag.

## Proofs

`TaskTrackingProofs` proves `Spec => []TypeOK` for the workflow, one lemma per
group of actions, and every other property that the three runs of the workflow check.  None of them is inductive, for they say nothing of the
call in progress; what each proof adds is what a call in progress may count on:

- `NoOrphan`, from `OrphanInv`: an object without a row belongs to a call whose
  remaining steps record or delete it (`InFlight` says, for every `pc`, which
  positions these are).
- `RecordsAgree`, from `AgreeInv`: an object whose XData differs from its row belongs
  to a commit or revert that has it among the changed ones, and the call remembers
  the XData of the row.
- `ForeignUntouched`, from `LoopInv`: the loops that write tags and layers are at
  positions the task has created, and a dimension of the person's has no tag, so
  that no rollback takes it for one of the task's objects.
- `LayersAgree`, from `LayerInv`: as `AgreeInv` for layers, with the layer the call
  remembers for each object it has moved.
- `ApproximateStaysUncertain`, from `ApproximateInv`: the approximate objects that the
  loop of a commit has passed are on `AI_UNCERTAIN`, and the mapping takes the others
  there from the layer they are on.
- `CommitIsAudited`, from `AuditInv`: from the checks of a commit to its transaction the
  recorded audit is a passing one, and the shapes in the call's snapshot, with which
  the last step compares the drawing, are those the audit saw.
- `ExecutedIsComplete` and `StatusMatchesDrawing`, from `StatusInv`: which status a task
  keeps while a call works on it, what the loops have passed and written when a new
  one is about to be stored, and that the isolation layer is shown again only if it
  was not hidden for another task.
- `TasksAtomic`, that the workflow implements `AtomicTasks`, from these and `AtomicInv`: an
  execution that has failed as far as its last step has no object left (`ClearedOut`
  says, for every `pc`, which positions have none), one that has succeeded has tagged
  them all (`FinishedTags`), and what a commit or a revert has not tagged, or has
  restored, is as its snapshot has it (`SnapshotHolds`).  `ExecutionShows`,
  `PresentingShows`, `LostShows`, `IdleShows` and `UserShows` take a step of each kind to a
  step of `AtomicTasks` or to none; the step that ends a call is where it takes effect.

`RecordsAgree`, `LayersAgree`, `ExecutedIsComplete`, `StatusMatchesDrawing` and `TasksAtomic` assume
`ReadBackFails = FALSE`: a store method that raises after its transaction makes the
caller undo what the store keeps, and `FailedCommitStaysVerified` above shows what comes
of it; TLC finds `TasksAtomic` violated there too.
`LayersAgree` and `ApproximateStaysUncertain` are properties of drawings in which the
person moves no object to another layer, as their statements say.

`ReceiptsProofs` proves `TypeOK`, `OneTime` and `AcceptedInTime` (from `StoreInv`: a
receipt that is held and not consumed has not been accepted, and holds what was
validated), `OnlyRecentHeld` (from `RecentInv`: nothing in the dictionary was issued
after the time that the call about to issue has read, so what its purge leaves
expires later than that, and the new receipt expires after everything older was
issued) and, assuming the drawings do not change during a call (`MidCall = FALSE`),
`DrawnAsValidated` (from `DrawInv`: what the call has read is still so, and after
`consume` it is what the receipt is bound to).

`CadWorkerProofs` proves the safety of the worker for any number of requests, any
size of the queue and any number of generations, and that the worker implements
`Ticket`.  The inductive `IInv` has, beside the properties themselves: a request is
submitted once and is in the queue once (`Fresh`, `QueueOnce`); what waits has not been
started (`WaitingUntouched`); how far the ticket that the thread has got is, at each
place of the thread (`CurrentAt`), and that only this one runs (`OnlyCurrentRuns`); and a
closed worker takes no requests, its drains ending before it is replaced (`Closing`).  `TypeOK` is not inductive without
`CancelledAnswered`: a handler that still waits must not find its Future cancelled.

`DashboardCacheProofs` proves `Spec => []TypeOK` and `Spec => ShowsNewest`, that is, that
the cache implements `NewestView` for any number of jobs.  The code compares
revisions, the promise is about entries of the gate; `IInv` ties the two: entries
differ, the job inside the gate has the last one, and among the results that are
published or about to be, revisions are ordered as entries are (`SameOrder`).  It is
preserved because a revision is taken before the gate is left (`FinishStep`), and
with it `replace` keeps the newer of two observations (`PublishStep`).

`PlanningProofs` is about what comes before the drawing.  It proves
`PlanSpec => []AcceptedIsDrawn` for all plans, by comparing the tables of validator and
executor kind by kind (`DimensionsSuffice`, `AcceptedExecutes`); `DamageIsFound` and
`FaithfulVerifies` of the verifier, see below; and `TypeOK`, `HitIsFresh` and
`ReviewSurvives` of AnalysisCache for any number of servers, requests and versions,
whatever the sources hold.
`CallsRight` says what a call has found so far: the vector evidence is that of the
hashed bytes, and the readings are those of the selected pages, as long as all that was
read is what was hashed; a result, in a call or under a key, is for the bytes and
options of that call or key, and is the whole analysis if `_reusable` admits it
(`MergeRight`: the code counts coverage by what was required and how OCR ended, the
promise by the pages that were selected).  Of `AnalysisAssumption` two parts are about the
data: only a page that is there wants OCR, for `extract_vector_pdf` asks for OCR while it
goes through the pages (pdf.py:142-231), and a box is two edges or none (ocr.py:189-215).

`HitIsFresh` does not open the joining of readings; `ReviewSurvives` is about nothing
else, and rests on what three folds compute for sequences of any length.  A fold is the
table, chosen in the community modules, of its result for every set of positions.
`TableExists` shows by induction that there is one (`InductionOnNat`: the numbers that a
set lacks would have a least one, by the well-foundedness of `<`), `TableStages` that its
entries for the first positions are the stages one expects, and `InductionUpTo` carries
an invariant from stage to stage:

- `TextsFolded`: each text is in an item of its value and page, of which it is an
  observed pass, at the box or at the place of the box.  What an item holds it keeps,
  since the passes only grow and the box stays.
- `DimensionsFolded`: each dimension is held by one that is kept, with its evidence and
  its mark, and no evidence comes from elsewhere (`Holding`).  A dimension joins the
  closest match, so there must be one: `BestIsThere` shows that shares of boxes, which are
  compared by multiplying across, are ordered (`ShareOrder`); without that the
  dimension would join none and be lost.
- `KeptFacts`: the elements of a set are all kept and no others.

`MergeReviewed` puts them together: evidence that no mark covers comes from an item that an
upright pass gave and no other contradicts, and since the evidence of every other
dimension comes from an item too, nothing kept contradicts it.  `CallsRight` has this of
every result, in a call or under a key, whatever became of OCR.

The verifier is right in two directions, for all plans, linetypes and
tolerances.  It takes that coordinates and numbers of a plan are typed
(`PlanAssumption`), that a dimension of the user's has the properties of its kind
(`DimensionAssumption`), and of `Tolerance` only that it is a positive whole number.  What the
validator establishes is `Ready`; the rows of each kind of entity are typed and computed
in a lemma of their own (`LineFacts` to `DimensionFacts`, `ChecksTyped`).

- `DamageIsFound`, from `DamageInv`: every property a person may change has a row or is
  listed in `Unchecked` (`ShapeCovered`), and a change that is not listed there leaves a
  row that fails (`MovedFails`, `ReplacedFails`), be it the row of the property or, for
  the radius of a circle, that of the diameter.
- `FaithfulVerifies`, from `FaithfulInv`: as long as the damage is none or slight, the
  object is what the executor made of the plan (`Original`) or differs from that by one
  move within the tolerance (`Nearly`).  For the rows of properties that were drawn that is all
  (`StoredRow`, `NearlyPasses`).  The rows of computed properties need that a length, a
  measurement or an extent changes by no more than the point that was moved:
  `RootsOfMoved` is the triangle inequality for distances of which only the squares are
  integers, from the identity of Cauchy (`CauchyIdentity`), and `ExtentOfMoved` is the same
  for the extent of a coordinate.

The attempts showed what the runs had not.  A `CASE` of the expected rows had two arms
that were both true of some plans, of which TLC takes the first and TLA+ any; the
linetypes of a hidden layer were not among what a coherent plan states; and from a
tolerance of 180 on, which `models.py` does not forbid (models.py:65), no change of an
angle is found, since angles differ by at most 180 degrees.

`AdapterRegistryProofs` proves `ApartmentsMatch` and `AnswerIsConnected` for any number of
adapters, threads and kinds of CAD.  A step changes at most what one adapter holds on
one thread, so the set of adapters that hold an apartment there loses or gains one
element (`Released`, `Acquired`).  For the answers `CallInv` says what a call in
progress may count on: the adapter that is registered is older than the call until
one of its own connects, and those it has made and not registered hold nothing.

`ManageToolsProofs` proves all that ManageTools checks of the legacy tools, for all specs,
batches and drawings.  `StrictKeepsDrawings`: strict mode lets through only actions whose
outcomes leave the drawing as it is, or add or colour a preview layer.  `StrictInv` keeps
`draw_entities`, which is refused as a whole before its first spec, from being at
work, and the numbers of drawings fresh.  `UntoldOnlyWhereDoubtful`: `Adds(d, e, hs)` says
that from `d` to `e` at most the objects of `hs` came from the server; a lemma for each
tool gives it for every outcome, and `NamedInv` says the same of what a drawing holds
and of what an undo would bring back, without which undo would not keep it.
`SuccessIsTrue`: every outcome of a tool that carries a label of success satisfies the
claim made for it, a lemma for each kind of claim (`LayerClaimHolds`, `EntityClaimHolds`,
`BlockClaimHolds`); the drawing in front is always an open one, or none.  It holds because
an outcome is computed from the spec that is worked off, and does not ask that specs be
of any type.  `TypeOK` says more than types: every object, and the current layer, is on a
layer that exists, through every tool, undo, redo and edit of the person.  An undo swaps a
drawing with an earlier one, so `TypesInv` adds that this is well formed too and that no
handle it holds is free again in the later one (`Follows`, which a lemma for each tool
gives of every outcome).  It holds for specs of any type because AutoCAD refuses names
that are illegal or taken, which the code hands on unchecked and the model therefore has
refused by the object model.

`AcceptanceProofs` proves all that AcceptanceRun checks, for any number of servers, of
drawings of the person and of copies to keep.  `EvidenceHolds` says nothing of a call at
work; `RunInv` adds what the call knows at each of its steps: which phase is on file,
how often the target has been written, that the lock is its own, and, from the check of
`guard_independent_reopen` on, that the last close was another process's (`Backed`), which
a kill or a failing call does not disturb, since the phase is on file before the call of
the object model.  `OthersUntouched` needs only that the files of the person stay.
`ReportedIsKept` rests on `BackupInv`: unless an older file or the clock was put back, no
copy is newer than its file and no file newer than the clock, so the copy just made is
the newest; and on `FewAreKept`: of a finite set of copies at most `Keep` have fewer than
`Keep` newer ones, since all of these but the oldest are newer than the oldest.

The proofs assume of the constants only the named assumptions of the modules that
declare them, which TLC evaluates in every run.

Only model-checked: the three properties of WorkerLiveness, since liveness is out of the
prover's reach.

## Not modelled

- `core/cad_interface.py` declares abstract methods without bodies; what they do is
  in the mixins.  `core/config.py`, `core/exceptions.py`, `cad_ux/profiles.py`: constants and
  defaults.
- `adapters/mixins/export_mixin.py`, `mcp_tools/tools/export.py`: reading of
  properties into spreadsheets; no drawing, file of ours or status changes.
- `cad_vision/audit_renderer.py`, `image.py`, `vector_geometry.py`, and the parsing of
  recognised text: geometry on pixels and floating-point numbers, without state.  The
  audit's picture is an opaque file with a hash in `TaskTracking`.
- `mcp_tools/shorthand.py`: a parser of text; the models begin with the specs it
  makes.
- Search, experiences and rules of the memory database: queries over tables that
  nothing else reads.
- Geometry in the manipulation methods (arrays, mirrors, offsets) beyond "the shape
  changed"; the named selection sets that `select` leaves in the drawing.
- Start-up, static routes, log buffer, the user interface.

PROJECT.json has the list by component.

## What is left open

- The constraints of the validator are satisfied or not, and the shorthand is parsed; as
  operators both could be checked against reference definitions over bounded inputs.
- Nothing collects what a killed call leaves behind.  If the program gets a recovery step,
  `Crash` no longer loses a task, and `AtomicTasks` is what it has to restore.

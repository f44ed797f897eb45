---------------------------- MODULE TaskTracking ----------------------------
(***************************************************************************)
(* The guarded task workflow: cad_execute_plan, cad_verify_execution,      *)
(* cad_render_task_audit, cad_commit_preview_task, cad_revert_ai_task      *)
(* (mcp_tools/tools/validation.py, cad_memory/executor.py and              *)
(* cad_memory/task_manager.py) over the drawing and the task store.        *)
(*                                                                         *)
(* Tools are serialised by the process-wide CAD gate, so one call is       *)
(* active at a time; its COM calls and its database transactions are       *)
(* separate steps, each of which may raise.  A person edits the drawing    *)
(* and the files, and the server may be killed, between any two steps.     *)
(* Reads of one handler with no write between them are one step.           *)
(***************************************************************************)
EXTENDS TaskStore

CONSTANTS
    NoTask,          \* "no call is active"
    AuditRequired,   \* the tasks of which _source_audit_required holds
    Uncertain,       \* the positions with unresolved uncertain_items
    Approximate,     \* the positions whose dimension_source is approximate_reference
    LayerMappings,   \* the layer_mapping arguments a caller may pass
    ReadBackFails    \* may the read that ends a store method fail?

LayerMapping == UNION {[S -> Layer] : S \in SUBSET Layer}

\* PlanValidator rejects approximate or uncertain geometry on another layer
\* than AI_UNCERTAIN, so no such plan reaches the executor.
ASSUME TaskAssumption ==
    /\ NoTask \notin Task
    /\ AuditRequired \subseteq Task
    /\ Uncertain \subseteq Position
    /\ Approximate \subseteq Position
    /\ \A i \in Uncertain \cup Approximate : PlanLayer[i] = "AI_UNCERTAIN"
    /\ LayerMappings \subseteq LayerMapping
    /\ ReadBackFails \in BOOLEAN

DEFAULT_FORMAL_LAYER_MAP ==
    [AI_PREVIEW_OUTLINE |-> "OUTLINE", AI_UNCERTAIN |-> "AI_UNCERTAIN"]

\* {**DEFAULT_FORMAL_LAYER_MAP, **layer_mapping}
Merged(layer_mapping) ==
    [layer \in DOMAIN DEFAULT_FORMAL_LAYER_MAP \cup DOMAIN layer_mapping |->
        IF layer \in DOMAIN layer_mapping THEN layer_mapping[layer]
        ELSE DEFAULT_FORMAL_LAYER_MAP[layer]]

VARIABLES
    pc,           \* where the active call is
    at,           \* the plan position its loop is at
    call,         \* its arguments and locals
    sourceFile,   \* the source image: as it was prepared, or edited since
    artifact,     \* the tasks whose audited comparison file exists
    torn          \* the tasks one of whose calls was killed half way, lost
                  \* AutoCAD while undoing, or reported a handle it could
                  \* not undo

fileVars == <<sourceFile, artifact>>
callVars == <<pc, at, call>>
vars == <<entity, revertLayerOn, taskStatus, execution, entityRow, audit,
          pc, at, call, sourceFile, artifact, torn>>

Pc == {"idle",
       "create", "revalidate", "draw", "finalize", "rollback",
       "result", "rows", "status", "undo", "exceptResult", "exceptStatus",
       "commitLayer", "commitTag", "commitStore",
       "revertLayer", "revertTag", "revertHide", "revertStore", "restore"}

Call == [task       : Task \cup {NoTask},
         success    : BOOLEAN,               \* result["success"]
         allow      : BOOLEAN,               \* allow_committed
         reverting  : BOOLEAN,
         mapping    : LayerMapping,
         snapshot   : [Position -> Object],  \* _snapshot and the loaded metadata
         source     : Layer \cup {NoLayer},  \* source_layer of the revert loop
         layerWasOn : BOOLEAN]               \* previous_layer_on
NoSnapshot == [i \in Position |-> Absent]
NoCall == [task |-> NoTask, success |-> FALSE, allow |-> FALSE, reverting |-> FALSE,
           mapping |-> DEFAULT_FORMAL_LAYER_MAP, snapshot |-> NoSnapshot,
           source |-> NoLayer, layerWasOn |-> TRUE]

TypeOK ==
    /\ DrawingTypeOK
    /\ StoreTypeOK
    /\ pc \in Pc
    /\ at \in 0 .. PlanLength
    /\ call \in Call
    /\ (pc = "idle") <=> (call.task = NoTask)
    /\ sourceFile \in {"prepared", "edited"}
    /\ artifact \subseteq Task
    /\ torn \subseteq Task

Init ==
    /\ DrawingInit
    /\ StoreInit
    /\ pc = "idle" /\ at = 0 /\ call = NoCall
    /\ sourceFile = "prepared"
    /\ artifact = {}
    /\ torn = {}

-----------------------------------------------------------------------------
(* The control of one call.                                                *)

Here == <<call.task, at>>

Begin(step, first, locals) ==
    pc = "idle" /\ pc' = step /\ at' = first /\ call' = locals
Return == pc' = "idle" /\ at' = 0 /\ call' = NoCall
Goto(step) == pc' = step /\ UNCHANGED <<at, call>>

\* Variants named <definition>_<slip> are what a plausible slip in the code
\* would make of a definition.  The specification does not use them.
Advance_OffByOne(loop, after) ==
    /\ IF at > PlanLength THEN pc' = after /\ at' = at ELSE pc' = loop /\ at' = at + 1
    /\ UNCHANGED call

\* The next position of a loop, or the step after the loop.
Advance(loop, after) ==
    /\ IF at = PlanLength THEN pc' = after /\ at' = at ELSE pc' = loop /\ at' = at + 1
    /\ UNCHANGED call

\* One step back in the reversed list of a rollback.
Retreat(step) == pc' = step /\ at' = at - 1 /\ UNCHANGED call

ReportFailure == torn' = torn \cup {call.task}

\* A method of the store takes effect and returns, or raises and is rolled
\* back.  Most end with a read in a second connection, after the commit: when
\* that read fails the method has taken effect and raises.
StoreCall(effect, returns, raises) ==
    \/ effect /\ returns
    \/ UNCHANGED storeVars /\ raises
    \/ ReadBackFails /\ effect /\ raises

-----------------------------------------------------------------------------
(* cad_execute_plan: the records, before any object is drawn.              *)

ExecuteRecord(t) ==
    /\ pc = "idle" /\ execution[t] = "none"
    /\ record_execution(t)
    /\ \/ Begin("create", 0, [NoCall EXCEPT !.task = t])
       \/ ReadBackFails /\ Return
    /\ UNCHANGED <<drawingVars, fileVars, torn>>

ExecuteCreateTask ==
    /\ pc = "create"
    /\ StoreCall(create_ai_task(call.task), Goto("revalidate"), Return)
    /\ UNCHANGED <<drawingVars, fileVars, torn>>

\* PlanExecutor.execute validates again: the plan passes, or is reported as
\* blocked, or list_layers raises.
ExecuteRevalidate ==
    /\ pc = "revalidate"
    /\ \/ pc' = "draw" /\ at' = 1 /\ UNCHANGED call
       \/ Goto("result")
       \/ Goto("exceptResult")
    /\ UNCHANGED <<drawingVars, storeVars, fileVars, torn>>

(* The drawing loop.                                                       *)

DrawObject ==
    /\ pc = "draw" /\ at \in Created
    /\ AddObject(Here)
    /\ Goto("finalize")
    /\ UNCHANGED <<revertLayerOn, storeVars, fileVars, torn>>

\* The result["success"] of a finished loop.
Succeed(loop, after) ==
    IF at = PlanLength
    THEN pc' = after /\ at' = at /\ call' = [call EXCEPT !.success = TRUE]
    ELSE pc' = loop /\ at' = at + 1 /\ UNCHANGED call

\* _finalize_entity, then write_entity_provenance.
FinalizeObject ==
    /\ pc = "finalize" /\ Drawn(Here)
    /\ entity' = [entity EXCEPT ![Here].layer = PlanLayer[at], ![Here].tag = PreviewTag]
    /\ Succeed("draw", "result")
    /\ UNCHANGED <<revertLayerOn, storeVars, fileVars, torn>>

\* _layout_dimension: no ownership and no provenance.
LayoutDimension ==
    /\ pc = "draw" /\ at \in LayoutOnly /\ Drawn(Here)
    /\ MoveText(Here)
    /\ Succeed("draw", "result")
    /\ UNCHANGED <<revertLayerOn, storeVars, fileVars, torn>>

\* A COM call raises.  The text of a dimension may have moved by then.
DrawFails ==
    /\ pc \in {"draw", "finalize"}
    /\ \/ UNCHANGED entity
       \/ at \in LayoutOnly /\ Drawn(Here) /\ MoveText(Here)
    /\ Goto("rollback")
    /\ UNCHANGED <<revertLayerOn, storeVars, fileVars, torn>>

\* created_handles holds exactly the handles given out so far.  Only created
\* objects are deleted; a lookup or a delete that fails is reported.
RolledBack_OnceTagged(h) == h[2] \in Created /\ entity[h].tag.status # "untagged"
RolledBack(h) == h[2] \in Created /\ entity[h].state # "absent"

RollbackCreated ==
    /\ pc = "rollback" /\ at > 0
    /\ \/ ~RolledBack(Here) /\ UNCHANGED <<entity, torn>>
       \/ RolledBack(Here) /\ Drawn(Here) /\ Erase(Here) /\ UNCHANGED torn
       \/ RolledBack(Here) /\ ReportFailure /\ UNCHANGED entity
    /\ Retreat("rollback")
    /\ UNCHANGED <<revertLayerOn, storeVars, fileVars>>

RollbackEnds ==
    /\ pc = "rollback" /\ at = 0
    /\ Goto("result")
    /\ UNCHANGED <<drawingVars, storeVars, fileVars, torn>>

(* The records after the drawing; every transaction may raise.             *)

\* The exception of the rows is swallowed.
Except_Swallowed ==
    IF call.success THEN Goto("status") ELSE Goto("exceptResult")

\* The except clause deletes the handles of a successful result first.
Except ==
    IF call.success THEN pc' = "undo" /\ at' = PlanLength /\ UNCHANGED call
                    ELSE Goto("exceptResult")

StoreResult ==
    /\ pc = "result"
    /\ StoreCall(update_execution_result(call.task, call.success),
                 Goto(IF call.success THEN "rows" ELSE "status"), Except)
    /\ UNCHANGED <<drawingVars, fileVars, torn>>

StoreRows ==
    /\ pc = "rows"
    /\ StoreCall(add_ai_task_entities(call.task), Goto("status"), Except)
    /\ UNCHANGED <<drawingVars, fileVars, torn>>

StoreStatus ==
    /\ pc = "status"
    /\ StoreCall(update_ai_task(call.task, IF call.success THEN "executed" ELSE "failed"),
                 Return, Except)
    /\ UNCHANGED <<drawingVars, fileVars, torn>>

\* _rollback_task_handles_with_diagnostics over every handle of the result,
\* the layout-only targets included: an object is deleted only when its XData
\* proves that the task owns it.
UndoDeletes_AnyHandle(h) == Drawn(h)
UndoDeletes(h) == ProvesOwnership(h)

UndoHandle ==
    /\ pc = "undo" /\ at > 0
    /\ \/ UndoDeletes(Here) /\ Erase(Here) /\ UNCHANGED torn
       \/ ReportFailure /\ UNCHANGED entity
    /\ Retreat("undo")
    /\ UNCHANGED <<revertLayerOn, storeVars, fileVars>>

\* AutoCAD is gone: _get_document raises out of the except clause.
UndoUnreachable ==
    /\ pc = "undo" /\ at = PlanLength
    /\ ReportFailure /\ Return
    /\ UNCHANGED <<drawingVars, storeVars, fileVars>>

UndoEnds ==
    /\ pc = "undo" /\ at = 0
    /\ Goto("exceptResult")
    /\ UNCHANGED <<drawingVars, storeVars, fileVars, torn>>

\* The transactions of the except clause may raise as well: the exception
\* then leaves the tool and the records stay as they are.
ExceptResult ==
    /\ pc = "exceptResult"
    /\ StoreCall(update_execution_result(call.task, FALSE), Goto("exceptStatus"), Return)
    /\ UNCHANGED <<drawingVars, fileVars, torn>>

ExceptStatus ==
    /\ pc = "exceptStatus"
    /\ \/ update_ai_task(call.task, "failed")
       \/ UNCHANGED storeVars
    /\ Return
    /\ UNCHANGED <<drawingVars, fileVars, torn>>

-----------------------------------------------------------------------------
(* cad_verify_execution.                                                   *)

\* Every object is where and what the plan says.
MatchesPlan(t) ==
    \A i \in Position :
        LET h == <<t, i>> IN
        Drawn(h) /\ entity[h].layer = PlanLayer[i] /\ entity[h].shape = "planned"

\* The caller passes the task's own plan and handles, or others, which fail.
\* A created handle that is gone raises outside the verifier's own try.
VerifyExecution(t, exact) ==
    /\ pc = "idle" /\ taskStatus[t] # "none"
    /\ exact => \A i \in Created : Drawn(<<t, i>>)
    /\ LET passed == /\ exact
                     /\ MatchesPlan(t)
                     /\ \A i \in Created : ProvesOwnership(<<t, i>>)
       IN update_ai_task(t, IF passed THEN "verified" ELSE "failed")
    /\ UNCHANGED <<drawingVars, callVars, fileVars, torn>>

-----------------------------------------------------------------------------
(* cad_render_task_audit.  The audit of a task that requires none is saved *)
(* as well but never read again, so ServerStep leaves it out.              *)

\* records holds the rows that could be read; the others are missing.
Readable(h) ==
    entityRow[h].recorded /\ (IF h[2] \in Created THEN ProvesOwnership(h) ELSE Drawn(h))
AuditSnapshot(t) ==
    [i \in Position |-> IF Readable(<<t, i>>) THEN Observed(<<t, i>>) ELSE Unread]
Missing(t) == {i \in Position : entityRow[<<t, i>>].recorded /\ ~Readable(<<t, i>>)}

\* _source_completeness_blockers, for what concerns the objects.
Complete(t) ==
    /\ Uncertain = {} /\ Approximate = {}
    /\ \A i \in Position : PlanLayer[i] # "AI_UNCERTAIN"
    /\ \A i \in Position : AuditSnapshot(t)[i].layer # "AI_UNCERTAIN"

\* evidence: the manifest is trusted and matches, the dimension layout passes
\* and the renderer wrote the comparison file.
RenderTaskAudit(t, evidence) ==
    /\ pc = "idle" /\ taskStatus[t] # "none"
    /\ LET passed == evidence /\ sourceFile = "prepared" /\ Missing(t) = {} /\ Complete(t)
       IN /\ save_audit(t, [passed |-> passed, snapshot |-> AuditSnapshot(t)])
          /\ artifact' = IF passed THEN artifact \cup {t} ELSE artifact \ {t}
    /\ UNCHANGED <<drawingVars, callVars, sourceFile, torn>>

-----------------------------------------------------------------------------
(* What commit and revert share.                                           *)

\* _load_owned_entities succeeds.
OwnedLoaded(t) ==
    /\ Created # {}
    /\ \A i \in Created : entityRow[<<t, i>>].recorded /\ ProvesOwnership(<<t, i>>)

\* _snapshot, with the metadata _load_owned_entities returned.
Snapshot(t) == [i \in Position |-> IF i \in Created THEN entity[<<t, i>>] ELSE Absent]

GeometryUnchanged_NotCompared(t) == \A i \in Created : Drawn(<<t, i>>)

\* _assert_geometry_unchanged; an erased object raises.
GeometryUnchanged(t) ==
    \A i \in Created :
        Drawn(<<t, i>>) /\ entity[<<t, i>>].shape = call.snapshot[i].shape

\* The loops go over the owned rows only.
SkipLayoutOnly(loop, after) ==
    /\ pc = loop /\ at \in LayoutOnly
    /\ Advance(loop, after)
    /\ UNCHANGED <<drawingVars, storeVars, fileVars, torn>>

\* The object is listed as changed only after its writes.
Fails_ListedLate(k) == pc' = "restore" /\ at' = at - 1 /\ UNCHANGED call

\* A COM call raises before the object is in the list of changed ones, or
\* after.
Fails(k) == pc' = "restore" /\ at' = at - k /\ UNCHANGED call

Restored_LayerOnly(h, old) == entity' = [entity EXCEPT ![h].layer = old.layer]
Restored(h, old) == entity' = [entity EXCEPT ![h].layer = old.layer, ![h].tag = old.tag]

RestoredLayerOn_Always == TRUE
RestoredLayerOn == call.layerWasOn

\* One object of _restore_entities: layer and XData are written back, or the
\* write raises before or after the layer, which is reported.
RestoreObject ==
    /\ pc = "restore" /\ at > 0
    /\ LET old == call.snapshot[at] IN
       \/ at \in LayoutOnly /\ UNCHANGED <<entity, torn>>
       \/ /\ at \in Created /\ Drawn(Here)
          /\ Restored(Here, old)
          /\ UNCHANGED torn
       \/ at \in Created /\ Drawn(Here) /\ SetLayer(Here, old.layer) /\ ReportFailure
       \/ at \in Created /\ UNCHANGED entity /\ ReportFailure
    /\ Retreat("restore")
    /\ UNCHANGED <<revertLayerOn, storeVars, fileVars>>

\* A revert also puts LayerOn back.
RestoreEnds ==
    /\ pc = "restore" /\ at = 0
    /\ \/ call.reverting /\ revertLayerOn' = RestoredLayerOn /\ UNCHANGED torn
       \/ call.reverting /\ UNCHANGED revertLayerOn /\ ReportFailure
       \/ ~call.reverting /\ UNCHANGED <<revertLayerOn, torn>>
    /\ Return
    /\ UNCHANGED <<entity, storeVars, fileVars>>

-----------------------------------------------------------------------------
(* cad_commit_preview_task, confirmed.  Every other outcome of the checks  *)
(* returns or raises before the first write.                               *)

SnapshotCurrent(t) ==
    audit[t].snapshot =
        [i \in Position |-> IF i \in Created THEN Observed(<<t, i>>) ELSE Unread]

AuditCurrent(t) ==
    /\ audit[t].passed
    /\ sourceFile = "prepared"
    /\ t \in artifact
    /\ SnapshotCurrent(t)

Mappable_Unchecked(i, layer, mapping) == layer \in DOMAIN mapping

\* The checks of the manifest loop on one object.
Mappable(i, layer, mapping) ==
    /\ layer \in DOMAIN mapping
    /\ i \in Approximate => mapping[layer] = "AI_UNCERTAIN"

CommitBegin(t, layer_mapping) ==
    /\ taskStatus[t] = "verified"
    /\ OwnedLoaded(t)
    /\ t \in AuditRequired => AuditCurrent(t)
    /\ \A i \in Created : Mappable(i, entity[<<t, i>>].layer, Merged(layer_mapping))
    /\ Begin("commitLayer", 1, [NoCall EXCEPT !.task = t, !.mapping = Merged(layer_mapping),
                                              !.snapshot = Snapshot(t)])
    /\ UNCHANGED <<drawingVars, storeVars, fileVars, torn>>

\* The layer is read again: a user may have moved the object since.
CommitLayer ==
    /\ pc = "commitLayer" /\ at \in Created
    /\ Drawn(Here) /\ entity[Here].layer \in DOMAIN call.mapping
    /\ SetLayer(Here, call.mapping[entity[Here].layer])
    /\ Goto("commitTag")
    /\ UNCHANGED <<revertLayerOn, storeVars, fileVars, torn>>

CommitTag ==
    /\ pc = "commitTag" /\ Drawn(Here)
    /\ SetTag(Here, [call.snapshot[at].tag EXCEPT !.status = "committed"])
    /\ Advance("commitLayer", "commitStore")
    /\ UNCHANGED <<revertLayerOn, storeVars, fileVars, torn>>

\* read_entity_provenance(entity) or {}: the metadata of an object whose XData
\* cannot be read back is recorded as empty.
ReadBackTag(h, unreadable) == IF h[2] \in unreadable THEN NoTag ELSE entity[h].tag

CommitStore ==
    /\ pc = "commitStore"
    /\ GeometryUnchanged(call.task)
    /\ \E unreadable \in SUBSET Created :
        StoreCall(
            update_task_entities_and_status(call.task,
                [h \in Handle |-> [recorded |-> TRUE, layer |-> entity[h].layer,
                                   formal |-> entity[h].layer,
                                   tag |-> ReadBackTag(h, unreadable)]],
                "committed"),
            Return, Fails(0))
    /\ UNCHANGED <<drawingVars, fileVars, torn>>

CommitFails ==
    /\ \/ pc = "commitLayer" /\ at \in Created /\ \E k \in {0, 1} : Fails(k)
       \/ pc \in {"commitTag", "commitStore"} /\ Fails(0)
    /\ UNCHANGED <<drawingVars, storeVars, fileVars, torn>>

-----------------------------------------------------------------------------
(* cad_revert_ai_task, confirmed.                                          *)

Revertible(t, allow) ==
    /\ taskStatus[t] \in {"executed", "verified", "committed", "failed"}
    /\ taskStatus[t] = "committed" => allow

RevertBegin(t, allow) ==
    /\ Revertible(t, allow)
    /\ OwnedLoaded(t)
    /\ Begin("revertLayer", 1, [NoCall EXCEPT !.task = t, !.allow = allow, !.reverting = TRUE,
                                              !.snapshot = Snapshot(t),
                                              !.layerWasOn = revertLayerOn])
    /\ UNCHANGED <<drawingVars, storeVars, fileVars, torn>>

RevertLayer ==
    /\ pc = "revertLayer" /\ at \in Created /\ Drawn(Here)
    /\ SetLayer(Here, REVERT_LAYER)
    /\ pc' = "revertTag" /\ at' = at
    /\ call' = [call EXCEPT !.source = entity[Here].layer]
    /\ UNCHANGED <<revertLayerOn, storeVars, fileVars, torn>>

RevertTag ==
    /\ pc = "revertTag" /\ Drawn(Here)
    /\ SetTag(Here, [status |-> "reverted", from |-> call.source])
    /\ Advance("revertLayer", "revertHide")
    /\ UNCHANGED <<revertLayerOn, storeVars, fileVars, torn>>

RevertHide ==
    /\ pc = "revertHide"
    /\ revertLayerOn' = FALSE
    /\ Goto("revertStore")
    /\ UNCHANGED <<entity, storeVars, fileVars, torn>>

RevertStore ==
    /\ pc = "revertStore"
    /\ GeometryUnchanged(call.task)
    /\ \E unreadable \in SUBSET Created :
        StoreCall(
            update_task_entities_and_status(call.task,
                [h \in Handle |-> [entityRow[h] EXCEPT !.layer = REVERT_LAYER,
                                                       !.tag = ReadBackTag(h, unreadable)]],
                "reverted"),
            Return, Fails(0))
    /\ UNCHANGED <<drawingVars, fileVars, torn>>

RevertFails ==
    /\ \/ pc = "revertLayer" /\ at \in Created /\ \E k \in {0, 1} : Fails(k)
       \/ pc \in {"revertTag", "revertHide", "revertStore"} /\ Fails(0)
    /\ UNCHANGED <<drawingVars, storeVars, fileVars, torn>>

-----------------------------------------------------------------------------
(* What goes on around the calls.                                          *)

\* The MCP server is killed: the call is lost, drawing and store remain.
Crash ==
    /\ pc # "idle"
    /\ torn' = torn \cup {call.task}
    /\ Return
    /\ UNCHANGED <<drawingVars, storeVars, fileVars>>

User ==
    /\ \/ UserEdit /\ UNCHANGED fileVars
       \/ /\ "source" \in UserEdits
          /\ sourceFile' \in {"prepared", "edited"}
          /\ UNCHANGED <<drawingVars, artifact>>
       \/ /\ "artifact" \in UserEdits
          /\ \E t \in artifact : artifact' = artifact \ {t}
          /\ UNCHANGED <<drawingVars, sourceFile>>
    /\ UNCHANGED <<storeVars, callVars, torn>>

ExecuteStep ==
    \/ \E t \in Task : ExecuteRecord(t)
    \/ ExecuteCreateTask \/ ExecuteRevalidate
    \/ DrawObject \/ FinalizeObject \/ LayoutDimension \/ DrawFails
    \/ RollbackCreated \/ RollbackEnds
    \/ StoreResult \/ StoreRows \/ StoreStatus
    \/ UndoHandle \/ UndoUnreachable \/ UndoEnds \/ ExceptResult \/ ExceptStatus

CommitStep ==
    \/ \E t \in Task, layer_mapping \in LayerMappings : CommitBegin(t, layer_mapping)
    \/ CommitLayer \/ CommitTag \/ CommitStore \/ CommitFails
    \/ SkipLayoutOnly("commitLayer", "commitStore")

RevertStep ==
    \/ \E t \in Task, allow \in BOOLEAN : RevertBegin(t, allow)
    \/ RevertLayer \/ RevertTag \/ RevertHide \/ RevertStore \/ RevertFails
    \/ SkipLayoutOnly("revertLayer", "revertHide")

ServerStep ==
    \/ ExecuteStep
    \/ \E t \in Task, exact \in BOOLEAN : VerifyExecution(t, exact)
    \/ \E t \in AuditRequired, evidence \in BOOLEAN : RenderTaskAudit(t, evidence)
    \/ CommitStep \/ RevertStep
    \/ RestoreObject \/ RestoreEnds

Next == ServerStep \/ Crash \/ User

Spec == Init /\ [][Next]_vars

-----------------------------------------------------------------------------
(* Properties.  A task in torn had a call killed half way or was told of a *)
(* handle that could not be undone; for every other task, and whenever no  *)
(* call works on it, store and drawing must tell the same story.           *)

Settled(t) == t \notin torn /\ call.task # t

\* The XData of a recorded object is the metadata the store has of it, when it
\* has some: no failed commit, failed revert or refused transaction leaves one
\* of the two ahead.
RecordsAgree ==
    \A t \in Task : Settled(t) => \A i \in Created :
        LET h == <<t, i>> IN
        entityRow[h].tag # NoTag /\ Drawn(h) => entity[h].tag = entityRow[h].tag

\* An execution that failed anywhere, in the drawing or in the store, leaves
\* no object behind that the store does not know.
NoOrphan ==
    \A t \in Task : Settled(t) => \A i \in Created :
        Drawn(<<t, i>>) => entityRow[<<t, i>>].recorded

\* Objects no user moves are on the layer the store records: a failed commit
\* or revert puts every layer back, in whatever step it failed.
LayersAgree ==
    "move" \notin UserEdits =>
        \A t \in Task : Settled(t) => \A i \in Created :
            LET h == <<t, i>> IN
            entityRow[h].recorded /\ Drawn(h) => entity[h].layer = entityRow[h].layer

\* A task the store calls reverted has every remaining object tagged reverted
\* and the isolation layer hidden, and one it calls committed has no object
\* left in preview, whatever crashed or failed to be restored meanwhile.
StatusMatchesDrawing ==
    \A t \in Task :
        /\ taskStatus[t] = "reverted" =>
             /\ ~revertLayerOn
             /\ \A i \in Created : Drawn(<<t, i>>) => entity[<<t, i>>].tag.status = "reverted"
        /\ taskStatus[t] = "committed" =>
             \A i \in Created :
                 Drawn(<<t, i>>) => entity[<<t, i>>].tag.status \in {"committed", "reverted"}

\* "executed" is the last thing written: a task has that status only when its
\* execution is recorded as passed and every object of its plan has a row.
ExecutedIsComplete ==
    \A t \in Task : taskStatus[t] = "executed" =>
        /\ execution[t] = "passed"
        /\ \A i \in Position : entityRow[<<t, i>>].recorded

\* An object of approximate reference is never recorded on a formal layer.
ApproximateStaysUncertain ==
    "move" \notin UserEdits =>
        \A t \in Task, i \in Approximate : entityRow[<<t, i>>].formal \in {NoLayer, "AI_UNCERTAIN"}

\* A server step never erases, moves or tags a dimension the task does not
\* own: a layout-only position may only move its text.
ForeignUntouched ==
    [][~(UNCHANGED callVars) =>
        \A h \in Task \X LayoutOnly : entity'[h] = [entity[h] EXCEPT !.shape = entity'[h].shape]]_vars

\* The steps of a commit or a revert, which hold a snapshot of the objects.
Presenting == {"commitLayer", "commitTag", "commitStore",
               "revertLayer", "revertTag", "revertHide", "revertStore", "restore"}

\* What a task shows of an object: nothing before its execution has ended, and
\* during a commit or a revert what the object was when the call began.
Seen(t, i) ==
    IF t \in torn \/ ~Drawn(<<t, i>>) THEN "gone"
    ELSE IF t # call.task THEN entity[<<t, i>>].tag.status
    ELSE IF pc \in Presenting THEN call.snapshot[i].tag.status
    ELSE "gone"

StatusSeen == [t \in Task |-> IF t \in torn THEN "lost" ELSE taskStatus[t]]
ItemsSeen == [t \in Task |-> [i \in Created |-> Seen(t, i)]]

Tasks == INSTANCE AtomicTasks WITH Item <- Created, status <- StatusSeen, items <- ItemsSeen

\* The workflow implements AtomicTasks: although objects are tagged one by one
\* and the store is written last, whatever raises in between, a task goes from
\* one status to the next with all its objects or stays as it was with all of
\* them, unless the code says that it could not undo something.
TasksAtomic == Tasks!Spec

\* A reconstruction task becomes committed only while its audit is a passing
\* one and every object still has the shape that audit saw, although users
\* edit the drawing between the audit, the checks and the last transaction.
CommitIsAudited ==
    [][\A t \in AuditRequired :
        taskStatus[t] # "committed" /\ taskStatus'[t] = "committed" =>
            /\ audit[t].passed
            /\ \A i \in Created :
                   Drawn(<<t, i>>) /\ entity[<<t, i>>].shape = audit[t].snapshot[i].shape]_vars

-----------------------------------------------------------------------------
(* Statements of the documentation that the code does not keep.            *)

\* docs/CAD_TASK_TRACKING.md: "A formally committed task additionally requires
\* allow_committed=true": a task whose rows record a formal layer.
RevertNeedsPermission ==
    [][\A t \in Task :
        /\ taskStatus[t] # "reverted" /\ taskStatus'[t] = "reverted"
        /\ \E i \in Created : entityRow[<<t, i>>].formal # NoLayer
        => call.allow]_vars

\* docs/CAD_TASK_TRACKING.md: "AI_UNCERTAIN objects cannot be promoted to
\* formal geometry layers."
UncertainNeverFormal ==
    \A t \in Task, i \in Uncertain : entityRow[<<t, i>>].formal \in {NoLayer, "AI_UNCERTAIN"}

\* tests/unit/test_task_tracking.py: a commit that fails in the database puts
\* the objects back and leaves the task verified.
FailedCommitStaysVerified ==
    [][pc = "restore" /\ ~call.reverting /\ pc' = "idle" /\ UNCHANGED torn =>
           taskStatus'[call.task] = "verified"]_vars

=============================================================================

-------------------------- MODULE TaskTrackingProofs --------------------------
(***************************************************************************)
(* Theorems about TaskTracking, for every set of tasks, every plan, every  *)
(* layer mapping and every kind of user edit: first its types, then its    *)
(* safety.  Each invariant of the workflow is made inductive by saying,    *)
(* for every step of a call, which objects the call still has to deal      *)
(* with.                                                                   *)
(***************************************************************************)
EXTENDS TaskTracking, TLAPS

USE PlanAssumption, TaskAssumption

-----------------------------------------------------------------------------
(* Types.                                                                  *)

LEMMA HandleType == ASSUME NEW t \in Task, NEW i \in Position PROVE <<t, i>> \in Handle
BY DEF Handle

LEMMA CreatedType == Created \subseteq Position /\ LayoutOnly \subseteq Position
BY DEF Created, Position

LEMMA PositionType == Position \subseteq Nat /\ \A i \in Position : i > 0 /\ i <= PlanLength
BY DEF Position

LEMMA MapType ==
    /\ DEFAULT_FORMAL_LAYER_MAP \in LayerMapping
    /\ \A m \in LayerMapping : Merged(m) \in LayerMapping
<1>1. DEFAULT_FORMAL_LAYER_MAP \in [{"AI_PREVIEW_OUTLINE", "AI_UNCERTAIN"} -> Layer]
  BY DEF DEFAULT_FORMAL_LAYER_MAP, Layer
<1>2. DEFAULT_FORMAL_LAYER_MAP \in LayerMapping
  BY <1>1 DEF LayerMapping, Layer
<1>3. ASSUME NEW m \in LayerMapping PROVE Merged(m) \in LayerMapping
  <2>1. PICK S \in SUBSET Layer : m \in [S -> Layer]
    BY DEF LayerMapping
  <2>2. Merged(m) \in [{"AI_PREVIEW_OUTLINE", "AI_UNCERTAIN"} \cup S -> Layer]
    BY <1>1, <2>1 DEF Merged
  <2>3. {"AI_PREVIEW_OUTLINE", "AI_UNCERTAIN"} \cup S \in SUBSET Layer
    BY DEF Layer
  <2> QED BY <2>2, <2>3 DEF LayerMapping
<1> QED BY <1>2, <1>3

LEMMA RecordTypes ==
    /\ NoTag \in Tag /\ PreviewTag \in Tag
    /\ Absent \in Object /\ UserDimension \in Object /\ NewObject \in Object
    /\ NoRow \in Row /\ NoAudit \in AuditData /\ Unread \in Observation
    /\ NoCall \in Call
<1>1. NoTag \in Tag /\ PreviewTag \in Tag
  BY DEF NoTag, PreviewTag, Tag
<1>2. Absent \in Object /\ UserDimension \in Object /\ NewObject \in Object
  BY <1>1 DEF Absent, UserDimension, NewObject, Object, Layer
<1>3. NoRow \in Row
  BY <1>1 DEF NoRow, Row
<1>4. Unread \in Observation
  BY DEF Unread, Observation
<1>5. NoAudit \in AuditData
  BY <1>4 DEF NoAudit, AuditData
<1>6. NoSnapshot \in [Position -> Object]
  BY <1>2 DEF NoSnapshot
<1>7. NoCall \in Call
  BY <1>6, MapType DEF NoCall, Call
<1> QED BY <1>1, <1>2, <1>3, <1>4, <1>5, <1>7

LEMMA DrawingOps ==
    ASSUME DrawingTypeOK, NEW h, NEW layer \in Layer, NEW tag \in Tag
    PROVE  /\ AddObject(h) => entity' \in [Handle -> Object]
           /\ Erase(h) => entity' \in [Handle -> Object]
           /\ SetLayer(h, layer) => entity' \in [Handle -> Object]
           /\ SetTag(h, tag) => entity' \in [Handle -> Object]
           /\ MoveText(h) => entity' \in [Handle -> Object]
BY RecordTypes DEF DrawingTypeOK, AddObject, Erase, SetLayer, SetTag, MoveText, Object

LEMMA StoreOps ==
    ASSUME DrawingTypeOK, StoreTypeOK, NEW t \in Task
    PROVE  /\ record_execution(t) => StoreTypeOK'
           /\ \A passed \in BOOLEAN : update_execution_result(t, passed) => StoreTypeOK'
           /\ create_ai_task(t) => StoreTypeOK'
           /\ \A status \in TASK_STATUSES : update_ai_task(t, status) => StoreTypeOK'
           /\ add_ai_task_entities(t) => StoreTypeOK'
<1>1. /\ record_execution(t) => StoreTypeOK'
      /\ \A passed \in BOOLEAN : update_execution_result(t, passed) => StoreTypeOK'
  BY DEF record_execution, update_execution_result, StoreTypeOK
<1>2. /\ create_ai_task(t) => StoreTypeOK'
      /\ \A status \in TASK_STATUSES : update_ai_task(t, status) => StoreTypeOK'
  BY DEF create_ai_task, update_ai_task, StoreTypeOK, TASK_STATUSES
<1>3. ASSUME add_ai_task_entities(t) PROVE StoreTypeOK'
  <2>1. ASSUME NEW h \in Handle, h[1] = t
        PROVE  [recorded |-> TRUE,
                layer    |-> IF h[2] \in Created THEN PlanLayer[h[2]] ELSE entity[h].layer,
                formal   |-> NoLayer,
                tag      |-> IF h[2] \in Created THEN PreviewTag ELSE NoTag] \in Row
    <3>1. h[2] \in Created => PlanLayer[h[2]] \in Layer
      BY CreatedType
    <3>2. entity[h].layer \in Layer
      BY DEF DrawingTypeOK, Object
    <3> QED BY <3>1, <3>2, RecordTypes DEF Row
  <2>2. entityRow' \in [Handle -> Row]
    BY <1>3, <2>1 DEF add_ai_task_entities, StoreTypeOK
  <2> QED BY <1>3, <2>2 DEF add_ai_task_entities, StoreTypeOK
<1> QED BY <1>1, <1>2, <1>3

LEMMA RowsAndStatusType ==
    ASSUME StoreTypeOK, NEW t \in Task, NEW status \in TASK_STATUSES, NEW row \in [Handle -> Row],
           update_task_entities_and_status(t, row, status)
    PROVE  StoreTypeOK'
BY DEF update_task_entities_and_status, StoreTypeOK, TASK_STATUSES

LEMMA InitTypes == Init => TypeOK
<1> SUFFICES ASSUME Init PROVE TypeOK
  OBVIOUS
<1>1. DrawingTypeOK
  BY RecordTypes DEF Init, DrawingInit, DrawingTypeOK
<1>2. StoreTypeOK
  BY RecordTypes DEF Init, StoreInit, StoreTypeOK
<1>3. pc \in Pc /\ at \in 0 .. PlanLength /\ call \in Call
  BY RecordTypes DEF Init, Pc
<1>4. (pc = "idle") <=> (call.task = NoTask)
  BY DEF Init, NoCall
<1> QED BY <1>1, <1>2, <1>3, <1>4 DEF Init, TypeOK

\* The control part of TypeOK.
ControlTypeOK ==
    /\ pc \in Pc
    /\ at \in 0 .. PlanLength
    /\ call \in Call
    /\ (pc = "idle") <=> (call.task = NoTask)

LEMMA ControlOps ==
    ASSUME TypeOK, pc # "idle", NEW step \in Pc \ {"idle"}, NEW after \in Pc \ {"idle"}
    PROVE  /\ Goto(step) => ControlTypeOK'
           /\ Advance(step, after) => ControlTypeOK'
           /\ Succeed(step, after) => ControlTypeOK'
           /\ at > 0 /\ Retreat(step) => ControlTypeOK'
           /\ Except => ControlTypeOK'
           /\ at > 0 /\ Fails(1) => ControlTypeOK'
           /\ Fails(0) => ControlTypeOK'
<1> USE DEF TypeOK, ControlTypeOK
<1>1. Goto(step) => ControlTypeOK'
  BY DEF Goto
<1>2. Advance(step, after) => ControlTypeOK'
  BY DEF Advance
<1>3. Succeed(step, after) => ControlTypeOK'
  <2>1. CASE at = PlanLength
    <3>1. [call EXCEPT !.success = TRUE] \in Call /\ [call EXCEPT !.success = TRUE].task = call.task
      BY DEF Call
    <3> QED BY <2>1, <3>1 DEF Succeed
  <2>2. CASE at # PlanLength
    BY <2>2 DEF Succeed
  <2> QED BY <2>1, <2>2
<1>4. at > 0 /\ Retreat(step) => ControlTypeOK'
  BY DEF Retreat
<1>5. Except => ControlTypeOK'
  BY DEF Except, Goto, Pc
<1>6. (at > 0 /\ Fails(1)) \/ Fails(0) => ControlTypeOK'
  BY DEF Fails, Pc
<1> QED BY <1>1, <1>2, <1>3, <1>4, <1>5, <1>6

LEMMA ReturnType == Return => ControlTypeOK'
BY RecordTypes DEF Return, ControlTypeOK, Pc, NoCall

LEMMA BeginType ==
    ASSUME NEW step \in Pc \ {"idle"}, NEW first \in {0, 1}, NEW locals \in Call,
           locals.task \in Task, Begin(step, first, locals)
    PROVE  ControlTypeOK'
BY DEF Begin, ControlTypeOK

\* What the actions of an active call keep besides the drawing and the store.
LEMMA ActiveTask == ASSUME TypeOK, pc # "idle" PROVE call.task \in Task /\ call.success \in BOOLEAN
BY DEF TypeOK, Call

LEMMA ReportType == ASSUME TypeOK, pc # "idle", ReportFailure \/ UNCHANGED torn PROVE torn' \subseteq Task
BY ActiveTask DEF TypeOK, ReportFailure

LEMMA TypeParts ==
    ASSUME DrawingTypeOK, StoreTypeOK, ControlTypeOK,
           sourceFile \in {"prepared", "edited"}, artifact \subseteq Task, torn \subseteq Task
    PROVE  TypeOK
BY DEF TypeOK, ControlTypeOK

LEMMA ExecuteStepType == TypeOK /\ ExecuteStep => TypeOK'
<1> SUFFICES ASSUME TypeOK, ExecuteStep PROVE TypeOK'
  OBVIOUS
<1> USE DEF TypeOK, drawingVars, storeVars, fileVars, vars
<1>p. /\ {"create", "revalidate", "draw", "finalize", "rollback", "result", "rows", "status",
           "undo", "exceptResult", "exceptStatus"} \subseteq Pc \ {"idle"}
      /\ {"executed", "failed"} \subseteq TASK_STATUSES
  BY DEF Pc, TASK_STATUSES
<1>1. ASSUME NEW t \in Task, ExecuteRecord(t) PROVE TypeOK'
  <2>1. [NoCall EXCEPT !.task = t] \in Call /\ [NoCall EXCEPT !.task = t].task = t
    BY RecordTypes DEF Call
  <2>2. ControlTypeOK'
    BY <1>1, <1>p, <2>1, BeginType, ReturnType DEF ExecuteRecord
  <2>3. StoreTypeOK'
    BY <1>1, StoreOps DEF ExecuteRecord
  <2> QED BY <1>1, <2>2, <2>3 DEF ExecuteRecord, DrawingTypeOK, ControlTypeOK
<1>2. CASE ExecuteCreateTask
  <2>1. pc # "idle"
    BY <1>2 DEF ExecuteCreateTask
  <2>2. StoreTypeOK' /\ (Goto("revalidate") \/ Return)
    BY <1>2, <2>1, ActiveTask, StoreOps DEF ExecuteCreateTask, StoreCall, StoreTypeOK
  <2>3. ControlTypeOK'
    BY <2>1, <2>2, <1>p, ControlOps, ReturnType
  <2> QED BY <1>2, <2>2, <2>3 DEF ExecuteCreateTask, DrawingTypeOK, ControlTypeOK
<1>3. CASE ExecuteRevalidate
  <2>1. ControlTypeOK'
    BY <1>3, <1>p, ControlOps DEF ExecuteRevalidate, ControlTypeOK
  <2> QED BY <1>3, <2>1 DEF ExecuteRevalidate, DrawingTypeOK, StoreTypeOK, ControlTypeOK
<1>4. CASE DrawObject
  <2>1. entity' \in [Handle -> Object]
    BY <1>4, DrawingOps, RecordTypes DEF DrawObject, Layer
  <2>2. ControlTypeOK'
    BY <1>4, <1>p, ControlOps DEF DrawObject
  <2> QED BY <1>4, <2>1, <2>2 DEF DrawObject, DrawingTypeOK, StoreTypeOK, ControlTypeOK
<1>5. CASE FinalizeObject
  <2>1. entity' \in [Handle -> Object]
    <3>1. Here \in Handle => at \in Position
      BY DEF Here, Handle
    <3>2. ASSUME Here \in Handle PROVE PlanLayer[at] \in Layer
      BY <3>1, <3>2
    <3> QED BY <1>5, <3>2, RecordTypes DEF FinalizeObject, DrawingTypeOK, Object
  <2>2. ControlTypeOK'
    BY <1>5, <1>p, ControlOps DEF FinalizeObject
  <2> QED BY <1>5, <2>1, <2>2 DEF FinalizeObject, DrawingTypeOK, StoreTypeOK, ControlTypeOK
<1>6. CASE LayoutDimension
  <2>1. entity' \in [Handle -> Object]
    BY <1>6, DrawingOps, RecordTypes DEF LayoutDimension, Layer
  <2>2. ControlTypeOK'
    BY <1>6, <1>p, ControlOps DEF LayoutDimension
  <2> QED BY <1>6, <2>1, <2>2 DEF LayoutDimension, DrawingTypeOK, StoreTypeOK, ControlTypeOK
<1>7. CASE DrawFails
  <2>1. entity' \in [Handle -> Object]
    BY <1>7, DrawingOps, RecordTypes DEF DrawFails, Layer, DrawingTypeOK
  <2>2. ControlTypeOK'
    BY <1>7, <1>p, ControlOps DEF DrawFails
  <2> QED BY <1>7, <2>1, <2>2 DEF DrawFails, DrawingTypeOK, StoreTypeOK, ControlTypeOK
<1>8. CASE RollbackCreated \/ UndoHandle
  <2>1. entity' \in [Handle -> Object]
    BY <1>8, DrawingOps, RecordTypes DEF RollbackCreated, UndoHandle, Layer, DrawingTypeOK
  <2>2. pc # "idle" /\ (ReportFailure \/ UNCHANGED torn)
    BY <1>8 DEF RollbackCreated, UndoHandle
  <2>3. ControlTypeOK'
    BY <1>8, <1>p, ControlOps DEF RollbackCreated, UndoHandle
  <2> QED BY <1>8, <2>1, <2>2, <2>3, ReportType
          DEF RollbackCreated, UndoHandle, DrawingTypeOK, StoreTypeOK, ControlTypeOK
<1>9. CASE RollbackEnds \/ UndoEnds
  <2>1. ControlTypeOK'
    BY <1>9, <1>p, ControlOps DEF RollbackEnds, UndoEnds
  <2> QED BY <1>9, <2>1 DEF RollbackEnds, UndoEnds, DrawingTypeOK, StoreTypeOK, ControlTypeOK
<1>10. CASE StoreResult \/ StoreRows \/ StoreStatus
  <2>1. pc # "idle"
    BY <1>10 DEF StoreResult, StoreRows, StoreStatus
  <2>2. StoreTypeOK' /\ (Goto("rows") \/ Goto("status") \/ Return \/ Except)
    BY <1>10, <2>1, <1>p, ActiveTask, StoreOps
       DEF StoreResult, StoreRows, StoreStatus, StoreCall, StoreTypeOK
  <2>3. ControlTypeOK'
    BY <2>1, <2>2, <1>p, ControlOps, ReturnType
  <2> QED BY <1>10, <2>2, <2>3 DEF StoreResult, StoreRows, StoreStatus, DrawingTypeOK, ControlTypeOK
<1>11. CASE UndoUnreachable
  <2>1. torn' \subseteq Task
    BY <1>11, ReportType DEF UndoUnreachable
  <2> QED BY <1>11, <2>1, ReturnType DEF UndoUnreachable, DrawingTypeOK, StoreTypeOK, ControlTypeOK
<1>12. CASE ExceptResult \/ ExceptStatus
  <2>1. pc # "idle"
    BY <1>12 DEF ExceptResult, ExceptStatus
  <2>2. StoreTypeOK' /\ (Goto("exceptStatus") \/ Return)
    BY <1>12, <2>1, <1>p, ActiveTask, StoreOps DEF ExceptResult, ExceptStatus, StoreCall, StoreTypeOK
  <2>3. ControlTypeOK'
    BY <2>1, <2>2, <1>p, ControlOps, ReturnType
  <2> QED BY <1>12, <2>2, <2>3 DEF ExceptResult, ExceptStatus, DrawingTypeOK, ControlTypeOK
<1> QED BY <1>1, <1>2, <1>3, <1>4, <1>5, <1>6, <1>7, <1>8, <1>9, <1>10, <1>11, <1>12 DEF ExecuteStep

LEMMA SnapshotType ==
    ASSUME TypeOK, NEW t \in Task
    PROVE  Snapshot(t) \in [Position -> Object] /\ AuditSnapshot(t) \in [Position -> Observation]
<1>1. Snapshot(t) \in [Position -> Object]
  BY HandleType, RecordTypes DEF Snapshot, TypeOK, DrawingTypeOK
<1>2. ASSUME NEW h \in Handle PROVE Observed(h) \in Observation
  BY DEF Observed, Observation, TypeOK, DrawingTypeOK, Object
<1>3. AuditSnapshot(t) \in [Position -> Observation]
  BY <1>2, HandleType, RecordTypes DEF AuditSnapshot
<1> QED BY <1>1, <1>3

LEMMA MappedType ==
    ASSUME NEW m \in LayerMapping, NEW layer \in DOMAIN m
    PROVE  m[layer] \in Layer
BY DEF LayerMapping

\* The rows a commit and a revert store.
LEMMA RowTypes ==
    ASSUME TypeOK, NEW unreadable, NEW h \in Handle
    PROVE  /\ [recorded |-> TRUE, layer |-> entity[h].layer, formal |-> entity[h].layer,
               tag |-> ReadBackTag(h, unreadable)] \in Row
           /\ [entityRow[h] EXCEPT !.layer = REVERT_LAYER,
                                   !.tag = ReadBackTag(h, unreadable)] \in Row
<1>1. ReadBackTag(h, unreadable) \in Tag /\ entity[h].layer \in Layer /\ entityRow[h] \in Row
  BY RecordTypes DEF ReadBackTag, TypeOK, DrawingTypeOK, StoreTypeOK, Object
<1> QED BY <1>1 DEF Row, REVERT_LAYER, Layer

LEMMA CommitStepType == TypeOK /\ CommitStep => TypeOK'
<1> SUFFICES ASSUME TypeOK, CommitStep PROVE TypeOK'
  OBVIOUS
<1> USE DEF TypeOK, drawingVars, storeVars, fileVars, vars
<1>p. /\ {"commitLayer", "commitTag", "commitStore", "restore"} \subseteq Pc \ {"idle"}
      /\ "committed" \in TASK_STATUSES
  BY DEF Pc, TASK_STATUSES
<1>1. ASSUME NEW t \in Task, NEW layer_mapping \in LayerMappings, CommitBegin(t, layer_mapping)
      PROVE  TypeOK'
  <2> DEFINE locals == [NoCall EXCEPT !.task = t, !.mapping = Merged(layer_mapping),
                                      !.snapshot = Snapshot(t)]
  <2>1. locals \in Call /\ locals.task = t
    BY RecordTypes, MapType, SnapshotType DEF Call
  <2>2. ControlTypeOK'
    BY <1>1, <1>p, <2>1, BeginType DEF CommitBegin
  <2> QED BY <1>1, <2>2 DEF CommitBegin, DrawingTypeOK, StoreTypeOK, ControlTypeOK
<1>2. CASE CommitLayer
  <2>1. call.mapping[entity[Here].layer] \in Layer
    BY <1>2, MappedType DEF CommitLayer, Call
  <2>2. entity' \in [Handle -> Object]
    BY <1>2, <2>1, DrawingOps, RecordTypes DEF CommitLayer
  <2>3. ControlTypeOK'
    BY <1>2, <1>p, ControlOps DEF CommitLayer
  <2> QED BY <1>2, <2>2, <2>3 DEF CommitLayer, DrawingTypeOK, StoreTypeOK, ControlTypeOK
<1>3. CASE CommitTag
  <2> DEFINE tag == [call.snapshot[at].tag EXCEPT !.status = "committed"]
  <2>1. entity' \in [Handle -> Object]
    <3>1. Here \in Handle => at \in Position
      BY DEF Here, Handle
    <3>2. ASSUME Here \in Handle PROVE tag \in Tag
      BY <3>1, <3>2 DEF Call, Object, Tag
    <3>3. entity' = [entity EXCEPT ![Here].tag = tag]
      BY <1>3 DEF CommitTag, SetTag
    <3> HIDE DEF tag
    <3> QED BY <3>2, <3>3 DEF DrawingTypeOK, Object
  <2>2. ControlTypeOK'
    BY <1>3, <1>p, ControlOps DEF CommitTag
  <2> QED BY <1>3, <2>1, <2>2 DEF CommitTag, DrawingTypeOK, StoreTypeOK, ControlTypeOK
<1>4. CASE CommitStore
  <2>1. pc # "idle"
    BY <1>4 DEF CommitStore
  <2>2. PICK unreadable \in SUBSET Created :
            StoreCall(
                update_task_entities_and_status(call.task,
                    [h \in Handle |-> [recorded |-> TRUE, layer |-> entity[h].layer,
                                       formal |-> entity[h].layer,
                                       tag |-> ReadBackTag(h, unreadable)]],
                    "committed"),
                Return, Fails(0))
    BY <1>4 DEF CommitStore
  <2> DEFINE row == [h \in Handle |-> [recorded |-> TRUE, layer |-> entity[h].layer,
                                       formal |-> entity[h].layer,
                                       tag |-> ReadBackTag(h, unreadable)]]
  <2>3. row \in [Handle -> Row]
    BY RowTypes
  <2> HIDE DEF row
  <2>4. StoreTypeOK' /\ (Return \/ Fails(0))
    <3>1. update_task_entities_and_status(call.task, row, "committed") => StoreTypeOK'
      BY <2>1, <2>3, <1>p, ActiveTask, RowsAndStatusType
    <3> QED BY <2>2, <3>1 DEF StoreCall, StoreTypeOK, row
  <2>5. ControlTypeOK'
    BY <2>1, <2>4, <1>p, ControlOps, ReturnType
  <2> QED BY <1>4, <2>4, <2>5 DEF CommitStore, DrawingTypeOK, ControlTypeOK
<1>5. CASE CommitFails
  <2>1. pc # "idle" /\ (Fails(0) \/ (at > 0 /\ Fails(1)))
    BY <1>5, CreatedType, PositionType DEF CommitFails
  <2>2. ControlTypeOK'
    BY <2>1, <1>p, ControlOps
  <2> QED BY <1>5, <2>2 DEF CommitFails, DrawingTypeOK, StoreTypeOK, ControlTypeOK
<1>6. CASE SkipLayoutOnly("commitLayer", "commitStore")
  <2>1. ControlTypeOK'
    BY <1>6, <1>p, ControlOps DEF SkipLayoutOnly
  <2> QED BY <1>6, <2>1 DEF SkipLayoutOnly, DrawingTypeOK, StoreTypeOK, ControlTypeOK
<1> QED BY <1>1, <1>2, <1>3, <1>4, <1>5, <1>6 DEF CommitStep

LEMMA RevertStepType == TypeOK /\ RevertStep => TypeOK'
<1> SUFFICES ASSUME TypeOK, RevertStep PROVE TypeOK'
  OBVIOUS
<1> USE DEF TypeOK, drawingVars, storeVars, fileVars, vars
<1>p. /\ {"revertLayer", "revertTag", "revertHide", "revertStore", "restore"} \subseteq Pc \ {"idle"}
      /\ "reverted" \in TASK_STATUSES /\ REVERT_LAYER \in Layer
  BY DEF Pc, TASK_STATUSES, REVERT_LAYER, Layer
<1>1. ASSUME NEW t \in Task, NEW allow \in BOOLEAN, RevertBegin(t, allow) PROVE TypeOK'
  <2> DEFINE locals == [NoCall EXCEPT !.task = t, !.allow = allow, !.reverting = TRUE,
                                      !.snapshot = Snapshot(t), !.layerWasOn = revertLayerOn]
  <2>1. locals \in Call /\ locals.task = t
    BY RecordTypes, SnapshotType DEF Call, DrawingTypeOK
  <2>2. ControlTypeOK'
    BY <1>1, <1>p, <2>1, BeginType DEF RevertBegin
  <2> QED BY <1>1, <2>2 DEF RevertBegin, DrawingTypeOK, StoreTypeOK, ControlTypeOK
<1>2. CASE RevertLayer
  <2>1. Here \in Handle
    BY <1>2, ActiveTask, CreatedType, HandleType DEF RevertLayer, Here
  <2>2. entity[Here].layer \in Layer
    BY <2>1 DEF DrawingTypeOK, Object
  <2>3. [call EXCEPT !.source = entity[Here].layer] \in Call
        /\ [call EXCEPT !.source = entity[Here].layer].task = call.task
    BY <2>2 DEF Call
  <2>4. ControlTypeOK'
    BY <1>2, <1>p, <2>3 DEF RevertLayer, ControlTypeOK
  <2>5. entity' \in [Handle -> Object]
    BY <1>2, <1>p, DrawingOps, RecordTypes DEF RevertLayer
  <2> QED BY <1>2, <2>4, <2>5 DEF RevertLayer, DrawingTypeOK, StoreTypeOK, ControlTypeOK
<1>3. CASE RevertTag
  <2>1. [status |-> "reverted", from |-> call.source] \in Tag
    BY DEF Tag, Call
  <2>2. entity' \in [Handle -> Object]
    BY <1>3, <1>p, <2>1, DrawingOps DEF RevertTag
  <2>3. ControlTypeOK'
    BY <1>3, <1>p, ControlOps DEF RevertTag
  <2> QED BY <1>3, <2>2, <2>3 DEF RevertTag, DrawingTypeOK, StoreTypeOK, ControlTypeOK
<1>4. CASE RevertHide
  <2>1. ControlTypeOK'
    BY <1>4, <1>p, ControlOps DEF RevertHide
  <2> QED BY <1>4, <2>1 DEF RevertHide, DrawingTypeOK, StoreTypeOK, ControlTypeOK
<1>5. CASE RevertStore
  <2>1. pc # "idle"
    BY <1>5 DEF RevertStore
  <2>2. PICK unreadable \in SUBSET Created :
            StoreCall(
                update_task_entities_and_status(call.task,
                    [h \in Handle |-> [entityRow[h] EXCEPT !.layer = REVERT_LAYER,
                                                           !.tag = ReadBackTag(h, unreadable)]],
                    "reverted"),
                Return, Fails(0))
    BY <1>5 DEF RevertStore
  <2> DEFINE row == [h \in Handle |-> [entityRow[h] EXCEPT !.layer = REVERT_LAYER,
                                                           !.tag = ReadBackTag(h, unreadable)]]
  <2>3. row \in [Handle -> Row]
    BY RowTypes
  <2> HIDE DEF row
  <2>4. StoreTypeOK' /\ (Return \/ Fails(0))
    <3>1. update_task_entities_and_status(call.task, row, "reverted") => StoreTypeOK'
      BY <2>1, <2>3, <1>p, ActiveTask, RowsAndStatusType
    <3> QED BY <2>2, <3>1 DEF StoreCall, StoreTypeOK, row
  <2>5. ControlTypeOK'
    BY <2>1, <2>4, <1>p, ControlOps, ReturnType
  <2> QED BY <1>5, <2>4, <2>5 DEF RevertStore, DrawingTypeOK, ControlTypeOK
<1>6. CASE RevertFails
  <2>1. pc # "idle" /\ (Fails(0) \/ (at > 0 /\ Fails(1)))
    BY <1>6, CreatedType, PositionType DEF RevertFails
  <2>2. ControlTypeOK'
    BY <2>1, <1>p, ControlOps
  <2> QED BY <1>6, <2>2 DEF RevertFails, DrawingTypeOK, StoreTypeOK, ControlTypeOK
<1>7. CASE SkipLayoutOnly("revertLayer", "revertHide")
  <2>1. ControlTypeOK'
    BY <1>7, <1>p, ControlOps DEF SkipLayoutOnly
  <2> QED BY <1>7, <2>1 DEF SkipLayoutOnly, DrawingTypeOK, StoreTypeOK, ControlTypeOK
<1> QED BY <1>1, <1>2, <1>3, <1>4, <1>5, <1>6, <1>7 DEF RevertStep

LEMMA StepType == TypeOK /\ [Next]_vars => TypeOK'
<1> SUFFICES ASSUME TypeOK, [Next]_vars PROVE TypeOK'
  OBVIOUS
<1> USE DEF TypeOK, drawingVars, storeVars, callVars, fileVars, vars
<1>1. ASSUME NEW t \in Task, NEW exact \in BOOLEAN, VerifyExecution(t, exact) PROVE TypeOK'
  <2>1. StoreTypeOK'
    BY <1>1, StoreOps DEF VerifyExecution, TASK_STATUSES
  <2> QED BY <1>1, <2>1 DEF VerifyExecution, DrawingTypeOK
<1>2. ASSUME NEW t \in AuditRequired, NEW evidence \in BOOLEAN, RenderTaskAudit(t, evidence)
      PROVE  TypeOK'
  <2>1. t \in Task
    OBVIOUS
  <2>2. PICK passed \in BOOLEAN :
            /\ save_audit(t, [passed |-> passed, snapshot |-> AuditSnapshot(t)])
            /\ artifact' = IF passed THEN artifact \cup {t} ELSE artifact \ {t}
    BY <1>2 DEF RenderTaskAudit
  <2>3. [passed |-> passed, snapshot |-> AuditSnapshot(t)] \in AuditData
    BY <2>1, SnapshotType DEF AuditData
  <2>4. StoreTypeOK' /\ artifact' \subseteq Task
    BY <2>1, <2>2, <2>3 DEF save_audit, StoreTypeOK
  <2> QED BY <1>2, <2>4 DEF RenderTaskAudit, DrawingTypeOK
<1>3. CASE RestoreObject
  <2>1. pc = "restore" /\ at > 0 /\ at \in Position
    BY <1>3 DEF RestoreObject, Position
  <2>2. Here \in Handle
    BY <2>1, ActiveTask, HandleType DEF Here
  <2>3. call.snapshot[at] \in Object
    BY <2>1 DEF Call
  <2>4. entity' \in [Handle -> Object]
    BY <1>3, <2>2, <2>3 DEF RestoreObject, Restored, SetLayer, DrawingTypeOK, Object
  <2>5. torn' \subseteq Task
    BY <1>3, <2>1, ReportType DEF RestoreObject
  <2>6. ControlTypeOK'
    BY <1>3, <2>1, ControlOps DEF RestoreObject, Pc
  <2> QED BY <1>3, <2>4, <2>5, <2>6 DEF RestoreObject, DrawingTypeOK, StoreTypeOK, ControlTypeOK
<1>4. CASE RestoreEnds
  <2>1. pc # "idle" /\ (ReportFailure \/ UNCHANGED torn)
    BY <1>4 DEF RestoreEnds
  <2>2. torn' \subseteq Task
    BY <2>1, ReportType
  <2>3. revertLayerOn' \in BOOLEAN
    BY <1>4 DEF RestoreEnds, RestoredLayerOn, Call, DrawingTypeOK
  <2> QED BY <1>4, <2>2, <2>3, ReturnType DEF RestoreEnds, DrawingTypeOK, StoreTypeOK, ControlTypeOK
<1>5. CASE Crash
  BY <1>5, ActiveTask, ReturnType DEF Crash, DrawingTypeOK, StoreTypeOK, ControlTypeOK
<1>6. CASE User
  <2>1. ASSUME NEW h \in Handle PROVE [entity EXCEPT ![h].shape = "edited"] \in [Handle -> Object]
    BY DEF DrawingTypeOK, Object
  <2>2. ASSUME UserEdit PROVE entity' \in [Handle -> Object]
    <3>1. PICK h \in Handle :
              \/ Erase(h)
              \/ entity' = [entity EXCEPT ![h].shape = "edited"]
              \/ \E layer \in UserLayers : SetLayer(h, layer)
      BY <2>2 DEF UserEdit
    <3>2. UserLayers \subseteq Layer
      OBVIOUS
    <3>3. "0" \in Layer
      BY DEF Layer
    <3> QED BY <2>1, <3>1, <3>2, <3>3, DrawingOps, RecordTypes
  <2> QED BY <1>6, <2>2 DEF User, UserEdit, DrawingTypeOK, StoreTypeOK
<1>7. CASE UNCHANGED vars
  BY <1>7 DEF DrawingTypeOK, StoreTypeOK
<1> QED
  BY <1>1, <1>2, <1>3, <1>4, <1>5, <1>6, <1>7, ExecuteStepType, CommitStepType, RevertStepType
     DEF Next, ServerStep

\* The types of the drawing, the store and the active call are kept by every
\* step of every handler, of a crash and of a user.
THEOREM TypeCorrect == Spec => []TypeOK
<1>1. Init => TypeOK
  BY InitTypes
<1>2. TypeOK /\ [Next]_vars => TypeOK'
  BY StepType
<1> QED BY <1>1, <1>2, PTL DEF Spec

-----------------------------------------------------------------------------
(* NoOrphan: an object without a row belongs to a call whose remaining     *)
(* steps record it or delete it.                                           *)

InFlight(t, i) ==
    /\ call.task = t
    /\ \/ pc = "draw" /\ i < at
       \/ pc \in {"finalize", "rollback", "undo"} /\ i <= at
       \/ pc = "result" /\ call.success
       \/ pc = "rows"

OrphanInv ==
    /\ pc = "rows" => call.success
    /\ \A t \in Task \ torn : \A i \in Created :
           Drawn(<<t, i>>) => entityRow[<<t, i>>].recorded \/ InFlight(t, i)

-----------------------------------------------------------------------------
(* RecordsAgree: an object whose XData differs from its row belongs to a   *)
(* commit or a revert that remembers the XData of the row.                 *)

ExecuteBefore == {"create", "revalidate", "draw", "finalize", "rollback", "result", "rows"}

\* The positions a commit or a revert has already tagged, or has to restore.
Changed(i) ==
    \/ pc \in {"commitLayer", "commitTag", "revertLayer", "revertTag"} /\ i < at
    \/ pc \in {"commitStore", "revertHide", "revertStore", "restore"} /\ i <= at

Agrees(h) == entityRow[h].tag # NoTag /\ Drawn(h) => entity[h].tag = entityRow[h].tag

\* The positions whose object has already got its provenance in this call.
Finalized(i) ==
    \/ pc \in {"draw", "finalize"} /\ i < at
    \/ pc = "result" /\ call.success
    \/ pc = "rows"

\* Before a plan is finished its task has no metadata in the store.
BlankRows ==
    \A h \in Handle :
        execution[h[1]] = "none" \/ (call.task = h[1] /\ pc \in ExecuteBefore)
        => entityRow[h].tag = NoTag

FreshTags ==
    pc # "idle" => \A i \in Created :
        Finalized(i) /\ Drawn(<<call.task, i>>) => entity[<<call.task, i>>].tag = PreviewTag

Agreement ==
    \A t \in Task \ torn : \A i \in Created :
        Agrees(<<t, i>>) \/ (call.task = t /\ Changed(i))

Remembered ==
    pc \in Presenting /\ call.task \notin torn => \A i \in Created :
        entityRow[<<call.task, i>>].tag # NoTag =>
            call.snapshot[i].tag = entityRow[<<call.task, i>>].tag

AgreeInv ==
    /\ pc = "rows" => call.success
    /\ pc # "idle" => execution[call.task] # "none"
    /\ \A t \in Task : taskStatus[t] # "none" => execution[t] # "none"
    /\ pc \in {"create", "revalidate", "draw", "finalize", "rollback"} => ~call.success
    /\ pc \in {"commitStore", "revertHide", "revertStore"} => at = PlanLength
    /\ BlankRows /\ FreshTags /\ Agreement /\ Remembered

-----------------------------------------------------------------------------
(* Where the loops are, and what a dimension the task does not own keeps.  *)

Foreign == Task \X LayoutOnly

LoopInv ==
    /\ pc \in {"finalize", "commitTag", "revertTag"} => at \in Created
    /\ pc \in {"commitStore", "revertHide", "revertStore"} => at = PlanLength
    /\ \A h \in Foreign : entity[h].tag = NoTag

-----------------------------------------------------------------------------
(* CommitIsAudited: the call compares with what the audit has seen.        *)

Committing == {"commitLayer", "commitTag", "commitStore"}
Reverting == {"revertLayer", "revertTag", "revertHide", "revertStore"}

AuditInv ==
    pc \in Committing /\ call.task \in AuditRequired =>
        /\ audit[call.task].passed
        /\ \A i \in Created : call.snapshot[i].shape = audit[call.task].snapshot[i].shape

-----------------------------------------------------------------------------
(* ApproximateStaysUncertain: what the loop of a commit has passed is on   *)
(* the layer of unresolved geometry, and what it has not will be.          *)

\* The position the loop of a commit is at already has its new layer.
Relayered(i) ==
    \/ pc \in {"commitLayer", "revertLayer"} /\ i < at
    \/ pc \in {"commitTag", "commitStore", "revertTag", "revertHide", "revertStore", "restore"} /\ i <= at

ApproximateInv ==
    /\ \A t \in Task, i \in Approximate : entityRow[<<t, i>>].formal \in {NoLayer, "AI_UNCERTAIN"}
    /\ pc \in Committing => \A i \in Approximate \cap Created :
           LET layer == entity[<<call.task, i>>].layer IN
           IF Relayered(i) THEN layer = "AI_UNCERTAIN"
           ELSE layer \in DOMAIN call.mapping /\ call.mapping[layer] = "AI_UNCERTAIN"

-----------------------------------------------------------------------------
(* LayersAgree: as for the XData, an object that is not on the layer of    *)
(* its row belongs to a call that remembers the layer.                     *)

OnRecordedLayer(h) == entityRow[h].recorded /\ Drawn(h) => entity[h].layer = entityRow[h].layer

\* No plan is executed twice, so that a row stays until a commit or a revert.
Unrecorded ==
    \A h \in Handle :
        execution[h[1]] = "none" \/ (call.task = h[1] /\ pc \in ExecuteBefore)
        => ~entityRow[h].recorded

OnPlanLayer ==
    pc # "idle" => \A i \in Created :
        Finalized(i) /\ Drawn(<<call.task, i>>) => entity[<<call.task, i>>].layer = PlanLayer[i]

LayersSettled ==
    \A t \in Task \ torn : \A i \in Created :
        OnRecordedLayer(<<t, i>>) \/ (call.task = t /\ Relayered(i))

LayersRemembered ==
    pc \in Presenting /\ call.task \notin torn => \A i \in Created :
        entityRow[<<call.task, i>>].recorded =>
            call.snapshot[i].layer = entityRow[<<call.task, i>>].layer

Isolated ==
    pc \in Reverting => \A i \in Created :
        Relayered(i) /\ Drawn(<<call.task, i>>) => entity[<<call.task, i>>].layer = REVERT_LAYER

LayerInv == Unrecorded /\ OnPlanLayer /\ LayersSettled /\ LayersRemembered /\ Isolated

-----------------------------------------------------------------------------
(* ExecutedIsComplete and StatusMatchesDrawing: the status a task keeps    *)
(* while a call works on it.                                               *)

Executing == ExecuteBefore \cup {"status", "undo", "exceptResult", "exceptStatus"}
Revertibles == {"executed", "verified", "committed", "failed"}

StatusDuringCall ==
    /\ pc \in Executing => taskStatus[call.task] \in {"none", "executing"}
    /\ pc \in Committing => ~call.reverting
    /\ pc \in Reverting => call.reverting
    /\ pc \in Committing \cup Reverting \cup {"restore"} =>
           taskStatus[call.task] \in IF call.reverting THEN Revertibles ELSE {"verified"}

CompleteSoFar ==
    /\ pc = "rows" \/ (pc = "status" /\ call.success) => execution[call.task] = "passed"
    /\ pc = "status" /\ call.success => \A i \in Position : entityRow[<<call.task, i>>].recorded

TagIs(t, i, statuses) == Drawn(<<t, i>>) => entity[<<t, i>>].tag.status \in statuses

\* What the loops have passed, and what a failing revert of a committed task
\* puts back.
Presented ==
    /\ pc \in Committing => \A i \in Created : Changed(i) => TagIs(call.task, i, {"committed"})
    /\ pc \in Reverting => \A i \in Created : Changed(i) => TagIs(call.task, i, {"reverted"})
    /\ pc = "revertStore" => ~revertLayerOn
    /\ pc \in Reverting \cup {"restore"} /\ taskStatus[call.task] = "committed" =>
           \A i \in Created : call.snapshot[i].tag.status \in {"committed", "reverted"}

\* The layer that a failing revert shows again was not hidden for another task.
LayerRemembered ==
    pc # "idle" /\ call.reverting /\ (\E t \in Task : taskStatus[t] = "reverted") =>
        ~call.layerWasOn

StatusInv ==
    /\ StatusDuringCall /\ CompleteSoFar /\ Presented /\ LayerRemembered
    /\ StatusMatchesDrawing /\ ExecutedIsComplete

-----------------------------------------------------------------------------
(* TasksAtomic: what a failing execution has still to delete, what a       *)
(* finished one has tagged, and what a commit or a revert remembers.       *)

\* The positions that have no object at this place of an execution.
Cleared(i) ==
    \/ pc \in {"create", "revalidate", "exceptResult", "exceptStatus"}
    \/ pc \in {"result", "status"} /\ ~call.success
    \/ pc = "draw" /\ i >= at
    \/ pc \in {"finalize", "rollback", "undo"} /\ i > at

NeverDrawn ==
    \A t \in Task : execution[t] = "none" => \A i \in Created : ~Drawn(<<t, i>>)

Underway == pc \in Executing \ {"create"} => taskStatus[call.task] = "executing"

ClearedOut ==
    pc \in Executing /\ call.task \notin torn =>
        \A i \in Created : Cleared(i) => ~Drawn(<<call.task, i>>)

FinishedTags ==
    pc = "status" /\ call.success => \A i \in Created : TagIs(call.task, i, {"preview"})

\* What a commit or a revert has not tagged is as the snapshot has it.
SnapshotHolds ==
    pc \in Presenting => \A i \in Created :
        /\ call.snapshot[i].tag.status # "untagged"
        /\ call.task \notin torn /\ Drawn(<<call.task, i>>) /\ ~Changed(i) =>
               entity[<<call.task, i>>].tag = call.snapshot[i].tag

AtomicInv == NeverDrawn /\ Underway /\ ClearedOut /\ FinishedTags /\ SnapshotHolds

-----------------------------------------------------------------------------
(* NoOrphan, proved.                                                       *)

\* What one handle keeps in a step that changes another, or only its layer,
\* tag or shape.
LEMMA DrawnOps ==
    ASSUME TypeOK, NEW h, NEW g \in Handle, NEW layer, NEW tag
    PROVE  /\ Erase(h) /\ Drawn(g)' => g # h /\ Drawn(g)
           /\ AddObject(h) /\ Drawn(g)' => g = h \/ Drawn(g)
           /\ SetLayer(h, layer) \/ SetTag(h, tag) \/ MoveText(h) => Drawn(g)' = Drawn(g)
BY DEF TypeOK, DrawingTypeOK, Object, Drawn, Erase, AddObject, SetLayer, SetTag, MoveText

\* What every step proof uses of TypeOK.
CallFacts ==
    /\ \A t \in Task, i \in Created : <<t, i>> \in Handle /\ i \in Nat /\ i <= PlanLength /\ i > 0
    /\ at \in Nat /\ at <= PlanLength /\ PlanLength \in Nat
    /\ pc \in Pc /\ ((pc = "idle") <=> (call.task = NoTask)) /\ call \in Call
    /\ pc # "idle" => call.task \in Task
    /\ \A i \in Created : i \in Nat /\ i <= PlanLength /\ i > 0
    /\ DOMAIN entity = Handle /\ DOMAIN entityRow = Handle
    /\ DOMAIN execution = Task /\ DOMAIN taskStatus = Task
    /\ \A h \in Handle : h[1] \in Task /\ h[2] \in Position /\ h = <<h[1], h[2]>>

LEMMA CallType == TypeOK => CallFacts
<1> SUFFICES ASSUME TypeOK PROVE CallFacts
  OBVIOUS
<1>1. \A t \in Task, i \in Created : <<t, i>> \in Handle /\ i \in Nat /\ i <= PlanLength /\ i > 0
  BY CreatedType, PositionType, HandleType
<1>2. at \in Nat /\ at <= PlanLength /\ PlanLength \in Nat
  BY DEF TypeOK
<1>3. /\ DOMAIN entity = Handle /\ DOMAIN entityRow = Handle
      /\ DOMAIN execution = Task /\ DOMAIN taskStatus = Task
  BY DEF TypeOK, DrawingTypeOK, StoreTypeOK
<1>4. \A h \in Handle : h[1] \in Task /\ h[2] \in Position /\ h = <<h[1], h[2]>>
  BY DEF Handle
<1>5. \A i \in Created : i \in Nat /\ i <= PlanLength /\ i > 0
  BY CreatedType, PositionType
<1> QED BY <1>1, <1>2, <1>3, <1>4, <1>5, ActiveTask DEF TypeOK, CallFacts

LEMMA OrphanExecute ==
    ASSUME TypeOK, OrphanInv, ExecuteStep
    PROVE  OrphanInv'
<1> USE DEF OrphanInv, InFlight, drawingVars, storeVars, fileVars
<1>t. CallFacts
  BY CallType
<1> USE DEF CallFacts
<1>1. ASSUME NEW t \in Task, ExecuteRecord(t) PROVE OrphanInv'
  BY <1>1, <1>t DEF ExecuteRecord, Begin, Return, record_execution, Drawn
<1>2. CASE ExecuteCreateTask
  BY <1>2, <1>t DEF ExecuteCreateTask, StoreCall, create_ai_task, Goto, Return, Drawn
<1>3. CASE ExecuteRevalidate
  BY <1>3, <1>t DEF ExecuteRevalidate, Goto, Drawn
<1>4. CASE DrawObject
  BY <1>4, <1>t DEF DrawObject, AddObject, Goto, Here, Drawn, NewObject
<1>5. CASE FinalizeObject
  <2>1. \A g \in Handle : Drawn(g)' = Drawn(g)
    BY <1>5 DEF FinalizeObject, Drawn, TypeOK, DrawingTypeOK, Object
  <2>2. UNCHANGED <<torn, entityRow>> /\ pc = "finalize" /\ Succeed("draw", "result")
    BY <1>5 DEF FinalizeObject
  <2> QED BY <2>1, <2>2, <1>t DEF Succeed, Call
<1>6. CASE LayoutDimension
  <2>1. \A g \in Handle : Drawn(g)' = Drawn(g)
    BY <1>6, DrawnOps DEF LayoutDimension
  <2>2. UNCHANGED <<torn, entityRow>> /\ pc = "draw" /\ Succeed("draw", "result") /\ at \notin Created
    BY <1>6 DEF LayoutDimension, Created
  <2> QED BY <2>1, <2>2, <1>t DEF Succeed, Call
<1>7. CASE DrawFails
  BY <1>7, <1>t DEF DrawFails, MoveText, Goto, Here, Drawn, Created
<1>8. CASE RollbackCreated
  <2>1. UNCHANGED entityRow /\ pc = "rollback" /\ Retreat("rollback")
    BY <1>8 DEF RollbackCreated
  <2>2. \/ torn' = torn \cup {call.task} /\ UNCHANGED entity
        \/ UNCHANGED torn /\ \A g \in Handle : g[2] \in Created /\ Drawn(g)' => Drawn(g) /\ g # Here
    BY <1>8, DrawnOps DEF RollbackCreated, RolledBack, ReportFailure, Drawn
  <2> QED BY <2>1, <2>2, <1>t DEF Retreat, Here, Drawn
<1>9. CASE RollbackEnds
  BY <1>9, <1>t DEF RollbackEnds, Goto, Drawn
<1>10. CASE StoreResult
  BY <1>10, <1>t DEF StoreResult, StoreCall, update_execution_result, Except, Goto, Drawn
<1>11. CASE StoreRows
  BY <1>11, <1>t DEF StoreRows, StoreCall, add_ai_task_entities, Except, Goto, Drawn
<1>12. CASE StoreStatus
  BY <1>12, <1>t DEF StoreStatus, StoreCall, update_ai_task, Except, Goto, Return, Drawn
<1>13. CASE UndoHandle
  <2>1. UNCHANGED entityRow /\ pc = "undo" /\ Retreat("undo")
    BY <1>13 DEF UndoHandle
  <2>2. \/ torn' = torn \cup {call.task} /\ UNCHANGED entity
        \/ UNCHANGED torn /\ \A g \in Handle : Drawn(g)' => Drawn(g) /\ g # Here
    BY <1>13, DrawnOps DEF UndoHandle, ReportFailure
  <2> QED BY <2>1, <2>2, <1>t DEF Retreat, Here, Drawn
<1>14. CASE UndoUnreachable
  BY <1>14, <1>t DEF UndoUnreachable, ReportFailure, Return, Drawn
<1>15. CASE UndoEnds
  BY <1>15, <1>t DEF UndoEnds, Goto, Drawn
<1>16. CASE ExceptResult \/ ExceptStatus
  BY <1>16, <1>t DEF ExceptResult, ExceptStatus, StoreCall, update_execution_result, update_ai_task,
                    Goto, Return, Drawn
<1> QED
  BY <1>1, <1>2, <1>3, <1>4, <1>5, <1>6, <1>7, <1>8, <1>9, <1>10, <1>11, <1>12, <1>13, <1>14,
     <1>15, <1>16 DEF ExecuteStep

\* Steps outside an execution: no object is in flight before or after.
LEMMA OrphanQuiet ==
    ASSUME TypeOK, OrphanInv,
           pc \in Presenting \cup {"idle"}, pc' # "rows", torn \subseteq torn',
           \A h \in Handle : entityRow[h].recorded => entityRow'[h].recorded,
           \A h \in Handle : Drawn(h)' => Drawn(h)
    PROVE  OrphanInv'
<1>1. \A t \in Task, i \in Created : <<t, i>> \in Handle
  BY CallType DEF CallFacts
<1> QED BY <1>1 DEF OrphanInv, InFlight, Presenting

LEMMA DrawnKept == UNCHANGED entity => \A h \in Handle : Drawn(h)' = Drawn(h)
BY DEF Drawn

LEMMA OrphanStep == TypeOK /\ OrphanInv /\ [Next]_vars => OrphanInv'
<1> SUFFICES ASSUME TypeOK, OrphanInv, [Next]_vars PROVE OrphanInv'
  OBVIOUS
<1> USE DrawnKept DEF drawingVars, storeVars, callVars, fileVars, vars
<1>1. CASE CommitStep
  <2>1. ASSUME NEW t \in Task, NEW layer_mapping \in LayerMappings, CommitBegin(t, layer_mapping)
        PROVE  OrphanInv'
    BY <2>1, OrphanQuiet DEF CommitBegin, Begin
  <2>2. CASE CommitLayer \/ CommitTag
    <3>1. \A h \in Handle : Drawn(h)' = Drawn(h)
      BY <2>2, DrawnOps DEF CommitLayer, CommitTag
    <3>2. UNCHANGED <<torn, entityRow>> /\ pc \in Presenting /\ pc' \in Presenting
      BY <2>2 DEF CommitLayer, CommitTag, Goto, Advance, Presenting
    <3> QED BY <3>1, <3>2, OrphanQuiet DEF Presenting
  <2>3. CASE CommitStore
    <3>1. \A h \in Handle : entityRow[h].recorded => entityRow'[h].recorded
      BY <2>3 DEF CommitStore, StoreCall, update_task_entities_and_status, TypeOK, StoreTypeOK
    <3>2. UNCHANGED <<entity, torn>> /\ pc = "commitStore" /\ pc' \in {"idle", "restore"}
      BY <2>3 DEF CommitStore, StoreCall, Return, Fails
    <3> QED BY <3>1, <3>2, OrphanQuiet DEF Presenting
  <2>4. CASE CommitFails \/ SkipLayoutOnly("commitLayer", "commitStore")
    BY <2>4, OrphanQuiet DEF CommitFails, SkipLayoutOnly, Fails, Advance, Presenting
  <2> QED BY <1>1, <2>1, <2>2, <2>3, <2>4 DEF CommitStep
<1>2. CASE RevertStep
  <2>1. ASSUME NEW t \in Task, NEW allow \in BOOLEAN, RevertBegin(t, allow) PROVE OrphanInv'
    BY <2>1, OrphanQuiet DEF RevertBegin, Begin
  <2>2. CASE RevertLayer \/ RevertTag
    <3>1. \A h \in Handle : Drawn(h)' = Drawn(h)
      BY <2>2, DrawnOps DEF RevertLayer, RevertTag
    <3>2. UNCHANGED <<torn, entityRow>> /\ pc \in Presenting /\ pc' \in Presenting
      BY <2>2 DEF RevertLayer, RevertTag, Advance, Presenting
    <3> QED BY <3>1, <3>2, OrphanQuiet DEF Presenting
  <2>3. CASE RevertHide
    BY <2>3, OrphanQuiet DEF RevertHide, Goto, Presenting
  <2>4. CASE RevertStore
    <3>1. UNCHANGED <<entity, torn>> /\ pc = "revertStore" /\ pc' \in {"idle", "restore"}
      BY <2>4 DEF RevertStore, StoreCall, Return, Fails
    <3>2. PICK unreadable \in SUBSET Created :
              StoreCall(
                  update_task_entities_and_status(call.task,
                      [h \in Handle |-> [entityRow[h] EXCEPT !.layer = REVERT_LAYER,
                                                             !.tag = ReadBackTag(h, unreadable)]],
                      "reverted"),
                  Return, Fails(0))
      BY <2>4 DEF RevertStore
    <3> DEFINE row == [h \in Handle |-> [entityRow[h] EXCEPT !.layer = REVERT_LAYER,
                                                             !.tag = ReadBackTag(h, unreadable)]]
    <3>3. ASSUME NEW h \in Handle PROVE row[h].recorded = entityRow[h].recorded
      <4>1. entityRow[h] \in Row
        BY DEF TypeOK, StoreTypeOK
      <4> QED BY <4>1 DEF Row
    <3> HIDE DEF row
    <3>4. UNCHANGED entityRow \/ update_task_entities_and_status(call.task, row, "reverted")
      BY <3>2 DEF StoreCall, row
    <3>5. \A h \in Handle : entityRow[h].recorded => entityRow'[h].recorded
      BY <3>3, <3>4 DEF update_task_entities_and_status
    <3> QED BY <3>1, <3>5, OrphanQuiet DEF Presenting
  <2>5. CASE RevertFails \/ SkipLayoutOnly("revertLayer", "revertHide")
    BY <2>5, OrphanQuiet DEF RevertFails, SkipLayoutOnly, Fails, Advance, Presenting
  <2> QED BY <1>2, <2>1, <2>2, <2>3, <2>4, <2>5 DEF RevertStep
<1>3. ASSUME NEW t \in Task, NEW exact \in BOOLEAN, VerifyExecution(t, exact) PROVE OrphanInv'
  BY <1>3, OrphanQuiet DEF VerifyExecution, update_ai_task
<1>4. ASSUME NEW t \in AuditRequired, NEW evidence \in BOOLEAN, RenderTaskAudit(t, evidence)
      PROVE  OrphanInv'
  BY <1>4, OrphanQuiet DEF RenderTaskAudit, save_audit
<1>5. CASE RestoreObject
  <2>1. \A h \in Handle : Drawn(h)' = Drawn(h)
    <3>1. ASSUME NEW old, Restored(Here, old) PROVE \A h \in Handle : Drawn(h)' = Drawn(h)
      BY <3>1 DEF Restored, Drawn, TypeOK, DrawingTypeOK, Object
    <3> QED BY <1>5, <3>1, DrawnOps DEF RestoreObject
  <2>2. UNCHANGED entityRow /\ torn \subseteq torn' /\ pc = "restore" /\ pc' = "restore"
    BY <1>5 DEF RestoreObject, Retreat, ReportFailure
  <2> QED BY <2>1, <2>2, OrphanQuiet DEF Presenting
<1>6. CASE RestoreEnds
  BY <1>6, OrphanQuiet DEF RestoreEnds, Return, ReportFailure, Presenting
<1>7. CASE Crash
  BY <1>7, CallType DEF Crash, Return, OrphanInv, InFlight, CallFacts
<1>8. CASE User
  <2>1. ASSUME UserEdit PROVE \A h \in Handle : Drawn(h)' => Drawn(h)
    <3>1. ASSUME NEW h, entity' = [entity EXCEPT ![h].shape = "edited"]
          PROVE  \A g \in Handle : Drawn(g)' = Drawn(g)
      BY <3>1 DEF Drawn, TypeOK, DrawingTypeOK, Object
    <3> QED BY <2>1, <3>1, DrawnOps DEF UserEdit
  <2>2. \A h \in Handle : Drawn(h)' => Drawn(h)
    BY <1>8, <2>1 DEF User
  <2> QED BY <1>8, <2>2, CallType DEF User, OrphanInv, InFlight, CallFacts
<1>9. CASE UNCHANGED vars
  BY <1>9, CallType DEF OrphanInv, InFlight, CallFacts
<1> QED
  BY <1>1, <1>2, <1>3, <1>4, <1>5, <1>6, <1>7, <1>8, <1>9, OrphanExecute DEF Next, ServerStep

\* An execution that failed at any step, in the drawing or in the store, leaves
\* no object behind that has no row, whatever users do meanwhile.
THEOREM NoOrphanHolds == Spec => []NoOrphan
<1>1. ASSUME Init PROVE OrphanInv
  <2>1. \A t \in Task, i \in Created : <<t, i>> \in Handle /\ i \notin LayoutOnly
    BY HandleType DEF Created
  <2>2. \A t \in Task, i \in Created : ~Drawn(<<t, i>>)
    BY <1>1, <2>1 DEF Init, DrawingInit, Drawn, Absent
  <2> QED BY <1>1, <2>2 DEF Init, OrphanInv
<1>2. TypeOK /\ OrphanInv /\ [Next]_vars => OrphanInv'
  BY OrphanStep
<1>3. OrphanInv => NoOrphan
  BY DEF OrphanInv, InFlight, NoOrphan, Settled
<1> QED BY <1>1, <1>2, <1>3, TypeCorrect, PTL DEF Spec

-----------------------------------------------------------------------------
(* RecordsAgree, proved.                                                   *)

\* A step that tags nothing and draws nothing.
TagsKept == \A h \in Handle : Drawn(h)' => Drawn(h) /\ entity'[h].tag = entity[h].tag

LEMMA TagsKeptOps ==
    ASSUME TypeOK
    PROVE  /\ UNCHANGED entity => TagsKept
           /\ \A h : Erase(h) \/ MoveText(h) => TagsKept
           /\ \A h, layer : SetLayer(h, layer) => TagsKept
           /\ UserEdit => TagsKept
<1> USE DEF TypeOK, DrawingTypeOK, Object, Drawn, TagsKept
<1>1. UNCHANGED entity => TagsKept
  OBVIOUS
<1>2. ASSUME NEW h PROVE Erase(h) \/ MoveText(h) => TagsKept
  BY DEF Erase, MoveText
<1>3. ASSUME NEW h, NEW layer PROVE SetLayer(h, layer) => TagsKept
  BY DEF SetLayer
<1>4. ASSUME NEW h, entity' = [entity EXCEPT ![h].shape = "edited"] PROVE TagsKept
  BY <1>4
<1>5. ASSUME UserEdit PROVE TagsKept
  <2> HIDE DEF TypeOK, DrawingTypeOK, Object, Drawn, TagsKept
  <2> QED BY <1>2, <1>3, <1>4, <1>5 DEF UserEdit
<1> HIDE DEF TypeOK, DrawingTypeOK, Object, Drawn, TagsKept
<1> QED BY <1>1, <1>2, <1>3, <1>5

LEMMA TagOps ==
    ASSUME TypeOK, NEW h \in Handle, NEW g \in Handle, NEW tag \in Tag
    PROVE  /\ SetTag(h, tag) => /\ Drawn(g)' = Drawn(g)
                                /\ entity'[g].tag = IF g = h THEN tag ELSE entity[g].tag
           /\ AddObject(h) => /\ g # h => Drawn(g)' = Drawn(g)
                              /\ entity'[g].tag = IF g = h THEN NoTag ELSE entity[g].tag
<1>1. ASSUME SetTag(h, tag)
      PROVE  /\ Drawn(g)' = Drawn(g)
             /\ entity'[g].tag = IF g = h THEN tag ELSE entity[g].tag
  BY <1>1 DEF TypeOK, DrawingTypeOK, Object, Drawn, SetTag
<1>2. ASSUME AddObject(h)
      PROVE  /\ g # h => Drawn(g)' = Drawn(g)
             /\ entity'[g].tag = IF g = h THEN NoTag ELSE entity[g].tag
  BY <1>2 DEF TypeOK, DrawingTypeOK, Drawn, AddObject, NewObject
<1> QED BY <1>1, <1>2

LEMMA AgreeExecute ==
    ASSUME TypeOK, AgreeInv, ExecuteStep, ReadBackFails = FALSE
    PROVE  AgreeInv'
<1>t. CallFacts
  BY CallType
<1> USE DEF CallFacts, AgreeInv, BlankRows, FreshTags, Agreement, Remembered, Agrees, Changed,
            Finalized, ExecuteBefore, Presenting, drawingVars, storeVars, fileVars
<1>1. ASSUME NEW t \in Task, ExecuteRecord(t) PROVE AgreeInv'
  BY <1>1, <1>t DEF ExecuteRecord, Begin, Return, record_execution, Drawn, NoCall
<1>2. CASE ExecuteCreateTask
  BY <1>2, <1>t DEF ExecuteCreateTask, StoreCall, create_ai_task, Goto, Return, Drawn
<1>3. CASE ExecuteRevalidate
  BY <1>3, <1>t DEF ExecuteRevalidate, Goto, Drawn
<1>4. CASE DrawObject
  <2>1. /\ pc = "draw" /\ pc' = "finalize" /\ Here = <<call.task, at>> /\ Here \in Handle
        /\ UNCHANGED <<at, call, entityRow, execution, taskStatus, torn>>
    BY <1>4, <1>t DEF DrawObject, Goto, Here
  <2>2. \A g \in Handle : g # Here => Drawn(g)' = Drawn(g) /\ entity'[g].tag = entity[g].tag
    BY <1>4, <2>1, <1>t DEF DrawObject, AddObject, Drawn
  <2>3. entityRow[Here].tag = NoTag
    BY <2>1, <1>t
  <2>4. BlankRows' /\ Remembered'
    BY <2>1, <1>t
  <2>5. FreshTags' /\ Agreement'
    BY <2>1, <2>2, <2>3, <1>t
  <2> QED BY <2>1, <2>4, <2>5
<1>5. CASE FinalizeObject
  <2>1. /\ pc = "finalize" /\ Here = <<call.task, at>>
        /\ UNCHANGED <<entityRow, execution, taskStatus, torn>>
        /\ \/ at = PlanLength /\ pc' = "result" /\ call' = [call EXCEPT !.success = TRUE]
           \/ pc' = "draw" /\ at' = at + 1 /\ UNCHANGED call
    BY <1>5 DEF FinalizeObject, Succeed, Here
  <2>2. call'.task = call.task /\ (pc' = "result" => at = PlanLength) /\ (pc' = "draw" => ~call'.success)
    BY <2>1, <1>t DEF Call
  <2>3. \A g \in Handle : /\ Drawn(g)' = Drawn(g)
                          /\ g # Here => entity'[g].tag = entity[g].tag
                          /\ g = Here => entity'[g].tag = PreviewTag
    BY <1>5 DEF FinalizeObject, Drawn, TypeOK, DrawingTypeOK, Object
  <2>4. Here \in Handle => entityRow[Here].tag = NoTag
    BY <2>1, <1>t
  <2>5. BlankRows' /\ Remembered'
    BY <2>1, <2>2, <1>t
  <2>6. FreshTags'
    BY <2>1, <2>2, <2>3, <1>t
  <2>7. Agreement'
    BY <2>1, <2>2, <2>3, <2>4, <1>t
  <2> QED BY <2>1, <2>2, <2>5, <2>6, <2>7
<1>6. CASE LayoutDimension
  <2>1. /\ pc = "draw" /\ at \notin Created
        /\ UNCHANGED <<entityRow, execution, taskStatus, torn>>
        /\ \/ at = PlanLength /\ pc' = "result" /\ call' = [call EXCEPT !.success = TRUE]
           \/ pc' = "draw" /\ at' = at + 1 /\ UNCHANGED call
    BY <1>6 DEF LayoutDimension, Succeed, Created
  <2>2. call'.task = call.task /\ (pc' = "result" => at = PlanLength) /\ (pc' = "draw" => ~call'.success)
    BY <2>1, <1>t DEF Call
  <2>3. TagsKept
    BY <1>6, TagsKeptOps DEF LayoutDimension
  <2>4. BlankRows' /\ Remembered'
    BY <2>1, <2>2, <1>t
  <2>5. FreshTags' /\ Agreement'
    BY <2>1, <2>2, <2>3, <1>t DEF TagsKept
  <2> QED BY <2>1, <2>2, <2>4, <2>5
<1>7. CASE DrawFails
  BY <1>7, <1>t, TagsKeptOps DEF TagsKept, DrawFails, Goto
<1>8. CASE RollbackCreated
  BY <1>8, <1>t, TagsKeptOps DEF TagsKept, RollbackCreated, ReportFailure, Retreat
<1>9. CASE RollbackEnds
  BY <1>9, <1>t DEF RollbackEnds, Goto, Drawn
<1>10. CASE StoreResult
  BY <1>10, <1>t DEF StoreResult, StoreCall, update_execution_result, Except, Goto, Drawn
<1>11. CASE StoreRows
  <2>1. /\ pc = "rows" /\ pc' \in {"status", "undo"}
        /\ UNCHANGED <<entity, call, execution, taskStatus, torn>>
        /\ \/ UNCHANGED entityRow
           \/ \A h \in Handle :
                  /\ h[1] # call.task => entityRow'[h].tag = entityRow[h].tag
                  /\ h[1] = call.task /\ h[2] \in Created => entityRow'[h].tag = PreviewTag
    BY <1>11, <1>t DEF StoreRows, StoreCall, add_ai_task_entities, Except, Goto
  <2>2. \A i \in Created : Drawn(<<call.task, i>>) => entity[<<call.task, i>>].tag = PreviewTag
    BY <2>1
  <2> QED BY <2>1, <2>2, <1>t DEF Drawn
<1>12. CASE StoreStatus
  BY <1>12, <1>t DEF StoreStatus, StoreCall, update_ai_task, Except, Goto, Return, Drawn
<1>13. CASE UndoHandle
  BY <1>13, <1>t, TagsKeptOps DEF TagsKept, UndoHandle, ReportFailure, Retreat
<1>14. CASE UndoUnreachable
  BY <1>14, <1>t DEF UndoUnreachable, ReportFailure, Return, Drawn
<1>15. CASE UndoEnds
  BY <1>15, <1>t DEF UndoEnds, Goto, Drawn
<1>16. CASE ExceptResult \/ ExceptStatus
  BY <1>16, <1>t DEF ExceptResult, ExceptStatus, StoreCall, update_execution_result, update_ai_task,
                    Goto, Return, Drawn
<1> QED
  BY <1>1, <1>2, <1>3, <1>4, <1>5, <1>6, <1>7, <1>8, <1>9, <1>10, <1>11, <1>12, <1>13, <1>14,
     <1>15, <1>16 DEF ExecuteStep

\* The transaction of a commit or a revert, or its failure.
LEMMA AgreePresented ==
    ASSUME TypeOK, AgreeInv, pc \in {"commitStore", "revertStore"},
           UNCHANGED <<entity, execution, torn>>,
           \/ /\ pc' = "idle" /\ call'.task = NoTask
              /\ \A t \in Task : taskStatus'[t] # taskStatus[t] => t = call.task
              /\ \A h \in Handle :
                     \/ entityRow'[h].tag = entityRow[h].tag /\ (h[1] # call.task \/ h[2] \notin Created)
                     \/ h[1] = call.task /\ entityRow'[h].tag \in {NoTag, entity[h].tag}
           \/ /\ pc' = "restore" /\ UNCHANGED <<at, call, taskStatus>>
              /\ \A h \in Handle : entityRow'[h].tag = entityRow[h].tag
    PROVE  AgreeInv'
<1>t. CallFacts
  BY CallType
<1> USE DEF CallFacts, AgreeInv, BlankRows, FreshTags, Agreement, Remembered, Agrees, Changed,
            Finalized, ExecuteBefore, Presenting
<1>1. BlankRows'
  BY <1>t
<1>2. FreshTags' /\ Remembered'
  BY <1>t
<1>3. Agreement'
  <2> SUFFICES ASSUME NEW t \in Task \ torn, NEW i \in Created
               PROVE  Agrees(<<t, i>>)' \/ (call'.task = t /\ Changed(i)')
    OBVIOUS
  <2> DEFINE h == <<t, i>>
  <2>1. h \in Handle /\ h[1] = t /\ h[2] = i /\ Drawn(h)' = Drawn(h)
    BY <1>t DEF Drawn
  <2>2. CASE pc' = "idle"
    BY <1>t, <2>1, <2>2
  <2>3. CASE pc' = "restore"
    BY <1>t, <2>1, <2>3
  <2> QED BY <2>2, <2>3
<1> QED BY <1>1, <1>2, <1>3, <1>t

LEMMA AgreeCommit ==
    ASSUME TypeOK, AgreeInv, CommitStep, ReadBackFails = FALSE
    PROVE  AgreeInv'
<1>t. CallFacts
  BY CallType
<1> USE DEF CallFacts, AgreeInv, BlankRows, FreshTags, Agreement, Remembered, Agrees, Changed,
            Finalized, ExecuteBefore, Presenting, drawingVars, storeVars, fileVars
<1>1. ASSUME NEW t \in Task, NEW layer_mapping \in LayerMappings, CommitBegin(t, layer_mapping)
      PROVE  AgreeInv'
  <2>1. /\ pc = "idle" /\ pc' = "commitLayer" /\ at' = 1 /\ call'.task = t
        /\ call'.snapshot = Snapshot(t)
        /\ taskStatus[t] = "verified" /\ OwnedLoaded(t)
        /\ UNCHANGED <<entity, entityRow, execution, taskStatus, torn>>
    BY <1>1 DEF CommitBegin, Begin, NoCall
  <2>2. \A i \in Created : Drawn(<<t, i>>) /\ call'.snapshot[i].tag = entity[<<t, i>>].tag
    BY <2>1, CreatedType DEF OwnedLoaded, ProvesOwnership, Snapshot
  <2> QED BY <2>1, <2>2, <1>t DEF Drawn
<1>2. CASE CommitLayer
  <2>1. TagsKept
    BY <1>2, TagsKeptOps DEF CommitLayer
  <2> QED BY <1>2, <2>1, <1>t DEF CommitLayer, Goto, TagsKept
<1>3. CASE CommitTag
  <2>1. /\ pc = "commitTag" /\ UNCHANGED <<entityRow, execution, taskStatus, torn, call>>
        /\ \/ at = PlanLength /\ pc' = "commitStore" /\ at' = at
           \/ at # PlanLength /\ pc' = "commitLayer" /\ at' = at + 1
    BY <1>3 DEF CommitTag, Advance
  <2>2. \A g \in Handle : Drawn(g)' = Drawn(g) /\ (g # Here => entity'[g].tag = entity[g].tag)
    BY <1>3 DEF CommitTag, SetTag, Drawn, TypeOK, DrawingTypeOK, Object
  <2>3. Here = <<call.task, at>>
    BY DEF Here
  <2> QED BY <2>1, <2>2, <2>3, <1>t
<1>4. CASE CommitStore
  <2>1. /\ pc = "commitStore" /\ UNCHANGED <<entity, execution, torn>>
        /\ \/ pc' = "idle" /\ call' = NoCall
              /\ taskStatus' = [taskStatus EXCEPT ![call.task] = "committed"]
              /\ \E unreadable : \A h \in Handle :
                     entityRow'[h].tag = IF h[1] = call.task /\ h[2] \in Created
                                         THEN ReadBackTag(h, unreadable) ELSE entityRow[h].tag
           \/ pc' = "restore" /\ UNCHANGED <<at, call, taskStatus, entityRow>>
    BY <1>4 DEF CommitStore, StoreCall, update_task_entities_and_status, Return, Fails
  <2> QED BY <2>1, <1>t, AgreePresented DEF ReadBackTag, NoCall
<1>5. CASE CommitFails
  BY <1>5, <1>t DEF CommitFails, Fails, Drawn
<1>6. CASE SkipLayoutOnly("commitLayer", "commitStore")
  BY <1>6, <1>t DEF SkipLayoutOnly, Advance, Drawn, Created
<1> QED BY <1>1, <1>2, <1>3, <1>4, <1>5, <1>6 DEF CommitStep

LEMMA AgreeRevert ==
    ASSUME TypeOK, AgreeInv, RevertStep, ReadBackFails = FALSE
    PROVE  AgreeInv'
<1>t. CallFacts
  BY CallType
<1> USE DEF CallFacts, AgreeInv, BlankRows, FreshTags, Agreement, Remembered, Agrees, Changed,
            Finalized, ExecuteBefore, Presenting, drawingVars, storeVars, fileVars
<1>1. ASSUME NEW t \in Task, NEW allow \in BOOLEAN, RevertBegin(t, allow) PROVE AgreeInv'
  <2>1. /\ pc = "idle" /\ pc' = "revertLayer" /\ at' = 1 /\ call'.task = t
        /\ call'.snapshot = Snapshot(t)
        /\ taskStatus[t] # "none" /\ OwnedLoaded(t)
        /\ UNCHANGED <<entity, entityRow, execution, taskStatus, torn>>
    BY <1>1 DEF RevertBegin, Begin, NoCall, Revertible
  <2>2. \A i \in Created : Drawn(<<t, i>>) /\ call'.snapshot[i].tag = entity[<<t, i>>].tag
    BY <2>1, CreatedType DEF OwnedLoaded, ProvesOwnership, Snapshot
  <2> QED BY <2>1, <2>2, <1>t DEF Drawn
<1>2. CASE RevertLayer
  <2>1. TagsKept
    BY <1>2, TagsKeptOps DEF RevertLayer
  <2>2. /\ pc = "revertLayer" /\ pc' = "revertTag" /\ at' = at
        /\ call'.task = call.task /\ call'.snapshot = call.snapshot
        /\ UNCHANGED <<entityRow, execution, taskStatus, torn>>
    BY <1>2, <1>t DEF RevertLayer, Call
  <2> QED BY <2>1, <2>2, <1>t DEF TagsKept
<1>3. CASE RevertTag
  <2>1. /\ pc = "revertTag" /\ UNCHANGED <<entityRow, execution, taskStatus, torn, call>>
        /\ \/ at = PlanLength /\ pc' = "revertHide" /\ at' = at
           \/ at # PlanLength /\ pc' = "revertLayer" /\ at' = at + 1
    BY <1>3 DEF RevertTag, Advance
  <2>2. \A g \in Handle : Drawn(g)' = Drawn(g) /\ (g # Here => entity'[g].tag = entity[g].tag)
    BY <1>3 DEF RevertTag, SetTag, Drawn, TypeOK, DrawingTypeOK, Object
  <2>3. Here = <<call.task, at>>
    BY DEF Here
  <2> QED BY <2>1, <2>2, <2>3, <1>t
<1>4. CASE RevertHide
  BY <1>4, <1>t DEF RevertHide, Goto, Drawn
<1>5. CASE RevertStore
  <2>1. PICK unreadable \in SUBSET Created :
            StoreCall(
                update_task_entities_and_status(call.task,
                    [h \in Handle |-> [entityRow[h] EXCEPT !.layer = REVERT_LAYER,
                                                           !.tag = ReadBackTag(h, unreadable)]],
                    "reverted"),
                Return, Fails(0))
    BY <1>5 DEF RevertStore
  <2> DEFINE row == [h \in Handle |-> [entityRow[h] EXCEPT !.layer = REVERT_LAYER,
                                                           !.tag = ReadBackTag(h, unreadable)]]
  <2>2. ASSUME NEW h \in Handle PROVE row[h].tag = ReadBackTag(h, unreadable)
    <3>1. entityRow[h] \in Row
      BY DEF TypeOK, StoreTypeOK
    <3> QED BY <3>1 DEF Row
  <2> HIDE DEF row
  <2>3. \/ update_task_entities_and_status(call.task, row, "reverted") /\ Return
        \/ UNCHANGED storeVars /\ Fails(0)
    BY <2>1 DEF StoreCall, row
  <2>4. /\ pc = "revertStore" /\ UNCHANGED <<entity, execution, torn>>
        /\ \/ pc' = "idle" /\ call' = NoCall
              /\ taskStatus' = [taskStatus EXCEPT ![call.task] = "reverted"]
              /\ \A h \in Handle :
                     entityRow'[h].tag = IF h[1] = call.task /\ h[2] \in Created
                                         THEN ReadBackTag(h, unreadable) ELSE entityRow[h].tag
           \/ pc' = "restore" /\ UNCHANGED <<at, call, taskStatus, entityRow>>
    <3>1. pc = "revertStore" /\ UNCHANGED <<entity, torn>>
      BY <1>5 DEF RevertStore
    <3>2. CASE update_task_entities_and_status(call.task, row, "reverted") /\ Return
      BY <2>2, <3>1, <3>2 DEF update_task_entities_and_status, Return
    <3>3. CASE UNCHANGED storeVars /\ Fails(0)
      BY <3>1, <3>3, <1>t DEF Fails
    <3> QED BY <2>3, <3>2, <3>3
  <2> QED BY <2>4, <1>t, AgreePresented DEF ReadBackTag, NoCall
<1>6. CASE RevertFails
  BY <1>6, <1>t DEF RevertFails, Fails, Drawn
<1>7. CASE SkipLayoutOnly("revertLayer", "revertHide")
  BY <1>7, <1>t DEF SkipLayoutOnly, Advance, Drawn, Created
<1> QED BY <1>1, <1>2, <1>3, <1>4, <1>5, <1>6, <1>7 DEF RevertStep

LEMMA AgreeStep ==
    ASSUME TypeOK, AgreeInv, [Next]_vars, ReadBackFails = FALSE
    PROVE  AgreeInv'
<1>t. CallFacts
  BY CallType
<1> USE DEF CallFacts, AgreeInv, BlankRows, FreshTags, Agreement, Remembered, Agrees, Changed,
            Finalized, ExecuteBefore, Presenting, drawingVars, storeVars, callVars, fileVars, vars
<1>1. ASSUME NEW t \in Task, NEW exact \in BOOLEAN, VerifyExecution(t, exact) PROVE AgreeInv'
  BY <1>1, <1>t DEF VerifyExecution, update_ai_task, Drawn
<1>2. ASSUME NEW t \in AuditRequired, NEW evidence \in BOOLEAN, RenderTaskAudit(t, evidence)
      PROVE  AgreeInv'
  BY <1>2, <1>t DEF RenderTaskAudit, save_audit, Drawn
<1>3. CASE RestoreObject
  <2>1. /\ pc = "restore" /\ pc' = "restore" /\ at > 0 /\ at' = at - 1
        /\ UNCHANGED <<call, entityRow, execution, taskStatus>>
        /\ Here = <<call.task, at>>
    BY <1>3 DEF RestoreObject, Retreat, Here
  <2>2. BlankRows' /\ FreshTags'
    BY <2>1, <1>t
  <2>3. CASE at \in LayoutOnly /\ UNCHANGED <<entity, torn>>
    BY <2>1, <2>2, <2>3, <1>t DEF Drawn, Created
  <2>4. CASE Restored(Here, call.snapshot[at]) /\ UNCHANGED torn
    <3>1. \A g \in Handle :
              /\ Drawn(g)' = Drawn(g)
              /\ entity'[g].tag = IF g = Here THEN call.snapshot[at].tag ELSE entity[g].tag
      BY <2>4 DEF Restored, Drawn, TypeOK, DrawingTypeOK, Object
    <3> QED BY <2>1, <2>2, <2>4, <3>1, <1>t
  <2>5. CASE ReportFailure /\ (UNCHANGED entity \/ SetLayer(Here, call.snapshot[at].layer))
    <3>1. TagsKept
      BY <2>5, TagsKeptOps
    <3> QED BY <2>1, <2>2, <2>5, <3>1, <1>t DEF ReportFailure, TagsKept
  <2> QED BY <1>3, <2>3, <2>4, <2>5 DEF RestoreObject
<1>4. CASE RestoreEnds
  BY <1>4, <1>t DEF RestoreEnds, Return, ReportFailure, Drawn, NoCall
<1>5. CASE Crash
  BY <1>5, <1>t DEF Crash, Return, Drawn, NoCall
<1>6. CASE User
  <2>1. TagsKept
    BY <1>6, TagsKeptOps DEF User
  <2> QED BY <1>6, <2>1, <1>t DEF User, TagsKept
<1>7. CASE UNCHANGED vars
  BY <1>7, <1>t DEF Drawn
<1> QED
  BY <1>1, <1>2, <1>3, <1>4, <1>5, <1>6, <1>7, AgreeExecute, AgreeCommit, AgreeRevert
     DEF Next, ServerStep

LEMMA AgreeHolds ==
    ASSUME ReadBackFails = FALSE
    PROVE  Spec => []AgreeInv
<1>1. ASSUME Init PROVE AgreeInv
  <2>1. \A h \in Handle : entityRow[h].tag = NoTag
    BY <1>1 DEF Init, StoreInit, NoRow
  <2>2. \A t \in Task, i \in Created : <<t, i>> \in Handle
    BY CreatedType, HandleType
  <2> QED
    BY <1>1, <2>1, <2>2
       DEF Init, StoreInit, AgreeInv, BlankRows, FreshTags, Agreement, Remembered, Agrees,
           Presenting
<1>2. TypeOK /\ AgreeInv /\ [Next]_vars => AgreeInv'
  BY AgreeStep
<1> QED BY <1>1, <1>2, TypeCorrect, PTL DEF Spec

\* As long as the reads that end the store's methods succeed, the metadata the
\* store has of an object is the XData of the object, whatever fails, crashes
\* in other tasks or is edited by users.
THEOREM RecordsAgreeHolds ==
    ASSUME ReadBackFails = FALSE
    PROVE  Spec => []RecordsAgree
<1>1. AgreeInv => RecordsAgree
  BY DEF AgreeInv, Agreement, Agrees, RecordsAgree, Settled
<1> QED BY <1>1, AgreeHolds, PTL

-----------------------------------------------------------------------------
(* ForeignUntouched, proved.                                               *)

\* A step that changes one object at most, and one that changes no dimension
\* the task does not own beyond its text.
OnlyAt(h) == \A g \in Handle : g # h => entity'[g] = entity[g]
ForeignKept ==
    \A h \in Foreign : entity'[h] = [entity[h] EXCEPT !.shape = entity'[h].shape]

LEMMA OnlyAtOps ==
    ASSUME TypeOK, NEW h
    PROVE  /\ UNCHANGED entity \/ AddObject(h) \/ Erase(h) \/ MoveText(h) => OnlyAt(h)
           /\ \A layer, tag : SetLayer(h, layer) \/ SetTag(h, tag) => OnlyAt(h)
           /\ \A old : Restored(h, old) => OnlyAt(h)
BY DEF OnlyAt, AddObject, Erase, MoveText, SetLayer, SetTag, Restored, TypeOK, DrawingTypeOK

LEMMA ForeignOps ==
    ASSUME TypeOK
    PROVE  /\ UNCHANGED entity => ForeignKept
           /\ \A h : MoveText(h) => ForeignKept
           /\ \A t \in Task, i \in Created : OnlyAt(<<t, i>>) => ForeignKept
<1>1. ASSUME NEW g \in Foreign
      PROVE  /\ g \in Handle
             /\ entity[g] = [entity[g] EXCEPT !.shape = entity[g].shape]
  BY CreatedType DEF Foreign, Handle, TypeOK, DrawingTypeOK, Object
<1>2. UNCHANGED entity => ForeignKept
  BY <1>1 DEF ForeignKept
<1>3. ASSUME NEW h, MoveText(h) PROVE ForeignKept
  <2>1. ASSUME NEW g \in Foreign
        PROVE  entity'[g] = [entity[g] EXCEPT !.shape = entity'[g].shape]
    <3>1. CASE g = h
      BY <1>1, <1>3, <3>1 DEF MoveText, TypeOK, DrawingTypeOK, Object
    <3>2. CASE g # h
      BY <1>1, <1>3, <3>2 DEF MoveText, TypeOK, DrawingTypeOK
    <3> QED BY <3>1, <3>2
  <2> QED BY <2>1 DEF ForeignKept
<1>4. ASSUME NEW t \in Task, NEW i \in Created, OnlyAt(<<t, i>>) PROVE ForeignKept
  <2>1. \A g \in Foreign : g # <<t, i>>
    BY DEF Foreign, Created
  <2> QED BY <1>1, <1>4, <2>1 DEF ForeignKept, OnlyAt
<1> QED BY <1>2, <1>3, <1>4

\* What the server does to the dimensions a task does not own.
LEMMA ForeignServer ==
    ASSUME TypeOK, LoopInv, ServerStep \/ Crash
    PROVE  ForeignKept
<1> USE DEF drawingVars
<1>1. CASE UNCHANGED entity
  BY <1>1, ForeignOps
<1>2. CASE at \in LayoutOnly /\ MoveText(Here)
  BY <1>2, ForeignOps
<1>3. CASE pc # "idle" /\ at \in Created /\ OnlyAt(Here)
  BY <1>3, ForeignOps, ActiveTask DEF Here
<1>4. ASSUME ExecuteStep
      PROVE  \/ UNCHANGED entity
             \/ at \in LayoutOnly /\ MoveText(Here)
             \/ pc # "idle" /\ at \in Created /\ OnlyAt(Here)
  <2>1. CASE DrawObject
    BY <2>1, OnlyAtOps DEF DrawObject
  <2>2. CASE FinalizeObject
    <3>1. OnlyAt(Here)
      BY <2>2 DEF FinalizeObject, OnlyAt, TypeOK, DrawingTypeOK
    <3> QED BY <2>2, <3>1 DEF FinalizeObject, LoopInv
  <2>3. CASE LayoutDimension \/ DrawFails
    BY <2>3 DEF LayoutDimension, DrawFails
  <2>4. CASE RollbackCreated
    BY <2>4, OnlyAtOps DEF RollbackCreated, RolledBack, Here
  <2>5. CASE UndoHandle
    <3>1. ASSUME UndoDeletes(Here), pc = "undo", at > 0 PROVE at \in Created
      <4>1. at \in Position /\ call.task \in Task
        BY <3>1, ActiveTask DEF TypeOK, Position
      <4> QED BY <3>1, <4>1 DEF UndoDeletes, Foreign, ProvesOwnership, Here, LoopInv, Created, NoTag
    <3> QED BY <2>5, <3>1, OnlyAtOps DEF UndoHandle
  <2> QED
    BY <1>4, <2>1, <2>2, <2>3, <2>4, <2>5
       DEF ExecuteStep, ExecuteRecord, ExecuteCreateTask, ExecuteRevalidate, RollbackEnds,
           StoreResult, StoreRows, StoreStatus, UndoUnreachable, UndoEnds, ExceptResult,
           ExceptStatus
<1>5. ASSUME CommitStep
      PROVE  UNCHANGED entity \/ (pc # "idle" /\ at \in Created /\ OnlyAt(Here))
  BY <1>5, OnlyAtOps
     DEF CommitStep, CommitBegin, CommitLayer, CommitTag, CommitStore, CommitFails, SkipLayoutOnly,
         LoopInv
<1>6. ASSUME RevertStep
      PROVE  UNCHANGED entity \/ (pc # "idle" /\ at \in Created /\ OnlyAt(Here))
  BY <1>6, OnlyAtOps
     DEF RevertStep, RevertBegin, RevertLayer, RevertTag, RevertHide, RevertStore, RevertFails,
         SkipLayoutOnly, LoopInv
<1>7. ASSUME RestoreObject
      PROVE  UNCHANGED entity \/ (pc # "idle" /\ at \in Created /\ OnlyAt(Here))
  BY <1>7, OnlyAtOps DEF RestoreObject
<1> QED
  BY <1>1, <1>2, <1>3, <1>4, <1>5, <1>6, <1>7
     DEF ServerStep, Crash, RestoreEnds, VerifyExecution, RenderTaskAudit

LEMMA LoopStep == TypeOK /\ LoopInv /\ [Next]_vars => LoopInv'
<1> SUFFICES ASSUME TypeOK, LoopInv, [Next]_vars PROVE LoopInv'
  OBVIOUS
<1>t. CallFacts
  BY CallType
<1>1. \A h \in Foreign : entity'[h].tag = entity[h].tag
  <2>1. \A h \in Foreign : entity[h] \in Object /\ h \in Handle
    BY CreatedType DEF Foreign, Handle, TypeOK, DrawingTypeOK
  <2>2. CASE ForeignKept
    <3>1. ASSUME NEW h \in Foreign PROVE entity'[h].tag = entity[h].tag
      <4>1. entity'[h] = [entity[h] EXCEPT !.shape = entity'[h].shape]
        BY <2>2 DEF ForeignKept
      <4>2. ASSUME NEW o \in Object, NEW shape PROVE [o EXCEPT !.shape = shape].tag = o.tag
        BY DEF Object
      <4>3. \A shape : [entity[h] EXCEPT !.shape = shape].tag = entity[h].tag
        BY <2>1, <4>2, Zenon
      <4>4. [entity[h] EXCEPT !.shape = entity'[h].shape].tag = entity[h].tag
        BY <4>3, Zenon
      <4> QED BY <4>1, <4>4, Zenon
    <3> QED BY <3>1
  <2>3. CASE UserEdit
    BY <2>1, <2>3 DEF UserEdit, Erase, SetLayer, TypeOK, DrawingTypeOK, Object
  <2>4. UserEdit \/ UNCHANGED entity \/ ServerStep \/ Crash
    BY DEF Next, User, drawingVars, vars
  <2> QED BY <2>2, <2>3, <2>4, ForeignServer, ForeignOps
<1>2. /\ pc' \in {"finalize", "commitTag", "revertTag"} => at' \in Created
      /\ pc' \in {"commitStore", "revertHide", "revertStore"} => at' = PlanLength
  <2> USE DEF LoopInv
  <2>1. CASE ExecuteStep
    BY <2>1, <1>t
       DEF CallFacts, ExecuteStep, ExecuteRecord, ExecuteCreateTask, ExecuteRevalidate, DrawObject,
           FinalizeObject, LayoutDimension, DrawFails, RollbackCreated, RollbackEnds, StoreResult,
           StoreRows, StoreStatus, UndoHandle, UndoUnreachable, UndoEnds, ExceptResult,
           ExceptStatus, StoreCall, Except, Succeed, Begin, Goto, Return, Retreat
  <2>2. CASE CommitStep
    BY <2>2, <1>t
       DEF CallFacts, CommitStep, CommitBegin, CommitLayer, CommitTag, CommitStore, CommitFails,
           SkipLayoutOnly, StoreCall, Begin, Goto, Return, Advance, Fails
  <2>3. CASE RevertStep
    BY <2>3, <1>t
       DEF CallFacts, RevertStep, RevertBegin, RevertLayer, RevertTag, RevertHide, RevertStore,
           RevertFails, SkipLayoutOnly, StoreCall, Begin, Goto, Return, Advance, Fails
  <2>4. CASE RestoreObject \/ RestoreEnds \/ Crash
    BY <2>4 DEF RestoreObject, RestoreEnds, Crash, Retreat, Return
  <2>5. CASE UNCHANGED callVars
    BY <2>5 DEF callVars
  <2> QED
    BY <2>1, <2>2, <2>3, <2>4, <2>5
       DEF Next, ServerStep, User, VerifyExecution, RenderTaskAudit, vars, callVars
<1> QED BY <1>1, <1>2 DEF LoopInv, Foreign

LEMMA LoopHolds == Spec => []LoopInv
<1>1. Init => LoopInv
  <2>1. \A h \in Foreign : h \in Handle /\ h[2] \in LayoutOnly
    BY CreatedType DEF Foreign, Handle
  <2> QED BY <2>1 DEF Init, DrawingInit, LoopInv, UserDimension, Foreign
<1>2. TypeOK /\ LoopInv /\ [Next]_vars => LoopInv'
  BY LoopStep
<1> QED BY <1>1, <1>2, TypeCorrect, PTL DEF Spec

\* No step of a server call erases, moves or tags a dimension its task does
\* not own, whatever the plan and whatever has been done to the drawing.
THEOREM ForeignUntouchedHolds == Spec => ForeignUntouched
<1>1. ASSUME TypeOK, LoopInv, [Next]_vars, ~(UNCHANGED callVars)
      PROVE  ForeignKept
  BY <1>1, ForeignServer DEF Next, User, callVars, vars
<1>2. TypeOK /\ LoopInv /\ [Next]_vars =>
        [~(UNCHANGED callVars) =>
            \A h \in Task \X LayoutOnly :
                entity'[h] = [entity[h] EXCEPT !.shape = entity'[h].shape]]_vars
  BY <1>1 DEF ForeignKept, Foreign
<1> QED BY <1>2, TypeCorrect, LoopHolds, PTL DEF Spec, ForeignUntouched

-----------------------------------------------------------------------------
(* CommitIsAudited, proved.                                                *)

\* Only a commit that begins enters the steps of a commit, and none of these
\* steps changes what the call holds or the audits.
LEMMA CommittingKept ==
    ASSUME [Next]_vars, pc' \in Committing,
           \A t \in Task, layer_mapping \in LayerMappings : ~CommitBegin(t, layer_mapping)
    PROVE  pc \in Committing /\ UNCHANGED <<call, audit>>
<1> USE DEF Committing, storeVars, callVars, vars
<1>1. CASE ExecuteStep
  BY <1>1
     DEF ExecuteStep, ExecuteRecord, ExecuteCreateTask, ExecuteRevalidate, DrawObject,
         FinalizeObject, LayoutDimension, DrawFails, RollbackCreated, RollbackEnds, StoreResult,
         StoreRows, StoreStatus, UndoHandle, UndoUnreachable, UndoEnds, ExceptResult, ExceptStatus,
         StoreCall, Except, Succeed, Begin, Goto, Return, Retreat
<1>2. CASE CommitStep
  BY <1>2
     DEF CommitStep, CommitLayer, CommitTag, CommitStore, CommitFails, SkipLayoutOnly, StoreCall,
         Goto, Return, Advance, Fails
<1>3. CASE RevertStep
  BY <1>3 DEF RevertStep, RevertBegin, RevertLayer, RevertTag, RevertHide, RevertStore, RevertFails,
              SkipLayoutOnly, StoreCall, Begin, Goto, Return, Advance, Fails
<1>4. CASE RestoreObject \/ RestoreEnds \/ Crash
  BY <1>4 DEF RestoreObject, RestoreEnds, Crash, Retreat, Return
<1>5. ASSUME NEW t \in Task, NEW exact \in BOOLEAN, VerifyExecution(t, exact) PROVE pc' = "idle"
  BY <1>5 DEF VerifyExecution
<1>6. ASSUME NEW t \in AuditRequired, NEW evidence \in BOOLEAN, RenderTaskAudit(t, evidence)
      PROVE  pc' = "idle"
  BY <1>6 DEF RenderTaskAudit
<1>7. CASE User \/ UNCHANGED vars
  BY <1>7 DEF User
<1> QED BY <1>1, <1>2, <1>3, <1>4, <1>5, <1>6, <1>7 DEF Next, ServerStep

LEMMA AuditStep == TypeOK /\ AuditInv /\ [Next]_vars => AuditInv'
<1> SUFFICES ASSUME TypeOK, AuditInv, [Next]_vars, pc' \in Committing, call'.task \in AuditRequired
             PROVE  /\ audit'[call'.task].passed
                    /\ \A i \in Created :
                           call'.snapshot[i].shape = audit'[call'.task].snapshot[i].shape
  BY DEF AuditInv
<1>1. ASSUME NEW t \in Task, NEW layer_mapping \in LayerMappings, CommitBegin(t, layer_mapping)
      PROVE  /\ audit'[call'.task].passed
             /\ \A i \in Created : call'.snapshot[i].shape = audit'[call'.task].snapshot[i].shape
  <2>1. call'.task = t /\ call'.snapshot = Snapshot(t) /\ UNCHANGED audit
    BY <1>1 DEF CommitBegin, Begin, NoCall, storeVars
  <2>2. AuditCurrent(t)
    BY <1>1, <2>1 DEF CommitBegin
  <2>3. ASSUME NEW i \in Created
        PROVE  /\ Snapshot(t)[i] = entity[<<t, i>>]
               /\ audit[t].snapshot[i].shape = entity[<<t, i>>].shape
    BY <2>2, CreatedType DEF AuditCurrent, SnapshotCurrent, Snapshot, Observed
  <2> QED BY <2>1, <2>2, <2>3 DEF AuditCurrent
<1>2. CASE \A t \in Task, layer_mapping \in LayerMappings : ~CommitBegin(t, layer_mapping)
  BY <1>2, CommittingKept DEF AuditInv
<1> QED BY <1>1, <1>2

LEMMA AuditHolds == Spec => []AuditInv
<1>1. Init => AuditInv
  BY DEF Init, AuditInv, Committing
<1>2. TypeOK /\ AuditInv /\ [Next]_vars => AuditInv'
  BY AuditStep
<1> QED BY <1>1, <1>2, TypeCorrect, PTL DEF Spec

\* The transaction of a commit is the only step that makes a task committed.
LEMMA CommittedBy ==
    ASSUME TypeOK, [Next]_vars, NEW t \in Task,
           taskStatus[t] # "committed", taskStatus'[t] = "committed"
    PROVE  CommitStore /\ t = call.task
<1> USE DEF storeVars, vars
<1>1. ASSUME NEW s \in Task, NEW status, update_ai_task(s, status), status # "committed" PROVE FALSE
  BY <1>1 DEF update_ai_task, TypeOK, StoreTypeOK
<1>2. ASSUME NEW s \in Task, create_ai_task(s) PROVE FALSE
  BY <1>2 DEF create_ai_task, TypeOK, StoreTypeOK
<1>3. ASSUME NEW row, NEW s \in Task, NEW status, update_task_entities_and_status(s, row, status)
      PROVE  status = "committed" /\ s = t
  BY <1>3 DEF update_task_entities_and_status, TypeOK, StoreTypeOK
<1>4. taskStatus' # taskStatus
  OBVIOUS
<1>5. CASE ExecuteStep
  <2>1. pc # "idle" => call.task \in Task
    BY ActiveTask
  <2>2. CASE ExecuteCreateTask \/ StoreStatus \/ ExceptStatus
    BY <1>1, <1>2, <1>4, <2>1, <2>2 DEF ExecuteCreateTask, StoreStatus, ExceptStatus, StoreCall
  <2> QED
    BY <1>4, <1>5, <2>2
       DEF ExecuteStep, ExecuteRecord, ExecuteRevalidate, DrawObject, FinalizeObject,
           LayoutDimension, DrawFails, RollbackCreated, RollbackEnds, StoreResult, StoreRows,
           UndoHandle, UndoUnreachable, UndoEnds, ExceptResult, StoreCall, record_execution,
           update_execution_result, add_ai_task_entities
<1>6. CASE CommitStep
  <2>1. CASE CommitStore
    <3>1. pc # "idle" /\ call.task \in Task
      BY <2>1, ActiveTask DEF CommitStore
    <3> QED BY <1>3, <1>4, <2>1, <3>1 DEF CommitStore, StoreCall
  <2> QED
    BY <1>4, <1>6, <2>1
       DEF CommitStep, CommitBegin, CommitLayer, CommitTag, CommitFails, SkipLayoutOnly
<1>7. CASE RevertStep
  <2>1. CASE RevertStore
    <3>1. pc # "idle" /\ call.task \in Task
      BY <2>1, ActiveTask DEF RevertStore
    <3> QED BY <1>3, <1>4, <2>1, <3>1 DEF RevertStore, StoreCall
  <2> QED
    BY <1>4, <1>7, <2>1
       DEF RevertStep, RevertBegin, RevertLayer, RevertTag, RevertHide, RevertFails, SkipLayoutOnly
<1>8. ASSUME NEW s \in Task, NEW exact \in BOOLEAN, VerifyExecution(s, exact) PROVE FALSE
  BY <1>1, <1>8 DEF VerifyExecution
<1>9. ASSUME NEW s \in AuditRequired, NEW evidence \in BOOLEAN, RenderTaskAudit(s, evidence)
      PROVE  FALSE
  BY <1>4, <1>9 DEF RenderTaskAudit, save_audit
<1> QED
  BY <1>4, <1>5, <1>6, <1>7, <1>8, <1>9
     DEF Next, ServerStep, RestoreObject, RestoreEnds, Crash, User

\* A reconstruction task becomes committed only while its audit passes and
\* every object has the shape the audit saw, whatever users edit meanwhile.
THEOREM CommitIsAuditedHolds == Spec => CommitIsAudited
<1>1. ASSUME TypeOK, AuditInv, [Next]_vars, NEW t \in AuditRequired,
             taskStatus[t] # "committed", taskStatus'[t] = "committed"
      PROVE  /\ audit[t].passed
             /\ \A i \in Created :
                    Drawn(<<t, i>>) /\ entity[<<t, i>>].shape = audit[t].snapshot[i].shape
  <2>1. CommitStore /\ t = call.task
    BY <1>1, CommittedBy
  <2> QED BY <1>1, <2>1 DEF CommitStore, GeometryUnchanged, AuditInv, Committing
<1>2. TypeOK /\ AuditInv /\ [Next]_vars =>
        [\A t \in AuditRequired :
            taskStatus[t] # "committed" /\ taskStatus'[t] = "committed" =>
                /\ audit[t].passed
                /\ \A i \in Created :
                       Drawn(<<t, i>>) /\ entity[<<t, i>>].shape = audit[t].snapshot[i].shape]_vars
  BY <1>1
<1> QED BY <1>2, TypeCorrect, AuditHolds, PTL DEF Spec, CommitIsAudited

-----------------------------------------------------------------------------
(* ApproximateStaysUncertain, proved.                                      *)

\* A step that draws nothing and moves nothing to another layer.
LayersKept == \A h \in Handle : (Drawn(h)' => Drawn(h)) /\ entity'[h].layer = entity[h].layer

LEMMA LayersKeptOps ==
    ASSUME TypeOK
    PROVE  /\ UNCHANGED entity => LayersKept
           /\ \A h : Erase(h) \/ MoveText(h) => LayersKept
           /\ \A h, tag : SetTag(h, tag) => LayersKept
           /\ "move" \notin UserEdits /\ UserEdit => LayersKept
<1> USE DEF TypeOK, DrawingTypeOK, Object, Drawn, LayersKept
<1>1. UNCHANGED entity => LayersKept
  OBVIOUS
<1>2. ASSUME NEW h PROVE Erase(h) \/ MoveText(h) => LayersKept
  BY DEF Erase, MoveText
<1>3. ASSUME NEW h, NEW tag, SetTag(h, tag) PROVE LayersKept
  BY <1>3 DEF SetTag
<1>4. ASSUME NEW h, entity' = [entity EXCEPT ![h].shape = "edited"] PROVE LayersKept
  BY <1>4
<1>5. ASSUME UserEdit, "move" \notin UserEdits PROVE LayersKept
  <2> HIDE DEF TypeOK, DrawingTypeOK, Object, Drawn, LayersKept
  <2> QED BY <1>2, <1>4, <1>5 DEF UserEdit
<1> HIDE DEF TypeOK, DrawingTypeOK, Object, Drawn, LayersKept
<1> QED BY <1>1, <1>2, <1>3, <1>5

\* The steps between two steps of a commit.
LEMMA CommitLoop ==
    ASSUME [Next]_vars, pc \in Committing, pc' \in Committing
    PROVE  \/ CommitLayer \/ CommitTag \/ SkipLayoutOnly("commitLayer", "commitStore")
           \/ User \/ UNCHANGED vars
<1> USE DEF Committing
<1>1. CASE ExecuteStep
  BY <1>1
     DEF ExecuteStep, ExecuteRecord, ExecuteCreateTask, ExecuteRevalidate, DrawObject,
         FinalizeObject, LayoutDimension, DrawFails, RollbackCreated, RollbackEnds, StoreResult,
         StoreRows, StoreStatus, UndoHandle, UndoUnreachable, UndoEnds, ExceptResult, ExceptStatus
<1>2. CASE CommitStep
  BY <1>2 DEF CommitStep, CommitBegin, CommitStore, CommitFails, StoreCall, Begin, Return, Fails
<1>3. CASE RevertStep
  BY <1>3 DEF RevertStep, RevertBegin, RevertLayer, RevertTag, RevertHide, RevertStore, RevertFails,
              SkipLayoutOnly, Begin
<1>4. CASE RestoreObject \/ RestoreEnds \/ Crash
  BY <1>4 DEF RestoreObject, RestoreEnds, Crash, Return
<1> QED BY <1>1, <1>2, <1>3, <1>4 DEF Next, ServerStep, VerifyExecution, RenderTaskAudit

\* What a step may do to the formal layers of the rows.
LEMMA FormalKept ==
    ASSUME TypeOK, [Next]_vars, NEW h \in Handle, entityRow'[h].formal # entityRow[h].formal
    PROVE  \/ entityRow'[h].formal = NoLayer
           \/ /\ CommitStore /\ h[1] = call.task /\ h[2] \in Created
              /\ entityRow'[h].formal = entity[h].layer
<1> USE DEF storeVars, vars
<1>1. entityRow' # entityRow
  OBVIOUS
<1>2. CASE ExecuteStep
  <2>1. StoreRows
    BY <1>1, <1>2
       DEF ExecuteStep, ExecuteRecord, ExecuteCreateTask, ExecuteRevalidate, DrawObject,
           FinalizeObject, LayoutDimension, DrawFails, RollbackCreated, RollbackEnds, StoreResult,
           StoreStatus, UndoHandle, UndoUnreachable, UndoEnds, ExceptResult, ExceptStatus,
           StoreCall, record_execution, create_ai_task, update_execution_result, update_ai_task
  <2>2. add_ai_task_entities(call.task)
    BY <1>1, <2>1 DEF StoreRows, StoreCall
  <2> QED BY <2>2 DEF add_ai_task_entities
<1>3. CASE CommitStep
  <2>1. CommitStore
    BY <1>1, <1>3 DEF CommitStep, CommitBegin, CommitLayer, CommitTag, CommitFails, SkipLayoutOnly
  <2>2. PICK unreadable :
            update_task_entities_and_status(call.task,
                [g \in Handle |-> [recorded |-> TRUE, layer |-> entity[g].layer,
                                   formal |-> entity[g].layer,
                                   tag |-> ReadBackTag(g, unreadable)]],
                "committed")
    BY <1>1, <2>1 DEF CommitStore, StoreCall
  <2> QED BY <2>1, <2>2 DEF update_task_entities_and_status
<1>4. CASE RevertStep
  <2>1. RevertStore
    BY <1>1, <1>4
       DEF RevertStep, RevertBegin, RevertLayer, RevertTag, RevertHide, RevertFails, SkipLayoutOnly
  <2>2. PICK unreadable :
            update_task_entities_and_status(call.task,
                [g \in Handle |-> [entityRow[g] EXCEPT !.layer = REVERT_LAYER,
                                                       !.tag = ReadBackTag(g, unreadable)]],
                "reverted")
    BY <1>1, <2>1 DEF RevertStore, StoreCall
  <2>3. [entityRow[h] EXCEPT !.layer = REVERT_LAYER, !.tag = ReadBackTag(h, unreadable)].formal
            = entityRow[h].formal
    <3>1. entityRow[h] \in Row
      BY DEF TypeOK, StoreTypeOK
    <3> QED BY <3>1 DEF Row
  <2> QED BY <2>2, <2>3 DEF update_task_entities_and_status
<1>5. ASSUME NEW s \in Task, NEW exact \in BOOLEAN, VerifyExecution(s, exact) PROVE FALSE
  BY <1>1, <1>5 DEF VerifyExecution, update_ai_task
<1>6. ASSUME NEW s \in AuditRequired, NEW evidence \in BOOLEAN, RenderTaskAudit(s, evidence)
      PROVE  FALSE
  BY <1>1, <1>6 DEF RenderTaskAudit, save_audit
<1> QED
  BY <1>1, <1>2, <1>3, <1>4, <1>5, <1>6
     DEF Next, ServerStep, RestoreObject, RestoreEnds, Crash, User

LEMMA ApproximateStep ==
    ASSUME TypeOK, LoopInv, ApproximateInv, [Next]_vars, "move" \notin UserEdits
    PROVE  ApproximateInv'
<1>t. CallFacts
  BY CallType
<1>1. ASSUME NEW t \in Task, NEW i \in Approximate
      PROVE  entityRow'[<<t, i>>].formal \in {NoLayer, "AI_UNCERTAIN"}
  <2>1. <<t, i>> \in Handle /\ entityRow[<<t, i>>].formal \in {NoLayer, "AI_UNCERTAIN"}
    BY HandleType DEF ApproximateInv
  <2>2. ASSUME CommitStore, t = call.task, i \in Created
        PROVE  entity[<<t, i>>].layer = "AI_UNCERTAIN"
    BY <2>2, <1>t DEF CommitStore, ApproximateInv, Relayered, LoopInv, Committing, CallFacts
  <2> QED BY <2>1, <2>2, FormalKept
<1>2. ASSUME pc' \in Committing, NEW i \in Approximate \cap Created
      PROVE  LET layer == entity'[<<call'.task, i>>].layer IN
             IF Relayered(i)' THEN layer = "AI_UNCERTAIN"
             ELSE layer \in DOMAIN call'.mapping /\ call'.mapping[layer] = "AI_UNCERTAIN"
  <2>1. ASSUME NEW t \in Task, NEW layer_mapping \in LayerMappings, CommitBegin(t, layer_mapping)
        PROVE  /\ call'.task = t /\ call'.mapping = Merged(layer_mapping)
               /\ pc' = "commitLayer" /\ at' = 1 /\ UNCHANGED entity
               /\ Mappable(i, entity[<<t, i>>].layer, Merged(layer_mapping))
    BY <2>1 DEF CommitBegin, Begin, NoCall, drawingVars
  <2>2. ASSUME NEW t \in Task, NEW layer_mapping \in LayerMappings, CommitBegin(t, layer_mapping)
        PROVE  /\ ~Relayered(i)'
               /\ entity'[<<call'.task, i>>].layer \in DOMAIN call'.mapping
               /\ call'.mapping[entity'[<<call'.task, i>>].layer] = "AI_UNCERTAIN"
    <3>1. /\ pc' = "commitLayer" /\ at' = 1 /\ UNCHANGED <<entity>>
          /\ call'.task = t /\ call'.mapping = Merged(layer_mapping)
          /\ Mappable(i, entity[<<t, i>>].layer, Merged(layer_mapping))
      BY <2>1, <2>2
    <3>2. ~(i < 1)
      BY <1>t DEF CallFacts
    <3> QED BY <3>1, <3>2 DEF Relayered, Mappable
  <2>3. CASE \A t \in Task, layer_mapping \in LayerMappings : ~CommitBegin(t, layer_mapping)
    <3>1. pc \in Committing /\ UNCHANGED call
      BY <1>2, <2>3, CommittingKept
    <3>2. /\ <<call.task, i>> \in Handle
          /\ LET layer == entity[<<call.task, i>>].layer IN
             IF Relayered(i) THEN layer = "AI_UNCERTAIN"
             ELSE layer \in DOMAIN call.mapping /\ call.mapping[layer] = "AI_UNCERTAIN"
      BY <3>1, <1>t DEF ApproximateInv, CallFacts, Committing
    <3>3. CASE CommitLayer
      <4>1. entity'[<<call.task, i>>].layer
                = IF i = at THEN call.mapping[entity[<<call.task, i>>].layer]
                  ELSE entity[<<call.task, i>>].layer
        BY <3>2, <3>3 DEF CommitLayer, SetLayer, Here, TypeOK, DrawingTypeOK, Object
      <4>2. pc = "commitLayer" /\ pc' = "commitTag" /\ UNCHANGED <<at, call>>
        BY <3>3 DEF CommitLayer, Goto
      <4> QED BY <3>2, <4>1, <4>2, <1>t DEF Relayered, CallFacts
    <3>4. CASE CommitTag \/ SkipLayoutOnly("commitLayer", "commitStore")
      <4>1. entity'[<<call.task, i>>].layer = entity[<<call.task, i>>].layer
        BY <3>2, <3>4, LayersKeptOps DEF CommitTag, SkipLayoutOnly, LayersKept, drawingVars
      <4>2. /\ pc = "commitTag" \/ (pc = "commitLayer" /\ at # i)
            /\ \/ at = PlanLength /\ pc' = "commitStore" /\ at' = at
               \/ at # PlanLength /\ pc' = "commitLayer" /\ at' = at + 1
        BY <3>4 DEF CommitTag, SkipLayoutOnly, Advance, Created
      <4> QED BY <3>1, <3>2, <4>1, <4>2, <1>t DEF Relayered, CallFacts
    <3>5. CASE User \/ UNCHANGED vars
      <4>1. UserEdit \/ UNCHANGED entity
        BY <3>5 DEF User, vars, drawingVars
      <4>2. entity'[<<call.task, i>>].layer = entity[<<call.task, i>>].layer
        BY <3>2, <4>1, LayersKeptOps DEF LayersKept
      <4>3. UNCHANGED <<pc, at, call>>
        BY <3>5 DEF User, vars, callVars
      <4> QED BY <3>2, <4>2, <4>3 DEF Relayered
    <3> QED BY <1>2, <3>1, <3>3, <3>4, <3>5, CommitLoop
  <2> QED BY <2>2, <2>3
<1> QED BY <1>1, <1>2 DEF ApproximateInv

\* No object of approximate reference is ever recorded on a formal layer,
\* whatever mapping a caller passes and whatever fails, if users do not move
\* objects to other layers.
THEOREM ApproximateStaysUncertainHolds == Spec => []ApproximateStaysUncertain
<1>1. Init => ApproximateInv
  BY HandleType DEF Init, StoreInit, NoRow, ApproximateInv, Committing
<1>2. CASE "move" \in UserEdits
  <2>1. ApproximateStaysUncertain
    BY <1>2 DEF ApproximateStaysUncertain
  <2> QED BY <2>1, PTL
<1>3. CASE "move" \notin UserEdits
  <2>1. TypeOK /\ LoopInv /\ ApproximateInv /\ [Next]_vars => ApproximateInv'
    BY <1>3, ApproximateStep
  <2>2. ApproximateInv => ApproximateStaysUncertain
    BY DEF ApproximateInv, ApproximateStaysUncertain
  <2> QED BY <1>1, <2>1, <2>2, TypeCorrect, LoopHolds, PTL DEF Spec
<1> QED BY <1>2, <1>3

-----------------------------------------------------------------------------
(* LayersAgree, proved.                                                    *)

LEMMA LayerExecute ==
    ASSUME TypeOK, AgreeInv, LayerInv, ExecuteStep, ReadBackFails = FALSE
    PROVE  LayerInv'
<1>t. CallFacts
  BY CallType
<1>a. /\ pc = "rows" => call.success
      /\ pc # "idle" => execution[call.task] # "none"
      /\ \A t \in Task : taskStatus[t] # "none" => execution[t] # "none"
      /\ pc \in {"create", "revalidate", "draw", "finalize", "rollback"} => ~call.success
  BY DEF AgreeInv
<1> USE DEF CallFacts, LayerInv, Unrecorded, OnPlanLayer, LayersSettled, LayersRemembered, Isolated,
            OnRecordedLayer, Relayered, Finalized, ExecuteBefore, Presenting, Reverting,
            drawingVars, storeVars, fileVars
<1>1. ASSUME NEW t \in Task, ExecuteRecord(t) PROVE LayerInv'
  BY <1>1, <1>t, <1>a DEF ExecuteRecord, Begin, Return, record_execution, Drawn, NoCall
<1>2. CASE ExecuteCreateTask
  BY <1>2, <1>t, <1>a DEF ExecuteCreateTask, StoreCall, create_ai_task, Goto, Return, Drawn
<1>3. CASE ExecuteRevalidate
  BY <1>3, <1>t, <1>a DEF ExecuteRevalidate, Goto, Drawn
<1>4. CASE DrawObject
  <2>1. /\ pc = "draw" /\ pc' = "finalize" /\ Here = <<call.task, at>> /\ Here \in Handle
        /\ UNCHANGED <<at, call, entityRow, execution, taskStatus, torn>>
    BY <1>4, <1>t DEF DrawObject, Goto, Here
  <2>2. \A g \in Handle : g # Here => Drawn(g)' = Drawn(g) /\ entity'[g].layer = entity[g].layer
    BY <1>4, <2>1, <1>t DEF DrawObject, AddObject, Drawn
  <2>3. ~entityRow[Here].recorded
    BY <2>1, <1>t
  <2>4. Unrecorded' /\ LayersRemembered' /\ Isolated'
    BY <2>1, <1>t
  <2>5. OnPlanLayer' /\ LayersSettled'
    BY <2>1, <2>2, <2>3, <1>t
  <2> QED BY <2>1, <2>4, <2>5
<1>5. CASE FinalizeObject
  <2>1. /\ pc = "finalize" /\ Here = <<call.task, at>>
        /\ UNCHANGED <<entityRow, execution, taskStatus, torn>>
        /\ \/ at = PlanLength /\ pc' = "result" /\ call' = [call EXCEPT !.success = TRUE]
           \/ pc' = "draw" /\ at' = at + 1 /\ UNCHANGED call
    BY <1>5 DEF FinalizeObject, Succeed, Here
  <2>2. call'.task = call.task /\ (pc' = "result" => at = PlanLength) /\ (pc' = "draw" => ~call'.success)
    BY <2>1, <1>t, <1>a DEF Call
  <2>3. \A g \in Handle : /\ Drawn(g)' = Drawn(g)
                          /\ g # Here => entity'[g].layer = entity[g].layer
                          /\ g = Here => entity'[g].layer = PlanLayer[at]
    BY <1>5 DEF FinalizeObject, Drawn, TypeOK, DrawingTypeOK, Object
  <2>4. Here \in Handle => ~entityRow[Here].recorded
    BY <2>1, <1>t
  <2>5. Unrecorded' /\ LayersRemembered' /\ Isolated'
    BY <2>1, <2>2, <1>t
  <2>6. OnPlanLayer'
    BY <2>1, <2>2, <2>3, <1>t
  <2>7. LayersSettled'
    <3> SUFFICES ASSUME NEW t \in Task \ torn, NEW i \in Created PROVE OnRecordedLayer(<<t, i>>)'
      BY <2>1
    <3>1. <<t, i>> \in Handle /\ OnRecordedLayer(<<t, i>>)
      BY <2>1, <1>t
    <3>2. CASE <<t, i>> = Here
      BY <2>1, <2>4, <3>1, <3>2
    <3>3. CASE <<t, i>> # Here
      BY <2>1, <2>3, <3>1, <3>3
    <3> QED BY <3>2, <3>3
  <2> QED BY <2>1, <2>2, <2>5, <2>6, <2>7
<1>6. CASE LayoutDimension
  <2>1. /\ pc = "draw" /\ at \notin Created
        /\ UNCHANGED <<entityRow, execution, taskStatus, torn>>
        /\ \/ at = PlanLength /\ pc' = "result" /\ call' = [call EXCEPT !.success = TRUE]
           \/ pc' = "draw" /\ at' = at + 1 /\ UNCHANGED call
    BY <1>6 DEF LayoutDimension, Succeed, Created
  <2>2. call'.task = call.task /\ (pc' = "result" => at = PlanLength) /\ (pc' = "draw" => ~call'.success)
    BY <2>1, <1>t, <1>a DEF Call
  <2>3. LayersKept
    BY <1>6, LayersKeptOps DEF LayoutDimension
  <2>4. Unrecorded' /\ LayersRemembered' /\ Isolated'
    BY <2>1, <2>2, <1>t
  <2>5. OnPlanLayer' /\ LayersSettled'
    BY <2>1, <2>2, <2>3, <1>t DEF LayersKept
  <2> QED BY <2>1, <2>2, <2>4, <2>5
<1>7. CASE DrawFails
  BY <1>7, <1>t, <1>a, LayersKeptOps DEF LayersKept, DrawFails, Goto
<1>8. CASE RollbackCreated
  BY <1>8, <1>t, <1>a, LayersKeptOps DEF LayersKept, RollbackCreated, ReportFailure, Retreat
<1>9. CASE RollbackEnds
  BY <1>9, <1>t, <1>a DEF RollbackEnds, Goto, Drawn
<1>10. CASE StoreResult
  BY <1>10, <1>t, <1>a DEF StoreResult, StoreCall, update_execution_result, Except, Goto, Drawn
<1>11. CASE StoreRows
  <2>1. /\ pc = "rows" /\ pc' \in {"status", "undo"}
        /\ UNCHANGED <<entity, call, execution, taskStatus, torn>>
        /\ \/ UNCHANGED entityRow
           \/ \A h \in Handle :
                  /\ h[1] # call.task => entityRow'[h] = entityRow[h]
                  /\ h[1] = call.task /\ h[2] \in Created => entityRow'[h].layer = PlanLayer[h[2]]
    BY <1>11, <1>t, <1>a DEF StoreRows, StoreCall, add_ai_task_entities, Except, Goto
  <2>2. \A i \in Created : Drawn(<<call.task, i>>) => entity[<<call.task, i>>].layer = PlanLayer[i]
    BY <2>1
  <2>3. OnPlanLayer' /\ LayersRemembered' /\ Isolated'
    BY <2>1
  <2>4. Unrecorded'
    BY <2>1, <1>t, <1>a
  <2>5. LayersSettled'
    <3>0. torn' = torn
      BY <2>1
    <3> SUFFICES ASSUME NEW t \in Task, t \notin torn, NEW i \in Created
                 PROVE  OnRecordedLayer(<<t, i>>)' \/ (call'.task = t /\ Relayered(i)')
      BY <3>0
    <3>1. <<t, i>> \in Handle /\ OnRecordedLayer(<<t, i>>) /\ Drawn(<<t, i>>)' = Drawn(<<t, i>>)
      BY <2>1, <1>t DEF Drawn
    <3>2. CASE UNCHANGED entityRow \/ t # call.task
      BY <2>1, <3>1, <3>2
    <3>3. CASE t = call.task /\ entityRow'[<<t, i>>].layer = PlanLayer[i]
      BY <2>1, <2>2, <3>1, <3>3
    <3> QED BY <2>1, <3>1, <3>2, <3>3
  <2> QED BY <2>3, <2>4, <2>5
<1>12. CASE StoreStatus
  BY <1>12, <1>t, <1>a DEF StoreStatus, StoreCall, update_ai_task, Except, Goto, Return, Drawn
<1>13. CASE UndoHandle
  BY <1>13, <1>t, <1>a, LayersKeptOps DEF LayersKept, UndoHandle, ReportFailure, Retreat
<1>14. CASE UndoUnreachable
  BY <1>14, <1>t, <1>a DEF UndoUnreachable, ReportFailure, Return, Drawn
<1>15. CASE UndoEnds
  BY <1>15, <1>t, <1>a DEF UndoEnds, Goto, Drawn
<1>16. CASE ExceptResult \/ ExceptStatus
  BY <1>16, <1>t, <1>a
     DEF ExceptResult, ExceptStatus, StoreCall, update_execution_result, update_ai_task, Goto,
         Return, Drawn
<1> QED
  BY <1>1, <1>2, <1>3, <1>4, <1>5, <1>6, <1>7, <1>8, <1>9, <1>10, <1>11, <1>12, <1>13, <1>14,
     <1>15, <1>16 DEF ExecuteStep

\* The transaction of a commit or a revert, or its failure.
LEMMA LayerPresented ==
    ASSUME TypeOK, AgreeInv, LayerInv, pc \in {"commitStore", "revertStore"},
           UNCHANGED <<entity, execution, torn>>,
           \/ /\ pc' = "idle" /\ call'.task = NoTask
              /\ \A h \in Handle :
                     \/ entityRow'[h] = entityRow[h] /\ (h[1] # call.task \/ h[2] \notin Created)
                     \/ /\ h[1] = call.task /\ h[2] \in Created
                        /\ Drawn(h) => entityRow'[h].layer = entity[h].layer
           \/ pc' = "restore" /\ UNCHANGED <<at, call, entityRow>>
    PROVE  LayerInv'
<1>t. CallFacts
  BY CallType
<1>a. pc # "idle" => execution[call.task] # "none"
  BY DEF AgreeInv
<1> USE DEF CallFacts, LayerInv, Unrecorded, OnPlanLayer, LayersSettled, LayersRemembered, Isolated,
            OnRecordedLayer, Relayered, Finalized, ExecuteBefore, Presenting, Reverting
<1>1. Unrecorded'
  BY <1>t, <1>a
<1>2. OnPlanLayer' /\ LayersRemembered' /\ Isolated'
  BY <1>t
<1>3. LayersSettled'
  <2> SUFFICES ASSUME NEW t \in Task \ torn, NEW i \in Created
               PROVE  OnRecordedLayer(<<t, i>>)' \/ (call'.task = t /\ Relayered(i)')
    OBVIOUS
  <2> DEFINE h == <<t, i>>
  <2>1. h \in Handle /\ h[1] = t /\ h[2] = i /\ Drawn(h)' = Drawn(h)
    BY <1>t DEF Drawn
  <2>2. CASE pc' = "idle"
    BY <1>t, <2>1, <2>2
  <2>3. CASE pc' = "restore"
    BY <1>t, <2>1, <2>3
  <2> QED BY <2>2, <2>3
<1> QED BY <1>1, <1>2, <1>3, <1>t

LEMMA LayerCommit ==
    ASSUME TypeOK, AgreeInv, LayerInv, CommitStep, ReadBackFails = FALSE
    PROVE  LayerInv'
<1>t. CallFacts
  BY CallType
<1>a. /\ pc # "idle" => execution[call.task] # "none"
      /\ \A t \in Task : taskStatus[t] # "none" => execution[t] # "none"
  BY DEF AgreeInv
<1> USE DEF CallFacts, LayerInv, Unrecorded, OnPlanLayer, LayersSettled, LayersRemembered, Isolated,
            OnRecordedLayer, Relayered, Finalized, ExecuteBefore, Presenting, Reverting,
            drawingVars, storeVars, fileVars
<1>1. ASSUME NEW t \in Task, NEW layer_mapping \in LayerMappings, CommitBegin(t, layer_mapping)
      PROVE  LayerInv'
  <2>1. /\ pc = "idle" /\ pc' = "commitLayer" /\ at' = 1 /\ call'.task = t
        /\ call'.snapshot = Snapshot(t)
        /\ taskStatus[t] = "verified" /\ OwnedLoaded(t)
        /\ UNCHANGED <<entity, entityRow, execution, taskStatus, torn>>
    BY <1>1 DEF CommitBegin, Begin, NoCall
  <2>2. \A i \in Created : Drawn(<<t, i>>) /\ call'.snapshot[i].layer = entity[<<t, i>>].layer
    BY <2>1, CreatedType DEF OwnedLoaded, ProvesOwnership, Snapshot
  <2> QED BY <2>1, <2>2, <1>t, <1>a DEF Drawn
<1>2. CASE CommitLayer
  <2>1. /\ pc = "commitLayer" /\ pc' = "commitTag" /\ Here = <<call.task, at>>
        /\ UNCHANGED <<at, call, entityRow, execution, taskStatus, torn>>
    BY <1>2 DEF CommitLayer, Goto, Here
  <2>2. \A g \in Handle : Drawn(g)' = Drawn(g) /\ (g # Here => entity'[g].layer = entity[g].layer)
    BY <1>2 DEF CommitLayer, SetLayer, Drawn, TypeOK, DrawingTypeOK, Object
  <2> QED BY <2>1, <2>2, <1>t
<1>3. CASE CommitTag
  <2>1. /\ pc = "commitTag" /\ UNCHANGED <<entityRow, execution, taskStatus, torn, call>>
        /\ \/ at = PlanLength /\ pc' = "commitStore" /\ at' = at
           \/ at # PlanLength /\ pc' = "commitLayer" /\ at' = at + 1
    BY <1>3 DEF CommitTag, Advance
  <2>2. LayersKept
    BY <1>3, LayersKeptOps DEF CommitTag
  <2> QED BY <2>1, <2>2, <1>t DEF LayersKept
<1>4. CASE CommitStore
  <2>1. pc = "commitStore" /\ UNCHANGED <<entity, execution, torn>>
    BY <1>4 DEF CommitStore, StoreCall, update_task_entities_and_status
  <2>2. PICK unreadable \in SUBSET Created :
            StoreCall(
                update_task_entities_and_status(call.task,
                    [h \in Handle |-> [recorded |-> TRUE, layer |-> entity[h].layer,
                                       formal |-> entity[h].layer,
                                       tag |-> ReadBackTag(h, unreadable)]],
                    "committed"),
                Return, Fails(0))
    BY <1>4 DEF CommitStore
  <2> DEFINE row == [h \in Handle |-> [recorded |-> TRUE, layer |-> entity[h].layer,
                                       formal |-> entity[h].layer,
                                       tag |-> ReadBackTag(h, unreadable)]]
  <2>3. \A h \in Handle : row[h].layer = entity[h].layer
    OBVIOUS
  <2> HIDE DEF row
  <2>4. CASE update_task_entities_and_status(call.task, row, "committed") /\ Return
    <3>1. pc' = "idle" /\ call' = NoCall
      BY <2>4 DEF Return
    <3>2. \A h \in Handle : IF h[1] = call.task /\ h[2] \in Created
                            THEN entityRow'[h].layer = entity[h].layer
                            ELSE entityRow'[h] = entityRow[h]
      BY <2>3, <2>4 DEF update_task_entities_and_status
    <3> QED BY <2>1, <3>1, <3>2, LayerPresented DEF NoCall
  <2>5. CASE UNCHANGED storeVars /\ Fails(0)
    BY <2>1, <2>5, <1>t, LayerPresented DEF Fails
  <2> QED BY <2>2, <2>4, <2>5 DEF StoreCall, row
<1>5. CASE CommitFails
  BY <1>5, <1>t, <1>a DEF CommitFails, Fails, Drawn
<1>6. CASE SkipLayoutOnly("commitLayer", "commitStore")
  BY <1>6, <1>t, <1>a DEF SkipLayoutOnly, Advance, Drawn, Created
<1> QED BY <1>1, <1>2, <1>3, <1>4, <1>5, <1>6 DEF CommitStep

LEMMA LayerRevert ==
    ASSUME TypeOK, AgreeInv, LayerInv, RevertStep, ReadBackFails = FALSE
    PROVE  LayerInv'
<1>t. CallFacts
  BY CallType
<1>a. /\ pc # "idle" => execution[call.task] # "none"
      /\ \A t \in Task : taskStatus[t] # "none" => execution[t] # "none"
      /\ pc = "revertStore" => at = PlanLength
  BY DEF AgreeInv
<1> USE DEF CallFacts, LayerInv, Unrecorded, OnPlanLayer, LayersSettled, LayersRemembered, Isolated,
            OnRecordedLayer, Relayered, Finalized, ExecuteBefore, Presenting, Reverting,
            drawingVars, storeVars, fileVars
<1>1. ASSUME NEW t \in Task, NEW allow \in BOOLEAN, RevertBegin(t, allow) PROVE LayerInv'
  <2>1. /\ pc = "idle" /\ pc' = "revertLayer" /\ at' = 1 /\ call'.task = t
        /\ call'.snapshot = Snapshot(t)
        /\ taskStatus[t] # "none" /\ OwnedLoaded(t)
        /\ UNCHANGED <<entity, entityRow, execution, taskStatus, torn>>
    BY <1>1 DEF RevertBegin, Begin, NoCall, Revertible
  <2>2. \A i \in Created : Drawn(<<t, i>>) /\ call'.snapshot[i].layer = entity[<<t, i>>].layer
    BY <2>1, CreatedType DEF OwnedLoaded, ProvesOwnership, Snapshot
  <2> QED BY <2>1, <2>2, <1>t, <1>a DEF Drawn
<1>2. CASE RevertLayer
  <2>1. /\ pc = "revertLayer" /\ pc' = "revertTag" /\ at' = at /\ Here = <<call.task, at>>
        /\ call'.task = call.task /\ call'.snapshot = call.snapshot
        /\ UNCHANGED <<entityRow, execution, taskStatus, torn>>
    BY <1>2, <1>t DEF RevertLayer, Call, Here
  <2>2. \A g \in Handle : /\ Drawn(g)' = Drawn(g)
                          /\ entity'[g].layer = IF g = Here THEN REVERT_LAYER ELSE entity[g].layer
    BY <1>2 DEF RevertLayer, SetLayer, Drawn, TypeOK, DrawingTypeOK, Object
  <2> QED BY <2>1, <2>2, <1>t
<1>3. CASE RevertTag
  <2>1. /\ pc = "revertTag" /\ UNCHANGED <<entityRow, execution, taskStatus, torn, call>>
        /\ \/ at = PlanLength /\ pc' = "revertHide" /\ at' = at
           \/ at # PlanLength /\ pc' = "revertLayer" /\ at' = at + 1
    BY <1>3 DEF RevertTag, Advance
  <2>2. LayersKept
    BY <1>3, LayersKeptOps DEF RevertTag
  <2> QED BY <2>1, <2>2, <1>t DEF LayersKept
<1>4. CASE RevertHide
  BY <1>4, <1>t, <1>a DEF RevertHide, Goto, Drawn
<1>5. CASE RevertStore
  <2>1. PICK unreadable \in SUBSET Created :
            StoreCall(
                update_task_entities_and_status(call.task,
                    [h \in Handle |-> [entityRow[h] EXCEPT !.layer = REVERT_LAYER,
                                                           !.tag = ReadBackTag(h, unreadable)]],
                    "reverted"),
                Return, Fails(0))
    BY <1>5 DEF RevertStore
  <2> DEFINE row == [h \in Handle |-> [entityRow[h] EXCEPT !.layer = REVERT_LAYER,
                                                           !.tag = ReadBackTag(h, unreadable)]]
  <2>2. ASSUME NEW h \in Handle PROVE row[h].layer = REVERT_LAYER
    <3>1. entityRow[h] \in Row
      BY DEF TypeOK, StoreTypeOK
    <3> QED BY <3>1 DEF Row
  <2> HIDE DEF row
  <2>3. pc = "revertStore" /\ UNCHANGED <<entity, execution, torn>>
    BY <1>5 DEF RevertStore, StoreCall, update_task_entities_and_status
  <2>4. CASE update_task_entities_and_status(call.task, row, "reverted") /\ Return
    <3>1. pc' = "idle" /\ call' = NoCall
      BY <2>4 DEF Return
    <3>2. \A h \in Handle : IF h[1] = call.task /\ h[2] \in Created
                            THEN entityRow'[h].layer = REVERT_LAYER
                            ELSE entityRow'[h] = entityRow[h]
      BY <2>2, <2>4 DEF update_task_entities_and_status
    <3>3. \A h \in Handle : h[1] = call.task /\ h[2] \in Created /\ Drawn(h) =>
              entity[h].layer = REVERT_LAYER
      <4>1. \A i \in Created :
                Drawn(<<call.task, i>>) => entity[<<call.task, i>>].layer = REVERT_LAYER
        BY <2>3, <1>t, <1>a
      <4> QED BY <4>1, <1>t
    <3> QED BY <2>3, <3>1, <3>2, <3>3, LayerPresented DEF NoCall
  <2>5. CASE UNCHANGED storeVars /\ Fails(0)
    BY <2>3, <2>5, <1>t, LayerPresented DEF Fails
  <2> QED BY <2>1, <2>4, <2>5 DEF StoreCall, row
<1>6. CASE RevertFails
  BY <1>6, <1>t, <1>a DEF RevertFails, Fails, Drawn
<1>7. CASE SkipLayoutOnly("revertLayer", "revertHide")
  BY <1>7, <1>t, <1>a DEF SkipLayoutOnly, Advance, Drawn, Created
<1> QED BY <1>1, <1>2, <1>3, <1>4, <1>5, <1>6, <1>7 DEF RevertStep

LEMMA LayerStep ==
    ASSUME TypeOK, AgreeInv, LayerInv, [Next]_vars, ReadBackFails = FALSE, "move" \notin UserEdits
    PROVE  LayerInv'
<1>t. CallFacts
  BY CallType
<1>a. /\ pc # "idle" => execution[call.task] # "none"
      /\ \A t \in Task : taskStatus[t] # "none" => execution[t] # "none"
  BY DEF AgreeInv
<1>s. ExecuteStep \/ CommitStep \/ RevertStep => LayerInv'
  BY LayerExecute, LayerCommit, LayerRevert
<1> USE DEF CallFacts, LayerInv, Unrecorded, OnPlanLayer, LayersSettled, LayersRemembered, Isolated,
            OnRecordedLayer, Relayered, Finalized, ExecuteBefore, Presenting, Reverting,
            drawingVars, storeVars, callVars, fileVars, vars
<1>1. ASSUME NEW t \in Task, NEW exact \in BOOLEAN, VerifyExecution(t, exact) PROVE LayerInv'
  BY <1>1, <1>t DEF VerifyExecution, update_ai_task, Drawn
<1>2. ASSUME NEW t \in AuditRequired, NEW evidence \in BOOLEAN, RenderTaskAudit(t, evidence)
      PROVE  LayerInv'
  BY <1>2, <1>t DEF RenderTaskAudit, save_audit, Drawn
<1>3. CASE RestoreObject
  <2>1. /\ pc = "restore" /\ pc' = "restore" /\ at > 0 /\ at' = at - 1
        /\ UNCHANGED <<call, entityRow, execution, taskStatus>>
        /\ Here = <<call.task, at>>
    BY <1>3 DEF RestoreObject, Retreat, Here
  <2>2. Unrecorded' /\ OnPlanLayer' /\ Isolated'
    BY <2>1, <1>t
  <2>3. CASE at \in LayoutOnly /\ UNCHANGED <<entity, torn>>
    BY <2>1, <2>2, <2>3, <1>t DEF Drawn, Created
  <2>4. CASE Restored(Here, call.snapshot[at]) /\ UNCHANGED torn
    <3>1. \A g \in Handle :
              /\ Drawn(g)' = Drawn(g)
              /\ entity'[g].layer = IF g = Here THEN call.snapshot[at].layer ELSE entity[g].layer
      BY <2>4 DEF Restored, Drawn, TypeOK, DrawingTypeOK, Object
    <3> QED BY <2>1, <2>2, <2>4, <3>1, <1>t
  <2>5. CASE ReportFailure /\ (UNCHANGED entity \/ SetLayer(Here, call.snapshot[at].layer))
    <3>1. \A g \in Handle : Drawn(g)' = Drawn(g) /\ (g # Here => entity'[g].layer = entity[g].layer)
      BY <2>5 DEF SetLayer, Drawn, TypeOK, DrawingTypeOK, Object
    <3> QED BY <2>1, <2>2, <2>5, <3>1, <1>t DEF ReportFailure
  <2> QED BY <1>3, <2>3, <2>4, <2>5 DEF RestoreObject
<1>4. CASE RestoreEnds
  BY <1>4, <1>t DEF RestoreEnds, Return, ReportFailure, Drawn, NoCall
<1>5. CASE Crash
  BY <1>5, <1>t, <1>a DEF Crash, Return, Drawn, NoCall
<1>6. CASE User
  <2>1. LayersKept
    BY <1>6, LayersKeptOps DEF User
  <2> QED BY <1>6, <2>1, <1>t DEF User, LayersKept
<1>7. CASE UNCHANGED vars
  BY <1>7, <1>t DEF Drawn
<1> QED
  BY <1>1, <1>2, <1>3, <1>4, <1>5, <1>6, <1>7, <1>s DEF Next, ServerStep

\* As long as the reads that end the store's methods succeed and users move
\* nothing to other layers, every object is on the layer its row records,
\* whatever step of a commit or a revert fails.
THEOREM LayersAgreeHolds ==
    ASSUME ReadBackFails = FALSE
    PROVE  Spec => []LayersAgree
<1>1. ASSUME Init PROVE AgreeInv /\ LayerInv
  <2>1. \A h \in Handle : entityRow[h].tag = NoTag /\ ~entityRow[h].recorded
    BY <1>1 DEF Init, StoreInit, NoRow
  <2>2. \A t \in Task, i \in Created : <<t, i>> \in Handle
    BY CreatedType, HandleType
  <2>3. AgreeInv
    BY <1>1, <2>1, <2>2
       DEF Init, StoreInit, AgreeInv, BlankRows, FreshTags, Agreement, Remembered, Agrees,
           Presenting
  <2>4. LayerInv
    BY <1>1, <2>1, <2>2
       DEF Init, LayerInv, Unrecorded, OnPlanLayer, LayersSettled, LayersRemembered, Isolated,
           OnRecordedLayer, Presenting, Reverting
  <2> QED BY <2>3, <2>4
<1>2. CASE "move" \in UserEdits
  <2>1. LayersAgree
    BY <1>2 DEF LayersAgree
  <2> QED BY <2>1, PTL
<1>3. CASE "move" \notin UserEdits
  <2>1. TypeOK /\ AgreeInv /\ LayerInv /\ [Next]_vars => AgreeInv' /\ LayerInv'
    BY <1>3, AgreeStep, LayerStep
  <2>2. LayerInv => LayersAgree
    BY DEF LayerInv, LayersSettled, OnRecordedLayer, LayersAgree, Settled
  <2> QED BY <1>1, <2>1, <2>2, TypeCorrect, PTL DEF Spec
<1> QED BY <1>2, <1>3

-----------------------------------------------------------------------------
(* ExecutedIsComplete and StatusMatchesDrawing, proved.                    *)

LEMMA StatusCallStep ==
    ASSUME TypeOK, AgreeInv, StatusDuringCall, [Next]_vars, ReadBackFails = FALSE
    PROVE  StatusDuringCall'
<1>t. CallFacts /\ taskStatus \in [Task -> TASK_STATUSES \cup {"none"}]
  BY CallType DEF TypeOK, StoreTypeOK
<1>a. \A t \in Task : execution[t] = "none" => taskStatus[t] = "none"
  BY DEF AgreeInv
<1> USE DEF CallFacts, StatusDuringCall, Executing, ExecuteBefore, Committing, Reverting,
            Revertibles, storeVars, callVars, vars
<1>1. CASE ExecuteStep
  <2>1. ASSUME NEW t \in Task, ExecuteRecord(t) PROVE StatusDuringCall'
    BY <1>t, <1>a, <2>1 DEF ExecuteRecord, Begin, Return, record_execution, NoCall
  <2>2. CASE ExecuteCreateTask
    BY <1>t, <2>2 DEF ExecuteCreateTask, StoreCall, create_ai_task, Goto, Return, NoCall
  <2>3. CASE ExecuteRevalidate \/ DrawObject \/ DrawFails \/ RollbackCreated \/ RollbackEnds
    BY <1>t, <2>3
       DEF ExecuteRevalidate, DrawObject, DrawFails, RollbackCreated, RollbackEnds, Goto, Retreat
  <2>4. CASE FinalizeObject \/ LayoutDimension
    <3>1. /\ pc \in {"draw", "finalize"} /\ pc' \in {"draw", "result"} /\ UNCHANGED taskStatus
          /\ call'.task = call.task
      BY <1>t, <2>4 DEF FinalizeObject, LayoutDimension, Succeed, Call
    <3> QED BY <1>t, <3>1
  <2>5. CASE StoreResult \/ StoreRows \/ ExceptResult
    BY <1>t, <2>5 DEF StoreResult, StoreRows, ExceptResult, StoreCall, update_execution_result,
                      add_ai_task_entities, Except, Goto, Return, NoCall
  <2>6. CASE StoreStatus \/ ExceptStatus
    BY <1>t, <2>6
       DEF StoreStatus, ExceptStatus, StoreCall, update_ai_task, Except, Goto, Return, NoCall
  <2>7. CASE UndoHandle \/ UndoUnreachable \/ UndoEnds
    BY <1>t, <2>7 DEF UndoHandle, UndoUnreachable, UndoEnds, Retreat, Return, Goto
  <2> QED BY <1>1, <2>1, <2>2, <2>3, <2>4, <2>5, <2>6, <2>7 DEF ExecuteStep
<1>2. CASE CommitStep
  <2>1. ASSUME NEW t \in Task, NEW layer_mapping \in LayerMappings, CommitBegin(t, layer_mapping)
        PROVE  StatusDuringCall'
    BY <1>t, <2>1 DEF CommitBegin, Begin, NoCall
  <2>2. CASE CommitLayer \/ CommitTag \/ CommitFails \/ SkipLayoutOnly("commitLayer", "commitStore")
    BY <1>t, <2>2 DEF CommitLayer, CommitTag, CommitFails, SkipLayoutOnly, Goto, Advance, Fails
  <2>3. CASE CommitStore
    BY <1>t, <2>3 DEF CommitStore, StoreCall, Return, Fails
  <2> QED BY <1>2, <2>1, <2>2, <2>3 DEF CommitStep
<1>3. CASE RevertStep
  <2>1. ASSUME NEW t \in Task, NEW allow \in BOOLEAN, RevertBegin(t, allow) PROVE StatusDuringCall'
    BY <1>t, <2>1 DEF RevertBegin, Revertible, Begin, NoCall
  <2>2. CASE RevertLayer
    <3>1. /\ pc = "revertLayer" /\ pc' = "revertTag" /\ UNCHANGED taskStatus
          /\ call'.task = call.task /\ call'.reverting = call.reverting
      BY <1>t, <2>2 DEF RevertLayer, Call
    <3> QED BY <1>t, <3>1
  <2>3. CASE RevertTag \/ RevertHide \/ RevertFails \/ SkipLayoutOnly("revertLayer", "revertHide")
    BY <1>t, <2>3 DEF RevertTag, RevertHide, RevertFails, SkipLayoutOnly, Goto, Advance, Fails
  <2>4. CASE RevertStore
    BY <1>t, <2>4 DEF RevertStore, StoreCall, Return, Fails
  <2> QED BY <1>3, <2>1, <2>2, <2>3, <2>4 DEF RevertStep
<1>4. CASE RestoreObject \/ RestoreEnds \/ Crash
  BY <1>t, <1>4 DEF RestoreObject, RestoreEnds, Crash, Retreat, Return
<1>5. ASSUME NEW t \in Task, NEW exact \in BOOLEAN, VerifyExecution(t, exact)
      PROVE  StatusDuringCall'
  BY <1>5 DEF VerifyExecution
<1>6. ASSUME NEW t \in AuditRequired, NEW evidence \in BOOLEAN, RenderTaskAudit(t, evidence)
      PROVE  StatusDuringCall'
  BY <1>6 DEF RenderTaskAudit
<1>7. CASE User \/ UNCHANGED vars
  BY <1>7 DEF User
<1> QED BY <1>1, <1>2, <1>3, <1>4, <1>5, <1>6, <1>7 DEF Next, ServerStep

\* A row, once written, stays.
LEMMA RecordedKept ==
    ASSUME TypeOK, [Next]_vars, NEW h \in Handle, entityRow[h].recorded
    PROVE  entityRow'[h].recorded
<1> USE DEF storeVars, vars
<1>1. CASE UNCHANGED entityRow
  BY <1>1
<1>2. CASE StoreRows
  <2>1. UNCHANGED entityRow \/ add_ai_task_entities(call.task)
    BY <1>2 DEF StoreRows, StoreCall
  <2> QED BY <2>1 DEF add_ai_task_entities
<1>3. CASE CommitStore
  <2>1. UNCHANGED entityRow
        \/ \E unreadable :
               update_task_entities_and_status(call.task,
                   [g \in Handle |-> [recorded |-> TRUE, layer |-> entity[g].layer,
                                      formal |-> entity[g].layer,
                                      tag |-> ReadBackTag(g, unreadable)]],
                   "committed")
    BY <1>3 DEF CommitStore, StoreCall
  <2> QED BY <2>1 DEF update_task_entities_and_status
<1>4. CASE RevertStore /\ entityRow' # entityRow
  <2>1. PICK unreadable :
            update_task_entities_and_status(call.task,
                [g \in Handle |-> [entityRow[g] EXCEPT !.layer = REVERT_LAYER,
                                                       !.tag = ReadBackTag(g, unreadable)]],
                "reverted")
    BY <1>4 DEF RevertStore, StoreCall
  <2>2. [entityRow[h] EXCEPT !.layer = REVERT_LAYER,
                             !.tag = ReadBackTag(h, unreadable)].recorded = entityRow[h].recorded
    <3>1. entityRow[h] \in Row
      BY DEF TypeOK, StoreTypeOK
    <3> QED BY <3>1 DEF Row
  <2> QED BY <2>1, <2>2 DEF update_task_entities_and_status
<1>5. CASE ExecuteStep
  BY <1>1, <1>2, <1>5
     DEF ExecuteStep, ExecuteRecord, ExecuteCreateTask, ExecuteRevalidate, DrawObject,
         FinalizeObject, LayoutDimension, DrawFails, RollbackCreated, RollbackEnds, StoreResult,
         StoreStatus, UndoHandle, UndoUnreachable, UndoEnds, ExceptResult, ExceptStatus, StoreCall,
         record_execution, create_ai_task, update_execution_result, update_ai_task
<1>6. CASE CommitStep
  BY <1>1, <1>3, <1>6
     DEF CommitStep, CommitBegin, CommitLayer, CommitTag, CommitFails, SkipLayoutOnly
<1>7. CASE RevertStep
  BY <1>1, <1>4, <1>7
     DEF RevertStep, RevertBegin, RevertLayer, RevertTag, RevertHide, RevertFails, SkipLayoutOnly
<1>8. ASSUME NEW s \in Task, NEW exact \in BOOLEAN, VerifyExecution(s, exact)
      PROVE  UNCHANGED entityRow
  BY <1>8 DEF VerifyExecution, update_ai_task
<1>9. ASSUME NEW s \in AuditRequired, NEW evidence \in BOOLEAN, RenderTaskAudit(s, evidence)
      PROVE  UNCHANGED entityRow
  BY <1>9 DEF RenderTaskAudit, save_audit
<1> QED
  BY <1>1, <1>5, <1>6, <1>7, <1>8, <1>9
     DEF Next, ServerStep, RestoreObject, RestoreEnds, Crash, User

\* The steps that write the execution record of a task.
LEMMA ExecutionKept ==
    ASSUME [Next]_vars
    PROVE  \/ UNCHANGED execution
           \/ \E t \in Task : ExecuteRecord(t)
           \/ StoreResult \/ ExceptResult
<1> USE DEF storeVars, vars
<1>1. CASE ExecuteStep
  BY <1>1
     DEF ExecuteStep, ExecuteCreateTask, ExecuteRevalidate, DrawObject, FinalizeObject,
         LayoutDimension, DrawFails, RollbackCreated, RollbackEnds, StoreRows, StoreStatus,
         UndoHandle, UndoUnreachable, UndoEnds, ExceptStatus, StoreCall, create_ai_task,
         add_ai_task_entities, update_ai_task
<1>2. CASE CommitStep
  BY <1>2
     DEF CommitStep, CommitBegin, CommitLayer, CommitTag, CommitStore, CommitFails, SkipLayoutOnly,
         StoreCall, update_task_entities_and_status
<1>3. CASE RevertStep
  BY <1>3 DEF RevertStep, RevertBegin, RevertLayer, RevertTag, RevertHide, RevertStore, RevertFails,
              SkipLayoutOnly, StoreCall, update_task_entities_and_status
<1>4. ASSUME NEW s \in Task, NEW exact \in BOOLEAN, VerifyExecution(s, exact)
      PROVE  UNCHANGED execution
  BY <1>4 DEF VerifyExecution, update_ai_task
<1>5. ASSUME NEW s \in AuditRequired, NEW evidence \in BOOLEAN, RenderTaskAudit(s, evidence)
      PROVE  UNCHANGED execution
  BY <1>5 DEF RenderTaskAudit, save_audit
<1> QED
  BY <1>1, <1>2, <1>3, <1>4, <1>5
     DEF Next, ServerStep, RestoreObject, RestoreEnds, Crash, User

\* The steps that write the status of a task.
LEMMA StatusKept ==
    ASSUME [Next]_vars
    PROVE  \/ UNCHANGED taskStatus
           \/ ExecuteCreateTask \/ StoreStatus \/ ExceptStatus
           \/ CommitStore \/ RevertStore
           \/ \E t \in Task, exact \in BOOLEAN : VerifyExecution(t, exact)
<1> USE DEF storeVars, vars
<1>1. CASE ExecuteStep
  BY <1>1
     DEF ExecuteStep, ExecuteRecord, ExecuteRevalidate, DrawObject, FinalizeObject,
         LayoutDimension, DrawFails, RollbackCreated, RollbackEnds, StoreResult, StoreRows,
         UndoHandle, UndoUnreachable, UndoEnds, ExceptResult, StoreCall, record_execution,
         update_execution_result, add_ai_task_entities
<1>2. CASE CommitStep
  BY <1>2 DEF CommitStep, CommitBegin, CommitLayer, CommitTag, CommitFails, SkipLayoutOnly
<1>3. CASE RevertStep
  BY <1>3
     DEF RevertStep, RevertBegin, RevertLayer, RevertTag, RevertHide, RevertFails, SkipLayoutOnly
<1>4. ASSUME NEW s \in AuditRequired, NEW evidence \in BOOLEAN, RenderTaskAudit(s, evidence)
      PROVE  UNCHANGED taskStatus
  BY <1>4 DEF RenderTaskAudit, save_audit
<1> QED BY <1>1, <1>2, <1>3, <1>4 DEF Next, ServerStep, RestoreObject, RestoreEnds, Crash, User

\* Only the task of the call, or of a verification, gets another status.
LEMMA StatusBy ==
    ASSUME TypeOK, [Next]_vars, NEW t \in Task, taskStatus'[t] # taskStatus[t]
    PROVE  \/ /\ t = call.task /\ pc # "idle"
              /\ \/ ExecuteCreateTask /\ taskStatus'[t] = "executing"
                 \/ /\ StoreStatus
                    /\ taskStatus'[t] = IF call.success THEN "executed" ELSE "failed"
                 \/ ExceptStatus /\ taskStatus'[t] = "failed"
                 \/ CommitStore /\ taskStatus'[t] = "committed"
                 \/ RevertStore /\ taskStatus'[t] = "reverted"
           \/ taskStatus'[t] \in {"verified", "failed"} /\ pc = "idle"
<1>t. taskStatus \in [Task -> TASK_STATUSES \cup {"none"}] /\ taskStatus' # taskStatus
  BY DEF TypeOK, StoreTypeOK
<1>1. CASE ExecuteCreateTask \/ StoreStatus \/ ExceptStatus
  <2>1. \/ ExecuteCreateTask /\ taskStatus' = [taskStatus EXCEPT ![call.task] = "executing"]
        \/ /\ StoreStatus
           /\ taskStatus' = [taskStatus EXCEPT ![call.task] =
                                 IF call.success THEN "executed" ELSE "failed"]
        \/ ExceptStatus /\ taskStatus' = [taskStatus EXCEPT ![call.task] = "failed"]
    BY <1>t, <1>1
       DEF ExecuteCreateTask, StoreStatus, ExceptStatus, StoreCall, create_ai_task, update_ai_task,
           storeVars
  <2>2. pc # "idle"
    BY <1>1 DEF ExecuteCreateTask, StoreStatus, ExceptStatus
  <2> QED BY <1>t, <2>1, <2>2
<1>2. CASE CommitStore \/ RevertStore
  <2>1. \/ CommitStore /\ taskStatus' = [taskStatus EXCEPT ![call.task] = "committed"]
        \/ RevertStore /\ taskStatus' = [taskStatus EXCEPT ![call.task] = "reverted"]
    BY <1>t, <1>2
       DEF CommitStore, RevertStore, StoreCall, update_task_entities_and_status, storeVars
  <2>2. pc # "idle"
    BY <1>2 DEF CommitStore, RevertStore
  <2> QED BY <1>t, <2>1, <2>2
<1>3. ASSUME NEW s \in Task, NEW exact \in BOOLEAN, VerifyExecution(s, exact)
      PROVE  taskStatus'[t] \in {"verified", "failed"} /\ pc = "idle"
  BY <1>t, <1>3 DEF VerifyExecution, update_ai_task
<1> QED BY <1>t, <1>1, <1>2, <1>3, StatusKept

LEMMA CompleteStep ==
    ASSUME TypeOK, AgreeInv, StatusDuringCall, CompleteSoFar, ExecutedIsComplete, [Next]_vars,
           ReadBackFails = FALSE
    PROVE  CompleteSoFar' /\ ExecutedIsComplete'
<1>t. CallFacts
  BY CallType
<1>a. /\ pc = "rows" => call.success
      /\ pc \in {"create", "revalidate", "draw", "finalize", "rollback"} => ~call.success
      /\ \A t \in Task : execution[t] = "none" => taskStatus[t] = "none"
  BY DEF AgreeInv
<1>1. CompleteSoFar'
  <2> USE DEF CallFacts, CompleteSoFar, storeVars, callVars, vars
  <2>1. CASE pc' \notin {"rows", "status"}
    BY <2>1
  <2>2. CASE StoreResult
    BY <1>t, <2>2
       DEF StoreResult, StoreCall, update_execution_result, Except, Goto, TypeOK, StoreTypeOK
  <2>3. CASE StoreRows
    <3>1. CASE pc' = "status"
      <4>1. add_ai_task_entities(call.task) /\ pc = "rows" /\ UNCHANGED call
        BY <1>a, <2>3, <3>1 DEF StoreRows, StoreCall, Except, Goto
      <4>2. \A i \in Position : <<call.task, i>> \in Handle
        BY <1>t, <4>1, HandleType
      <4> QED BY <3>1, <4>1, <4>2 DEF add_ai_task_entities
    <3>2. CASE pc' = "rows"
      BY <1>a, <2>3, <3>2 DEF StoreRows, StoreCall, Except, Goto
    <3> QED BY <2>1, <3>1, <3>2
  <2>4. CASE ExecuteStep /\ ~StoreResult /\ ~StoreRows /\ pc' \in {"rows", "status"}
    BY <1>a, <2>4
       DEF ExecuteStep, ExecuteRecord, ExecuteCreateTask, ExecuteRevalidate, DrawObject,
           FinalizeObject, LayoutDimension, DrawFails, RollbackCreated, RollbackEnds, StoreStatus,
           UndoHandle, UndoUnreachable, UndoEnds, ExceptResult, ExceptStatus, StoreCall, Begin,
           Goto, Return, Succeed, Retreat, Except
  <2>5. CASE CommitStep /\ pc' \in {"rows", "status"}
    BY <2>5
       DEF CommitStep, CommitBegin, CommitLayer, CommitTag, CommitStore, CommitFails,
           SkipLayoutOnly, StoreCall, Begin, Goto, Return, Advance, Fails
  <2>6. CASE RevertStep /\ pc' \in {"rows", "status"}
    BY <2>6
       DEF RevertStep, RevertBegin, RevertLayer, RevertTag, RevertHide, RevertStore, RevertFails,
           SkipLayoutOnly, StoreCall, Begin, Goto, Return, Advance, Fails
  <2>7. CASE RestoreObject \/ RestoreEnds \/ Crash
    BY <2>7 DEF RestoreObject, RestoreEnds, Crash, Retreat, Return
  <2>8. ASSUME NEW t \in Task, NEW exact \in BOOLEAN, VerifyExecution(t, exact) PROVE pc' = "idle"
    BY <2>8 DEF VerifyExecution
  <2>9. ASSUME NEW t \in AuditRequired, NEW evidence \in BOOLEAN, RenderTaskAudit(t, evidence)
        PROVE  pc' = "idle"
    BY <2>9 DEF RenderTaskAudit
  <2>10. CASE User \/ UNCHANGED vars
    BY <2>10 DEF User
  <2> QED
    BY <2>1, <2>2, <2>3, <2>4, <2>5, <2>6, <2>7, <2>8, <2>9, <2>10 DEF Next, ServerStep
<1>2. ASSUME NEW t \in Task, taskStatus'[t] = "executed"
      PROVE  execution'[t] = "passed" /\ \A i \in Position : entityRow'[<<t, i>>].recorded
  <2>1. execution[t] = "passed" /\ \A i \in Position : entityRow[<<t, i>>].recorded
    <3>1. CASE taskStatus[t] = "executed"
      BY <3>1 DEF ExecutedIsComplete
    <3>2. CASE taskStatus[t] # "executed"
      <4>1. StoreStatus /\ t = call.task /\ call.success
        BY <1>2, <3>2, StatusBy
      <4> QED BY <4>1 DEF StoreStatus, CompleteSoFar
    <3> QED BY <3>1, <3>2
  <2>2. \A i \in Position : entityRow'[<<t, i>>].recorded
    BY <2>1, HandleType, RecordedKept
  <2>3. taskStatus[t] \notin {"none", "executing"} \/ pc = "status"
    BY <1>2, StatusBy DEF StoreStatus
  <2>4. CASE UNCHANGED execution
    BY <2>1, <2>2, <2>4
  <2>5. ASSUME NEW s \in Task, ExecuteRecord(s) PROVE execution'[t] = execution[t]
    <3>1. s # t
      BY <2>1, <2>5 DEF ExecuteRecord
    <3> QED BY <2>5, <3>1 DEF ExecuteRecord, record_execution, TypeOK, StoreTypeOK
  <2>6. CASE StoreResult \/ ExceptResult
    <3>1. t # call.task
      BY <2>3, <2>6 DEF StatusDuringCall, Executing, ExecuteBefore, StoreResult, ExceptResult
    <3> QED
      BY <2>1, <2>6, <3>1
         DEF StoreResult, ExceptResult, StoreCall, update_execution_result, storeVars, TypeOK,
             StoreTypeOK
  <2> QED BY <2>1, <2>2, <2>4, <2>5, <2>6, ExecutionKept
<1> QED BY <1>1, <1>2 DEF ExecutedIsComplete

\* The steps of a revert, and how it is entered.
LEMMA RevertLoop ==
    ASSUME [Next]_vars, pc' \in Reverting,
           \A t \in Task, allow \in BOOLEAN : ~RevertBegin(t, allow)
    PROVE  /\ pc \in Reverting
           /\ \/ RevertLayer \/ RevertTag \/ RevertHide \/ SkipLayoutOnly("revertLayer", "revertHide")
              \/ User \/ UNCHANGED vars
<1> USE DEF Reverting, callVars, vars
<1>1. CASE ExecuteStep
  BY <1>1
     DEF ExecuteStep, ExecuteRecord, ExecuteCreateTask, ExecuteRevalidate, DrawObject,
         FinalizeObject, LayoutDimension, DrawFails, RollbackCreated, RollbackEnds, StoreResult,
         StoreRows, StoreStatus, UndoHandle, UndoUnreachable, UndoEnds, ExceptResult, ExceptStatus,
         StoreCall, Except, Succeed, Begin, Goto, Return, Retreat
<1>2. CASE CommitStep
  BY <1>2
     DEF CommitStep, CommitBegin, CommitLayer, CommitTag, CommitStore, CommitFails, SkipLayoutOnly,
         StoreCall, Begin, Goto, Return, Advance, Fails
<1>3. CASE RevertStep
  BY <1>3 DEF RevertStep, RevertLayer, RevertTag, RevertHide, RevertStore, RevertFails,
              SkipLayoutOnly, StoreCall, Goto, Return, Advance, Fails
<1>4. CASE RestoreObject \/ RestoreEnds \/ Crash
  BY <1>4 DEF RestoreObject, RestoreEnds, Crash, Retreat, Return
<1>5. ASSUME NEW t \in Task, NEW exact \in BOOLEAN, VerifyExecution(t, exact) PROVE pc' = "idle"
  BY <1>5 DEF VerifyExecution
<1>6. ASSUME NEW t \in AuditRequired, NEW evidence \in BOOLEAN, RenderTaskAudit(t, evidence)
      PROVE  pc' = "idle"
  BY <1>6 DEF RenderTaskAudit
<1>7. CASE User \/ UNCHANGED vars
  BY <1>7 DEF User
<1> QED BY <1>1, <1>2, <1>3, <1>4, <1>5, <1>6, <1>7 DEF Next, ServerStep

\* What a call holds stays until it returns.
LEMMA CallKept ==
    ASSUME TypeOK, [Next]_vars, pc # "idle", pc' # "idle"
    PROVE  /\ call'.task = call.task /\ call'.reverting = call.reverting
           /\ call'.snapshot = call.snapshot /\ call'.layerWasOn = call.layerWasOn
           /\ pc' = "restore" => pc \in Committing \cup Reverting \cup {"restore"}
<1> USE DEF Committing, Reverting, callVars, vars
<1>c. call \in Call
  BY DEF TypeOK
<1>1. CASE ExecuteStep
  <2>1. UNCHANGED call \/ call' = [call EXCEPT !.success = TRUE]
    BY <1>1
       DEF ExecuteStep, ExecuteRecord, ExecuteCreateTask, ExecuteRevalidate, DrawObject,
           FinalizeObject, LayoutDimension, DrawFails, RollbackCreated, RollbackEnds, StoreResult,
           StoreRows, StoreStatus, UndoHandle, UndoUnreachable, UndoEnds, ExceptResult,
           ExceptStatus, StoreCall, Except, Succeed, Begin, Goto, Return, Retreat
  <2>2. pc' # "restore"
    BY <1>1
       DEF ExecuteStep, ExecuteRecord, ExecuteCreateTask, ExecuteRevalidate, DrawObject,
           FinalizeObject, LayoutDimension, DrawFails, RollbackCreated, RollbackEnds, StoreResult,
           StoreRows, StoreStatus, UndoHandle, UndoUnreachable, UndoEnds, ExceptResult,
           ExceptStatus, StoreCall, Except, Succeed, Begin, Goto, Return, Retreat
  <2> QED BY <1>c, <2>1, <2>2 DEF Call
<1>2. CASE CommitStep
  BY <1>2
     DEF CommitStep, CommitBegin, CommitLayer, CommitTag, CommitStore, CommitFails, SkipLayoutOnly,
         StoreCall, Begin, Goto, Return, Advance, Fails
<1>3. CASE RevertStep
  <2>1. UNCHANGED call \/ call' = [call EXCEPT !.source = entity[Here].layer]
    BY <1>3
       DEF RevertStep, RevertBegin, RevertLayer, RevertTag, RevertHide, RevertStore, RevertFails,
           SkipLayoutOnly, StoreCall, Begin, Goto, Return, Advance, Fails
  <2>2. pc \in Reverting
    BY <1>3
       DEF RevertStep, RevertBegin, RevertLayer, RevertTag, RevertHide, RevertStore, RevertFails,
           SkipLayoutOnly, Begin
  <2> QED BY <1>c, <2>1, <2>2 DEF Call
<1>4. CASE RestoreObject \/ RestoreEnds \/ Crash
  BY <1>4 DEF RestoreObject, RestoreEnds, Crash, Retreat, Return
<1>5. CASE User \/ UNCHANGED vars
  BY <1>5 DEF User
<1> QED BY <1>1, <1>2, <1>3, <1>4, <1>5 DEF Next, ServerStep, VerifyExecution, RenderTaskAudit

\* The tag a commit or a revert writes.
LEMMA TagWritten ==
    ASSUME TypeOK, LoopInv, CommitTag \/ RevertTag
    PROVE  /\ \A h \in Handle : h # Here => Drawn(h)' = Drawn(h) /\ entity'[h].tag = entity[h].tag
           /\ CommitTag => entity'[Here].tag.status = "committed"
           /\ RevertTag => entity'[Here].tag.status = "reverted"
<1>e. entity \in [Handle -> Object]
  BY DEF TypeOK, DrawingTypeOK
<1>h. at \in Position /\ Here \in Handle
  <2>1. at \in Created /\ pc # "idle"
    BY DEF CommitTag, RevertTag, LoopInv
  <2> QED BY <2>1, CreatedType, HandleType, ActiveTask DEF Here
<1>1. CASE CommitTag
  <2> DEFINE tag == [call.snapshot[at].tag EXCEPT !.status = "committed"]
  <2>1. call.snapshot[at].tag \in Tag
    BY <1>h DEF TypeOK, Call, Object
  <2>2. tag.status = "committed"
    BY <2>1 DEF Tag
  <2>3. pc = "commitTag" /\ entity' = [entity EXCEPT ![Here].tag = tag]
    BY <1>1 DEF CommitTag, SetTag
  <2> HIDE DEF tag
  <2> QED BY <1>e, <1>h, <2>2, <2>3 DEF Drawn, Object, RevertTag
<1>2. CASE RevertTag
  <2>1. /\ pc = "revertTag"
        /\ entity' = [entity EXCEPT ![Here].tag = [status |-> "reverted", from |-> call.source]]
    BY <1>2 DEF RevertTag, SetTag
  <2> QED BY <1>e, <1>h, <2>1 DEF Drawn, Object, CommitTag
<1> QED BY <1>1, <1>2

\* The steps that tag an object or draw one.
LEMMA TagsBy ==
    ASSUME TypeOK, LoopInv, [Next]_vars, NEW h \in Handle, Drawn(h)'
    PROVE  \/ Drawn(h) /\ entity'[h].tag = entity[h].tag
           \/ /\ h = Here
              /\ \/ DrawObject \/ FinalizeObject
                 \/ CommitTag /\ entity'[h].tag.status = "committed"
                 \/ RevertTag /\ entity'[h].tag.status = "reverted"
                 \/ RestoreObject /\ entity'[h].tag = call.snapshot[at].tag /\ at \in Created
<1> USE DEF drawingVars, vars
<1>e. entity \in [Handle -> Object]
  BY DEF TypeOK, DrawingTypeOK
<1>k. CASE TagsKept
  BY <1>k DEF TagsKept
<1>u. CASE UNCHANGED entity
  BY <1>u, <1>k, TagsKeptOps
<1>1. CASE ExecuteStep
  <2>1. CASE DrawObject
    BY <1>e, <2>1 DEF DrawObject, AddObject, Drawn
  <2>2. CASE FinalizeObject
    BY <1>e, <2>2 DEF FinalizeObject, Drawn, Object
  <2>3. CASE LayoutDimension \/ DrawFails \/ RollbackCreated \/ UndoHandle
    BY <1>k, <2>3, TagsKeptOps DEF LayoutDimension, DrawFails, RollbackCreated, UndoHandle
  <2> QED
    BY <1>1, <1>u, <2>1, <2>2, <2>3
       DEF ExecuteStep, ExecuteRecord, ExecuteCreateTask, ExecuteRevalidate, RollbackEnds,
           StoreResult, StoreRows, StoreStatus, UndoUnreachable, UndoEnds, ExceptResult,
           ExceptStatus
<1>2. CASE CommitStep
  <2>1. CASE CommitLayer
    BY <1>k, <2>1, TagsKeptOps DEF CommitLayer
  <2>2. CASE CommitTag
    BY <2>2, TagWritten
  <2> QED
    BY <1>2, <1>u, <2>1, <2>2 DEF CommitStep, CommitBegin, CommitStore, CommitFails, SkipLayoutOnly
<1>3. CASE RevertStep
  <2>1. CASE RevertLayer
    BY <1>k, <2>1, TagsKeptOps DEF RevertLayer
  <2>2. CASE RevertTag
    BY <2>2, TagWritten
  <2> QED
    BY <1>3, <1>u, <2>1, <2>2
       DEF RevertStep, RevertBegin, RevertHide, RevertStore, RevertFails, SkipLayoutOnly
<1>4. CASE RestoreObject
  <2>1. ASSUME Restored(Here, call.snapshot[at]), at \in Created
        PROVE  \/ Drawn(h) /\ entity'[h].tag = entity[h].tag
               \/ h = Here /\ entity'[h].tag = call.snapshot[at].tag
    BY <1>e, <2>1 DEF Restored, Drawn, Object
  <2> QED BY <1>k, <1>4, <2>1, TagsKeptOps DEF RestoreObject
<1>5. CASE User
  BY <1>k, <1>5, TagsKeptOps DEF User
<1> QED
  BY <1>u, <1>1, <1>2, <1>3, <1>4, <1>5
     DEF Next, ServerStep, VerifyExecution, RenderTaskAudit, RestoreEnds, Crash

\* The steps that show or hide the isolation layer.
LEMMA LayerOnBy ==
    ASSUME [Next]_vars, revertLayerOn' # revertLayerOn
    PROVE  \/ RevertHide /\ ~revertLayerOn'
           \/ RestoreEnds /\ call.reverting /\ revertLayerOn' = call.layerWasOn
<1> USE DEF drawingVars, vars
<1>1. ~ExecuteStep
  BY DEF ExecuteStep, ExecuteRecord, ExecuteCreateTask, ExecuteRevalidate, DrawObject,
         FinalizeObject, LayoutDimension, DrawFails, RollbackCreated, RollbackEnds, StoreResult,
         StoreRows, StoreStatus, UndoHandle, UndoUnreachable, UndoEnds, ExceptResult, ExceptStatus
<1>2. ~CommitStep
  BY DEF CommitStep, CommitBegin, CommitLayer, CommitTag, CommitStore, CommitFails, SkipLayoutOnly
<1>3. RevertStep => RevertHide
  BY DEF RevertStep, RevertBegin, RevertLayer, RevertTag, RevertStore, RevertFails, SkipLayoutOnly
<1>4. ~Crash /\ ~RestoreObject /\ ~User
  BY DEF Crash, RestoreObject, User, UserEdit
<1>5. ASSUME NEW t \in Task, NEW exact \in BOOLEAN, VerifyExecution(t, exact) PROVE FALSE
  BY <1>5 DEF VerifyExecution
<1>6. ASSUME NEW t \in AuditRequired, NEW evidence \in BOOLEAN, RenderTaskAudit(t, evidence)
      PROVE  FALSE
  BY <1>6 DEF RenderTaskAudit
<1> QED
  BY <1>1, <1>2, <1>3, <1>4, <1>5, <1>6
     DEF Next, ServerStep, RevertHide, RestoreEnds, RestoredLayerOn

\* The status of the task a step of a call may tag an object of.
LEMMA TaggedStatus ==
    ASSUME TypeOK, StatusDuringCall, Presented,
           NEW i \in Created, Here = <<call.task, i>>
    PROVE  /\ DrawObject \/ FinalizeObject => taskStatus[call.task] \in {"none", "executing"}
           /\ CommitTag => taskStatus[call.task] = "verified"
           /\ RevertTag => taskStatus[call.task] \in Revertibles
           /\ RestoreObject => \/ taskStatus[call.task] \in Revertibles \ {"committed"}
                               \/ /\ taskStatus[call.task] = "committed"
                                  /\ call.snapshot[i].tag.status \in {"committed", "reverted"}
BY DEF StatusDuringCall, Presented, DrawObject, FinalizeObject, CommitTag, RevertTag, RestoreObject,
       Executing, ExecuteBefore, Committing, Reverting, Revertibles

LEMMA StatusMatchesStep ==
    ASSUME TypeOK, LoopInv, StatusDuringCall, Presented, LayerRemembered, StatusMatchesDrawing,
           [Next]_vars
    PROVE  StatusMatchesDrawing'
<1>t. CallFacts
  BY CallType
<1>1. ASSUME NEW t \in Task, taskStatus'[t] = "reverted", revertLayerOn' PROVE FALSE
  <2>1. CASE taskStatus[t] = "reverted"
    <3>1. ~revertLayerOn
      BY <2>1 DEF StatusMatchesDrawing
    <3>2. RestoreEnds /\ call.reverting /\ call.layerWasOn
      BY <1>1, <3>1, LayerOnBy
    <3> QED BY <2>1, <3>2 DEF LayerRemembered, RestoreEnds
  <2>2. CASE taskStatus[t] # "reverted"
    <3>1. RevertStore
      BY <1>1, <2>2, StatusBy
    <3> QED BY <1>1, <3>1 DEF RevertStore, Presented, drawingVars
  <2> QED BY <2>1, <2>2
<1>2. ASSUME NEW t \in Task, NEW i \in Created, Drawn(<<t, i>>)',
             taskStatus'[t] \in {"committed", "reverted"}
      PROVE  entity'[<<t, i>>].tag.status
                 \in IF taskStatus'[t] = "reverted" THEN {"reverted"} ELSE {"committed", "reverted"}
  <2> DEFINE h == <<t, i>>
  <2>h. h \in Handle /\ h[1] = t /\ h[2] = i
    BY <1>t DEF CallFacts
  <2>1. CASE taskStatus'[t] # taskStatus[t]
    <3>1. /\ t = call.task
          /\ \/ CommitStore /\ taskStatus'[t] = "committed"
             \/ RevertStore /\ taskStatus'[t] = "reverted"
      BY <1>2, <2>1, StatusBy
    <3>2. UNCHANGED entity /\ Drawn(h)
      BY <1>2, <3>1 DEF CommitStore, RevertStore, drawingVars, Drawn
    <3>3. Changed(i)
      BY <3>1, <1>t DEF CommitStore, RevertStore, LoopInv, Changed, CallFacts
    <3> QED BY <3>1, <3>2, <3>3
            DEF CommitStore, RevertStore, Presented, TagIs, Committing, Reverting
  <2>2. CASE taskStatus'[t] = taskStatus[t]
    <3>1. CASE Drawn(h) /\ entity'[h].tag = entity[h].tag
      BY <1>2, <2>2, <3>1 DEF StatusMatchesDrawing
    <3>2. CASE h = Here
      <4>1. t = call.task /\ i = at
        BY <3>2 DEF Here
      <4>2. CASE Drawn(h) /\ entity'[h].tag = entity[h].tag
        BY <3>1, <4>2
      <4>3. CASE DrawObject \/ FinalizeObject
        BY <1>2, <2>2, <3>2, <4>1, <4>3, TaggedStatus
      <4>4. CASE CommitTag
        BY <1>2, <2>2, <3>2, <4>1, <4>4, TaggedStatus
      <4>5. CASE RevertTag /\ entity'[h].tag.status = "reverted"
        BY <4>5
      <4>6. CASE RestoreObject /\ entity'[h].tag = call.snapshot[at].tag
        BY <1>2, <2>2, <3>2, <4>1, <4>6, TaggedStatus DEF Revertibles
      <4> QED BY <1>2, <2>h, <4>2, <4>3, <4>4, <4>5, <4>6, TagsBy
    <3> QED BY <1>2, <2>h, <3>1, <3>2, TagsBy
  <2> QED BY <2>1, <2>2
<1> QED BY <1>1, <1>2 DEF StatusMatchesDrawing

\* The steps that begin a call.
LEMMA BeginBy ==
    ASSUME [Next]_vars, pc = "idle", pc' # "idle"
    PROVE  \/ \E t \in Task : ExecuteRecord(t)
           \/ \E t \in Task, layer_mapping \in LayerMappings : CommitBegin(t, layer_mapping)
           \/ \E t \in Task, allow \in BOOLEAN : RevertBegin(t, allow)
<1> USE DEF callVars, vars
<1>1. CASE ExecuteStep
  BY <1>1
     DEF ExecuteStep, ExecuteCreateTask, ExecuteRevalidate, DrawObject, FinalizeObject,
         LayoutDimension, DrawFails, RollbackCreated, RollbackEnds, StoreResult, StoreRows,
         StoreStatus, UndoHandle, UndoUnreachable, UndoEnds, ExceptResult, ExceptStatus
<1>2. CASE CommitStep
  BY <1>2 DEF CommitStep, CommitLayer, CommitTag, CommitStore, CommitFails, SkipLayoutOnly
<1>3. CASE RevertStep
  BY <1>3
     DEF RevertStep, RevertLayer, RevertTag, RevertHide, RevertStore, RevertFails, SkipLayoutOnly
<1>4. CASE RestoreObject \/ RestoreEnds \/ Crash \/ User \/ UNCHANGED vars
  BY <1>4 DEF RestoreObject, RestoreEnds, Crash, User
<1> QED BY <1>1, <1>2, <1>3, <1>4 DEF Next, ServerStep, VerifyExecution, RenderTaskAudit

LEMMA PresentedReturns ==
    ASSUME CommitStore \/ RevertStore, taskStatus' # taskStatus, ReadBackFails = FALSE
    PROVE  pc' = "idle"
BY DEF CommitStore, RevertStore, StoreCall, Return, storeVars

LEMMA LayerRememberedStep ==
    ASSUME TypeOK, LayerRemembered, StatusMatchesDrawing, [Next]_vars, ReadBackFails = FALSE
    PROVE  LayerRemembered'
<1> SUFFICES ASSUME pc' # "idle", call'.reverting, NEW t \in Task, taskStatus'[t] = "reverted"
             PROVE  ~call'.layerWasOn
  BY DEF LayerRemembered
<1>1. taskStatus[t] = "reverted"
  <2>1. CASE taskStatus'[t] # taskStatus[t]
    BY <2>1, StatusBy, PresentedReturns
  <2> QED BY <2>1
<1>2. CASE pc # "idle"
  BY <1>1, <1>2, CallKept DEF LayerRemembered
<1>3. CASE pc = "idle"
  <2>1. ASSUME NEW s \in Task, ExecuteRecord(s) PROVE ~call'.reverting
    BY <2>1 DEF ExecuteRecord, Begin, Return, NoCall
  <2>2. ASSUME NEW s \in Task, NEW layer_mapping \in LayerMappings, CommitBegin(s, layer_mapping)
        PROVE  ~call'.reverting
    BY <2>2 DEF CommitBegin, Begin, NoCall
  <2>3. ASSUME NEW s \in Task, NEW allow \in BOOLEAN, RevertBegin(s, allow)
        PROVE  call'.layerWasOn = revertLayerOn
    BY <2>3 DEF RevertBegin, Begin, NoCall
  <2> QED BY <1>1, <1>3, <2>1, <2>2, <2>3, BeginBy DEF StatusMatchesDrawing
<1> QED BY <1>2, <1>3

LEMMA PresentedStep ==
    ASSUME TypeOK, LoopInv, StatusDuringCall, Presented, StatusMatchesDrawing, [Next]_vars,
           ReadBackFails = FALSE
    PROVE  Presented'
<1>t. CallFacts
  BY CallType
<1>n. at \in Nat /\ PlanLength \in Nat /\ \A i \in Created : i \in Nat /\ i > 0
  BY <1>t DEF CallFacts
<1>h. ASSUME NEW i \in Created, pc # "idle" PROVE <<call.task, i>> \in Handle
  BY <1>h, <1>t DEF CallFacts
<1>k. ASSUME TagsKept, NEW i \in Created, pc # "idle",
             entity'[<<call.task, i>>].state = "drawn"
      PROVE  Drawn(<<call.task, i>>) /\ entity'[<<call.task, i>>].tag = entity[<<call.task, i>>].tag
  BY <1>h, <1>k DEF TagsKept, Drawn
<1>1. ASSUME pc' \in Committing, NEW i \in Created, Changed(i)',
             entity'[<<call'.task, i>>].state = "drawn"
      PROVE  entity'[<<call'.task, i>>].tag.status = "committed"
  <2>1. ASSUME NEW t \in Task, NEW layer_mapping \in LayerMappings, CommitBegin(t, layer_mapping)
        PROVE  FALSE
    BY <1>1, <1>t, <2>1 DEF CommitBegin, Begin, Changed, CallFacts
  <2>2. pc \in Committing /\ UNCHANGED call
    BY <1>1, <2>1, CommittingKept
  <2>p. /\ pc # "idle"
        /\ Changed(i) /\ Drawn(<<call.task, i>>) => entity[<<call.task, i>>].tag.status = "committed"
    BY <2>2 DEF Presented, TagIs, Committing
  <2>3. CASE CommitTag
    <3>1. CASE <<call.task, i>> = Here
      BY <2>2, <2>3, <3>1, TagWritten
    <3>2. CASE <<call.task, i>> # Here
      <4>1. Changed(i)
        <5>1. /\ i # at /\ pc = "commitTag"
              /\ \/ at = PlanLength /\ pc' = "commitStore" /\ at' = at
                 \/ pc' = "commitLayer" /\ at' = at + 1
          BY <2>3, <3>2 DEF CommitTag, Advance, Here
        <5> QED BY <1>1, <1>n, <5>1 DEF Changed
      <4> QED BY <1>1, <1>h, <2>2, <2>3, <2>p, <3>2, <4>1, TagWritten DEF Drawn
    <3> QED BY <3>1, <3>2
  <2>4. CASE CommitLayer \/ SkipLayoutOnly("commitLayer", "commitStore") \/ User \/ UNCHANGED vars
    <3>1. TagsKept
      BY <2>4, TagsKeptOps DEF CommitLayer, SkipLayoutOnly, User, vars, drawingVars
    <3>2. Changed(i)
      <4>1. \/ pc = "commitLayer" /\ pc' = "commitTag" /\ at' = at
            \/ /\ pc = "commitLayer" /\ i # at
               /\ \/ at = PlanLength /\ pc' = "commitStore" /\ at' = at
                  \/ pc' = "commitLayer" /\ at' = at + 1
            \/ UNCHANGED <<pc, at>>
        BY <2>4 DEF CommitLayer, SkipLayoutOnly, User, vars, callVars, Goto, Advance, Created
      <4> QED BY <1>1, <1>n, <4>1 DEF Changed
    <3> QED BY <1>1, <1>k, <2>2, <2>p, <3>1, <3>2
  <2> QED BY <1>1, <2>2, <2>3, <2>4, CommitLoop
<1>2. ASSUME pc' \in Reverting, NEW i \in Created, Changed(i)',
             entity'[<<call'.task, i>>].state = "drawn"
      PROVE  entity'[<<call'.task, i>>].tag.status = "reverted"
  <2>1. ASSUME NEW t \in Task, NEW allow \in BOOLEAN, RevertBegin(t, allow)
        PROVE  FALSE
    BY <1>2, <1>t, <2>1 DEF RevertBegin, Begin, Changed, CallFacts
  <2>2. pc \in Reverting /\ pc # "idle" /\ pc' # "idle"
    BY <1>2, <2>1, RevertLoop DEF Reverting
  <2>c. call'.task = call.task
    BY <2>2, CallKept
  <2>p. Changed(i) /\ Drawn(<<call.task, i>>) => entity[<<call.task, i>>].tag.status = "reverted"
    BY <2>2 DEF Presented, TagIs
  <2>3. CASE RevertTag
    <3>1. CASE <<call.task, i>> = Here
      BY <2>c, <2>3, <3>1, TagWritten
    <3>2. CASE <<call.task, i>> # Here
      <4>1. Changed(i)
        <5>1. /\ i # at /\ pc = "revertTag"
              /\ \/ at = PlanLength /\ pc' = "revertHide" /\ at' = at
                 \/ pc' = "revertLayer" /\ at' = at + 1
          BY <2>3, <3>2 DEF RevertTag, Advance, Here
        <5> QED BY <1>2, <1>n, <5>1 DEF Changed
      <4> QED BY <1>2, <1>h, <2>2, <2>c, <2>3, <2>p, <3>2, <4>1, TagWritten DEF Drawn
    <3> QED BY <3>1, <3>2
  <2>4. CASE \/ RevertLayer \/ RevertHide \/ SkipLayoutOnly("revertLayer", "revertHide")
             \/ User \/ UNCHANGED vars
    <3>1. TagsKept
      BY <2>4, TagsKeptOps DEF RevertLayer, RevertHide, SkipLayoutOnly, User, vars, drawingVars
    <3>2. Changed(i)
      <4>1. \/ pc = "revertLayer" /\ pc' = "revertTag" /\ at' = at
            \/ pc = "revertHide" /\ pc' = "revertStore" /\ at' = at
            \/ /\ pc = "revertLayer" /\ i # at
               /\ \/ at = PlanLength /\ pc' = "revertHide" /\ at' = at
                  \/ pc' = "revertLayer" /\ at' = at + 1
            \/ UNCHANGED <<pc, at>>
        BY <2>4
           DEF RevertLayer, RevertHide, SkipLayoutOnly, User, vars, callVars, Goto, Advance,
               Created
      <4> QED BY <1>2, <1>n, <4>1 DEF Changed
    <3> QED BY <1>2, <1>k, <2>2, <2>c, <2>p, <3>1, <3>2
  <2> QED BY <1>2, <2>1, <2>3, <2>4, RevertLoop
<1>3. ASSUME pc' = "revertStore" PROVE ~revertLayerOn'
  <2>1. ASSUME NEW t \in Task, NEW allow \in BOOLEAN, RevertBegin(t, allow) PROVE FALSE
    BY <1>3, <2>1 DEF RevertBegin, Begin
  <2>2. RevertHide \/ User \/ UNCHANGED vars
    BY <1>3, <2>1, RevertLoop DEF RevertLayer, RevertTag, SkipLayoutOnly, Advance, Reverting
  <2> QED BY <1>3, <2>2 DEF RevertHide, User, UserEdit, vars, callVars, drawingVars, Presented
<1>4. ASSUME pc' \in Reverting \cup {"restore"}, taskStatus'[call'.task] = "committed",
             NEW i \in Created
      PROVE  call'.snapshot[i].tag.status \in {"committed", "reverted"}
  <2>1. CASE pc = "idle"
    <3>1. PICK t \in Task, allow \in BOOLEAN : RevertBegin(t, allow)
      BY <1>4, <2>1, BeginBy DEF ExecuteRecord, CommitBegin, Begin, Return, Reverting
    <3>2. /\ call'.task = t /\ call'.snapshot = Snapshot(t) /\ UNCHANGED taskStatus
          /\ OwnedLoaded(t)
      BY <3>1 DEF RevertBegin, Begin, NoCall, storeVars
    <3>3. Snapshot(t)[i] = entity[<<t, i>>] /\ Drawn(<<t, i>>)
      BY <3>2, CreatedType DEF Snapshot, OwnedLoaded, ProvesOwnership
    <3> QED BY <1>4, <3>2, <3>3 DEF StatusMatchesDrawing
  <2>2. CASE pc # "idle"
    <3>1. /\ pc' # "idle" /\ call'.task = call.task /\ call'.snapshot = call.snapshot
          /\ pc \in Committing \cup Reverting \cup {"restore"}
      <4>1. pc' # "idle"
        BY <1>4 DEF Reverting
      <4>2. pc' \in Reverting => pc \in Reverting
        BY <2>2, RevertLoop DEF RevertBegin, Begin
      <4> QED BY <1>4, <2>2, <4>1, <4>2, CallKept
    <3>2. call.task \in Task
      BY <2>2, ActiveTask
    <3>3. taskStatus[call.task] = "committed"
      BY <1>4, <2>2, <3>1, <3>2, StatusBy, PresentedReturns
    <3>4. pc \notin Committing
      BY <3>3 DEF StatusDuringCall
    <3> QED BY <3>1, <3>3, <3>4 DEF Presented
  <2> QED BY <2>1, <2>2
<1> QED BY <1>1, <1>2, <1>3, <1>4 DEF Presented, TagIs, Drawn

LEMMA StatusStep ==
    ASSUME TypeOK, LoopInv, AgreeInv, StatusInv, [Next]_vars, ReadBackFails = FALSE
    PROVE  StatusInv'
BY StatusCallStep, CompleteStep, PresentedStep, LayerRememberedStep, StatusMatchesStep DEF StatusInv

LEMMA StatusHolds ==
    ASSUME ReadBackFails = FALSE
    PROVE  Spec => []StatusInv
<1>1. ASSUME Init PROVE StatusInv
  <2>1. pc = "idle" /\ ~call.reverting /\ \A t \in Task : taskStatus[t] = "none"
    BY <1>1 DEF Init, StoreInit, NoCall
  <2> QED
    BY <2>1
       DEF StatusInv, StatusDuringCall, CompleteSoFar, Presented, LayerRemembered,
           StatusMatchesDrawing, ExecutedIsComplete, Executing, ExecuteBefore, Committing,
           Reverting
<1>2. TypeOK /\ LoopInv /\ AgreeInv /\ StatusInv /\ [Next]_vars => StatusInv'
  BY StatusStep
<1> QED BY <1>1, <1>2, TypeCorrect, LoopHolds, AgreeHolds, PTL DEF Spec

\* A task is "executed" only when its execution is recorded as passed and all
\* its rows are written, if the reads that end the store's methods succeed.
THEOREM ExecutedIsCompleteHolds ==
    ASSUME ReadBackFails = FALSE
    PROVE  Spec => []ExecutedIsComplete
<1>1. StatusInv => ExecutedIsComplete
  BY DEF StatusInv
<1> QED BY <1>1, StatusHolds, PTL

\* The status of a committed and of a reverted task is what its objects in the
\* drawing say, through failures, crashes and the edits of users.
THEOREM StatusMatchesDrawingHolds ==
    ASSUME ReadBackFails = FALSE
    PROVE  Spec => []StatusMatchesDrawing
<1>1. StatusInv => StatusMatchesDrawing
  BY DEF StatusInv
<1> QED BY <1>1, StatusHolds, PTL

-----------------------------------------------------------------------------
(* TasksAtomic, proved.                                                    *)

\* An execution that was recorded once stays recorded.
LEMMA ExecutionStays ==
    ASSUME TypeOK, [Next]_vars, NEW t \in Task, execution[t] # "none"
    PROVE  execution'[t] # "none"
<1>t. execution \in [Task -> {"none", "pending", "passed", "failed"}]
  BY DEF TypeOK, StoreTypeOK
<1>1. ASSUME NEW s \in Task, ExecuteRecord(s) PROVE execution'[t] # "none"
  BY <1>t, <1>1 DEF ExecuteRecord, record_execution
<1>2. CASE StoreResult \/ ExceptResult
  BY <1>t, <1>2
     DEF StoreResult, ExceptResult, StoreCall, update_execution_result, storeVars
<1> QED BY <1>1, <1>2, ExecutionKept

\* A call begins only when none is active.
LEMMA NoneBegins ==
    ASSUME pc # "idle"
    PROVE  /\ \A t \in Task, layer_mapping \in LayerMappings : ~CommitBegin(t, layer_mapping)
           /\ \A t \in Task, allow \in BOOLEAN : ~RevertBegin(t, allow)
<1>1. ASSUME NEW t, NEW layer_mapping, CommitBegin(t, layer_mapping) PROVE FALSE
  BY <1>1 DEF CommitBegin, Begin
<1>2. ASSUME NEW t, NEW allow, RevertBegin(t, allow) PROVE FALSE
  BY <1>2 DEF RevertBegin, Begin
<1> QED BY <1>1, <1>2

LEMMA RevertStoreParts ==
    ASSUME RevertStore
    PROVE  /\ pc = "revertStore" /\ UNCHANGED <<entity, revertLayerOn, torn>>
           /\ Return \/ Fails(0)
<1>1. Return \/ Fails(0)
  BY Zenon DEF RevertStore, StoreCall
<1>2. pc = "revertStore" /\ UNCHANGED <<drawingVars, fileVars, torn>>
  BY Zenon DEF RevertStore
<1> QED BY <1>1, <1>2 DEF drawingVars

\* A lost task stays lost; only the task of the call can become lost.
LEMMA TornGrows ==
    ASSUME [Next]_vars
    PROVE  UNCHANGED torn \/ (pc # "idle" /\ ReportFailure)
<1> USE DEF fileVars, vars
<1>1. CASE ExecuteStep
  BY <1>1
     DEF ExecuteStep, ExecuteRecord, ExecuteCreateTask, ExecuteRevalidate, DrawObject,
         FinalizeObject, LayoutDimension, DrawFails, RollbackCreated, RollbackEnds, StoreResult,
         StoreRows, StoreStatus, UndoHandle, UndoUnreachable, UndoEnds, ExceptResult, ExceptStatus
<1>2. CASE CommitStep
  <2>1. ASSUME CommitStore PROVE UNCHANGED torn
    BY <2>1, Zenon DEF CommitStore, drawingVars, fileVars
  <2>2. ASSUME NEW t, NEW layer_mapping, CommitBegin(t, layer_mapping) PROVE UNCHANGED torn
    BY <2>2 DEF CommitBegin
  <2> QED
    BY <1>2, <2>1, <2>2 DEF CommitStep, CommitLayer, CommitTag, CommitFails, SkipLayoutOnly
<1>3. CASE RevertStep
  <2>1. ASSUME NEW t, NEW allow, RevertBegin(t, allow) PROVE UNCHANGED torn
    BY <2>1 DEF RevertBegin
  <2> QED
    BY <1>3, <2>1, RevertStoreParts
       DEF RevertStep, RevertLayer, RevertTag, RevertHide, RevertFails, SkipLayoutOnly
<1>4. CASE RestoreObject \/ RestoreEnds \/ Crash \/ User
  BY <1>4 DEF RestoreObject, RestoreEnds, Crash, User, ReportFailure
<1> QED BY <1>1, <1>2, <1>3, <1>4 DEF Next, ServerStep, VerifyExecution, RenderTaskAudit

LEMMA NeverDrawnStep ==
    ASSUME TypeOK, LoopInv, AgreeInv, NeverDrawn, [Next]_vars
    PROVE  NeverDrawn'
<1> SUFFICES ASSUME NEW t \in Task, NEW i \in Created, execution'[t] = "none", Drawn(<<t, i>>)'
             PROVE  FALSE
  BY DEF NeverDrawn
<1>1. execution[t] = "none"
  BY ExecutionStays
<1>2. <<t, i>> \in Handle /\ ~Drawn(<<t, i>>)
  BY <1>1, CallType DEF NeverDrawn, CallFacts
<1>3. /\ <<t, i>> = Here
      /\ DrawObject \/ FinalizeObject \/ CommitTag \/ RevertTag \/ RestoreObject
  BY <1>2, TagsBy
<1>4. pc # "idle" /\ call.task = t
  BY <1>3 DEF DrawObject, FinalizeObject, CommitTag, RevertTag, RestoreObject, Here
<1> QED BY <1>1, <1>4 DEF AgreeInv

\* No step outside an execution leads into one, but for its first.
LEMMA ExecutingBy ==
    ASSUME [Next]_vars, pc' \in Executing
    PROVE  ExecuteStep \/ (User /\ UNCHANGED <<callVars, torn>>) \/ UNCHANGED vars
<1> USE DEF Executing, ExecuteBefore
<1>1. CASE CommitStep
  <2>1. ASSUME NEW t \in Task, NEW layer_mapping \in LayerMappings, CommitBegin(t, layer_mapping)
        PROVE  FALSE
    BY <2>1 DEF CommitBegin, Begin
  <2>2. ~CommitLayer /\ ~CommitTag /\ ~CommitFails /\ ~SkipLayoutOnly("commitLayer", "commitStore")
    BY DEF CommitLayer, CommitTag, CommitFails, SkipLayoutOnly, Goto, Advance, Fails
  <2>3. ~CommitStore
    BY DEF CommitStore, StoreCall, Return, Fails
  <2> QED BY <1>1, <2>1, <2>2, <2>3 DEF CommitStep
<1>2. CASE RevertStep
  <2>1. ASSUME NEW t \in Task, NEW allow \in BOOLEAN, RevertBegin(t, allow) PROVE FALSE
    BY <2>1 DEF RevertBegin, Begin
  <2>2. /\ ~RevertLayer /\ ~RevertTag /\ ~RevertHide /\ ~RevertFails
        /\ ~SkipLayoutOnly("revertLayer", "revertHide")
    BY DEF RevertLayer, RevertTag, RevertHide, RevertFails, SkipLayoutOnly, Goto, Advance, Fails
  <2>3. CASE RevertStore
    BY <2>3, RevertStoreParts DEF Return, Fails
  <2> QED BY <1>2, <2>1, <2>2, <2>3 DEF RevertStep
<1>3. ~RestoreObject /\ ~RestoreEnds /\ ~Crash
  BY DEF RestoreObject, RestoreEnds, Crash, Retreat, Return
<1>4. ASSUME NEW t \in Task, NEW exact \in BOOLEAN, VerifyExecution(t, exact) PROVE FALSE
  BY <1>4 DEF VerifyExecution, callVars
<1>5. ASSUME NEW t \in AuditRequired, NEW evidence \in BOOLEAN, RenderTaskAudit(t, evidence)
      PROVE  FALSE
  BY <1>5 DEF RenderTaskAudit, callVars
<1> QED BY <1>1, <1>2, <1>3, <1>4, <1>5 DEF Next, ServerStep, User

LEMMA UnderwayStep ==
    ASSUME TypeOK, AgreeInv, Underway, [Next]_vars, ReadBackFails = FALSE
    PROVE  Underway'
<1>t. CallFacts /\ taskStatus \in [Task -> TASK_STATUSES \cup {"none"}]
  BY CallType DEF TypeOK, StoreTypeOK
<1> USE DEF CallFacts, Underway, Executing, ExecuteBefore, storeVars, callVars, vars
<1>1. CASE ExecuteStep
  <2>1. ASSUME NEW t \in Task, ExecuteRecord(t) PROVE Underway'
    BY <1>t, <2>1 DEF ExecuteRecord, Begin, Return
  <2>2. CASE ExecuteCreateTask
    BY <1>t, <2>2 DEF ExecuteCreateTask, StoreCall, create_ai_task, Goto, Return
  <2>3. CASE ExecuteRevalidate \/ DrawObject \/ DrawFails \/ RollbackCreated \/ RollbackEnds
    BY <1>t, <2>3
       DEF ExecuteRevalidate, DrawObject, DrawFails, RollbackCreated, RollbackEnds, Goto, Retreat
  <2>4. CASE FinalizeObject \/ LayoutDimension
    <3>1. /\ pc \in {"draw", "finalize"} /\ UNCHANGED taskStatus
          /\ call'.task = call.task
      BY <1>t, <2>4 DEF FinalizeObject, LayoutDimension, Succeed, Call
    <3> QED BY <1>t, <3>1
  <2>5. CASE StoreResult \/ StoreRows \/ ExceptResult
    BY <1>t, <2>5 DEF StoreResult, StoreRows, ExceptResult, StoreCall, update_execution_result,
                      add_ai_task_entities, Except, Goto, Return
  <2>6. CASE StoreStatus \/ ExceptStatus
    BY <1>t, <2>6 DEF StoreStatus, ExceptStatus, StoreCall, update_ai_task, Except, Goto, Return
  <2>7. CASE UndoHandle \/ UndoUnreachable \/ UndoEnds
    BY <1>t, <2>7 DEF UndoHandle, UndoUnreachable, UndoEnds, Retreat, Return, Goto
  <2> QED BY <1>1, <2>1, <2>2, <2>3, <2>4, <2>5, <2>6, <2>7 DEF ExecuteStep
<1>2. CASE User \/ UNCHANGED vars
  BY <1>2 DEF User
<1> QED BY <1>1, <1>2, ExecutingBy

LEMMA ClearedOutStep ==
    ASSUME TypeOK, AgreeInv, LoopInv, NeverDrawn, ClearedOut, [Next]_vars, ReadBackFails = FALSE
    PROVE  ClearedOut'
<1>t. CallFacts
  BY CallType
<1> SUFFICES ASSUME pc' \in Executing PROVE ClearedOut'
  BY DEF ClearedOut
<1>k. ASSUME UNCHANGED <<callVars, torn>> PROVE ClearedOut'
  <2>1. \A i \in Created : Drawn(<<call.task, i>>)' => Drawn(<<call.task, i>>)
    <3>1. ~DrawObject /\ ~FinalizeObject /\ ~CommitTag /\ ~RevertTag /\ ~RestoreObject
      BY <1>t, <1>k DEF DrawObject, FinalizeObject, CommitTag, RevertTag, RestoreObject, Goto,
                        Succeed, Advance, Retreat, callVars, CallFacts
    <3>2. pc # "idle"
      BY <1>k DEF callVars, Executing, ExecuteBefore
    <3>3. ASSUME NEW i \in Created, NEW h \in Handle, h = <<call.task, i>>, Drawn(h)' PROVE Drawn(h)
      BY <3>1, <3>3, TagsBy
    <3> QED BY <1>k, <1>t, <3>2, <3>3 DEF CallFacts, callVars, Drawn
  <2> QED BY <1>k, <2>1 DEF ClearedOut, Cleared, callVars
<1>1. CASE ExecuteStep
  <2> USE DEF CallFacts, ClearedOut, Cleared, Executing, ExecuteBefore, drawingVars, storeVars, fileVars
  <2>1. ASSUME NEW t \in Task, ExecuteRecord(t) PROVE ClearedOut'
    BY <1>t, <2>1 DEF ExecuteRecord, Begin, Return, NeverDrawn, Drawn, NoCall
  <2>2. CASE ExecuteCreateTask
    BY <1>t, <2>2 DEF ExecuteCreateTask, StoreCall, Goto, Return, Drawn
  <2>3. CASE ExecuteRevalidate
    BY <1>t, <2>3 DEF ExecuteRevalidate, Goto, Drawn, AgreeInv
  <2>4. CASE DrawObject
    BY <1>t, <2>4 DEF DrawObject, AddObject, Goto, Here, Drawn
  <2>5. CASE FinalizeObject \/ LayoutDimension
    <3>1. \A g \in Handle : Drawn(g)' = Drawn(g)
      <4>1. FinalizeObject => \A g \in Handle : Drawn(g)' = Drawn(g)
        BY DEF FinalizeObject, Drawn, TypeOK, DrawingTypeOK, Object
      <4> QED BY <2>5, <4>1, DrawnOps DEF LayoutDimension
    <3>2. /\ UNCHANGED torn /\ pc \in {"draw", "finalize"} /\ call'.task = call.task
          /\ (pc = "draw" => at \notin Created)
          /\ \/ pc' = "draw" /\ at' = at + 1
             \/ pc' = "result" /\ call'.success
      BY <1>t, <2>5 DEF FinalizeObject, LayoutDimension, Succeed, Call, Created
    <3> QED BY <1>t, <3>1, <3>2
  <2>6. CASE DrawFails
    <3>1. \A g \in Handle : Drawn(g)' = Drawn(g)
      BY <2>6, DrawnOps, DrawnKept DEF DrawFails
    <3>2. UNCHANGED <<torn, at, call>> /\ pc \in {"draw", "finalize"} /\ pc' = "rollback"
      BY <2>6 DEF DrawFails, Goto
    <3> QED BY <1>t, <3>1, <3>2
  <2>7. CASE RollbackCreated
    <3>1. pc = "rollback" /\ pc' = "rollback" /\ at > 0 /\ at' = at - 1 /\ UNCHANGED call
      BY <2>7 DEF RollbackCreated, Retreat
    <3>2. \/ torn' = torn \cup {call.task}
          \/ UNCHANGED torn /\ \A g \in Handle : g[2] \in Created /\ Drawn(g)' => Drawn(g) /\ g # Here
      BY <2>7, DrawnOps DEF RollbackCreated, RolledBack, ReportFailure, Drawn
    <3> QED BY <1>t, <3>1, <3>2 DEF Here
  <2>8. CASE RollbackEnds
    BY <1>t, <2>8 DEF RollbackEnds, Goto, Drawn, AgreeInv
  <2>9. CASE StoreResult \/ StoreRows \/ StoreStatus
    <3>1. /\ UNCHANGED <<entity, torn>>
          /\ \/ pc' = "idle"
             \/ pc' = "rows"
             \/ pc \in {"result", "rows"} /\ pc' = "status" /\ UNCHANGED call
             \/ pc' = "undo" /\ at' = PlanLength /\ UNCHANGED call
             \/ pc \in {"result", "status"} /\ ~call.success /\ pc' = "exceptResult" /\ UNCHANGED call
      BY <2>9 DEF StoreResult, StoreRows, StoreStatus, StoreCall, Except, Goto, Return, AgreeInv
    <3>2. pc = "rows" => call.success
      BY DEF AgreeInv
    <3> QED BY <1>t, <3>1, <3>2 DEF Drawn
  <2>10. CASE UndoHandle
    <3>1. pc = "undo" /\ pc' = "undo" /\ at > 0 /\ at' = at - 1 /\ UNCHANGED call
      BY <2>10 DEF UndoHandle, Retreat
    <3>2. \/ torn' = torn \cup {call.task}
          \/ UNCHANGED torn /\ \A g \in Handle : Drawn(g)' => Drawn(g) /\ g # Here
      BY <2>10, DrawnOps DEF UndoHandle, ReportFailure
    <3> QED BY <1>t, <3>1, <3>2 DEF Here
  <2>11. CASE UndoEnds
    BY <1>t, <2>11 DEF UndoEnds, Goto, Drawn
  <2>12. CASE UndoUnreachable \/ ExceptResult \/ ExceptStatus
    <3>1. \/ pc' = "idle"
          \/ pc = "exceptResult" /\ pc' = "exceptStatus" /\ UNCHANGED <<entity, torn, call>>
      BY <2>12 DEF UndoUnreachable, ExceptResult, ExceptStatus, StoreCall, Goto, Return
    <3> QED BY <1>t, <3>1 DEF Drawn
  <2> QED
    BY <1>1, <2>1, <2>2, <2>3, <2>4, <2>5, <2>6, <2>7, <2>8, <2>9, <2>10, <2>11, <2>12
       DEF ExecuteStep
<1> QED BY <1>1, <1>k, ExecutingBy DEF vars, callVars

LEMMA FinishedTagsStep ==
    ASSUME TypeOK, AgreeInv, FinishedTags, [Next]_vars
    PROVE  FinishedTags'
<1>t. CallFacts
  BY CallType
<1> SUFFICES ASSUME pc' = "status", call'.success PROVE FinishedTags'
  BY DEF FinishedTags
<1>1. CASE ExecuteStep
  <2>1. StoreRows
    <3>1. pc = "rows" => call.success
      BY DEF AgreeInv
    <3> QED
      BY <1>1, <3>1
         DEF ExecuteStep, ExecuteRecord, ExecuteCreateTask, ExecuteRevalidate, DrawObject,
             FinalizeObject, LayoutDimension, DrawFails, RollbackCreated, RollbackEnds,
             StoreResult, StoreStatus, UndoHandle, UndoUnreachable, UndoEnds, ExceptResult,
             ExceptStatus, StoreCall, Except, Succeed, Begin, Goto, Return, Retreat
  <2>2. UNCHANGED <<entity, call>> /\ pc = "rows"
    BY <2>1, <1>t DEF StoreRows, StoreCall, Except, Goto, drawingVars
  <2>3. \A i \in Created : TagIs(call.task, i, {"preview"})
    BY <2>2 DEF AgreeInv, FreshTags, Finalized, TagIs, PreviewTag
  <2> QED BY <2>2, <2>3 DEF FinishedTags, TagIs, Drawn
<1>2. CASE (User \/ UNCHANGED vars) /\ UNCHANGED callVars
  <2>1. TagsKept
    BY <1>2, TagsKeptOps DEF User, vars, drawingVars
  <2>2. UNCHANGED call /\ pc = "status" /\ call.success
    BY <1>2 DEF callVars
  <2>3. \A i \in Created : <<call.task, i>> \in Handle
    BY <1>t, <2>2 DEF CallFacts
  <2> QED BY <2>1, <2>2, <2>3 DEF FinishedTags, TagIs, TagsKept, Drawn
<1> QED BY <1>1, <1>2, ExecutingBy DEF Executing, vars, callVars

\* The steps that lead into the restoring of the objects.
LEMMA RestoreBy ==
    ASSUME TypeOK, [Next]_vars, pc' = "restore"
    PROVE  \/ /\ pc \in {"commitLayer", "commitTag", "commitStore",
                         "revertLayer", "revertTag", "revertHide", "revertStore"}
              /\ UNCHANGED entity
              /\ at' = at \/ (pc \in {"commitLayer", "revertLayer"} /\ at' = at - 1)
           \/ RestoreObject
           \/ (User \/ UNCHANGED vars) /\ UNCHANGED callVars
<1> USE DEF drawingVars
<1>n. at \in Nat
  BY DEF TypeOK
<1>1. CASE ExecuteStep
  BY <1>1
     DEF ExecuteStep, ExecuteRecord, ExecuteCreateTask, ExecuteRevalidate, DrawObject,
         FinalizeObject, LayoutDimension, DrawFails, RollbackCreated, RollbackEnds, StoreResult,
         StoreRows, StoreStatus, UndoHandle, UndoUnreachable, UndoEnds, ExceptResult,
         ExceptStatus, StoreCall, Except, Succeed, Begin, Goto, Return, Retreat
<1>2. CASE CommitStep
  <2>1. ASSUME NEW t \in Task, NEW layer_mapping \in LayerMappings, CommitBegin(t, layer_mapping)
        PROVE  FALSE
    BY <2>1 DEF CommitBegin, Begin
  <2>2. ~CommitLayer /\ ~CommitTag /\ ~SkipLayoutOnly("commitLayer", "commitStore")
    BY DEF CommitLayer, CommitTag, SkipLayoutOnly, Goto, Advance
  <2>3. ASSUME CommitFails
        PROVE  /\ pc \in {"commitLayer", "commitTag", "commitStore"} /\ UNCHANGED entity
               /\ at' = at \/ (pc = "commitLayer" /\ at' = at - 1)
    BY <1>n, <2>3 DEF CommitFails, Fails
  <2>4. ASSUME CommitStore
        PROVE  pc = "commitStore" /\ UNCHANGED entity /\ at' = at
    BY <1>n, <2>4 DEF CommitStore, StoreCall, Return, Fails
  <2> QED BY <1>2, <2>1, <2>2, <2>3, <2>4 DEF CommitStep
<1>3. CASE RevertStep
  <2>1. ASSUME NEW t \in Task, NEW allow \in BOOLEAN, RevertBegin(t, allow) PROVE FALSE
    BY <2>1 DEF RevertBegin, Begin
  <2>2. ~RevertLayer /\ ~RevertTag /\ ~RevertHide /\ ~SkipLayoutOnly("revertLayer", "revertHide")
    BY DEF RevertLayer, RevertTag, RevertHide, SkipLayoutOnly, Goto, Advance
  <2>3. ASSUME RevertFails
        PROVE  /\ pc \in {"revertLayer", "revertTag", "revertHide", "revertStore"}
               /\ UNCHANGED entity
               /\ at' = at \/ (pc = "revertLayer" /\ at' = at - 1)
    BY <1>n, <2>3 DEF RevertFails, Fails
  <2>4. ASSUME RevertStore
        PROVE  pc = "revertStore" /\ UNCHANGED entity /\ at' = at
    BY <1>n, <2>4, RevertStoreParts DEF Return, Fails
  <2> QED BY <1>3, <2>1, <2>2, <2>3, <2>4 DEF RevertStep
<1>4. ~RestoreEnds /\ ~Crash
  BY DEF RestoreEnds, Crash, Return
<1>5. ASSUME NEW t \in Task, NEW exact \in BOOLEAN, VerifyExecution(t, exact) PROVE FALSE
  BY <1>5 DEF VerifyExecution, callVars
<1>6. ASSUME NEW t \in AuditRequired, NEW evidence \in BOOLEAN, RenderTaskAudit(t, evidence)
      PROVE  FALSE
  BY <1>6 DEF RenderTaskAudit, callVars
<1> QED BY <1>1, <1>2, <1>3, <1>4, <1>5, <1>6 DEF Next, ServerStep, User, vars, callVars

\* Only the restoring of an object takes it off the list of changed ones.
LEMMA ChangedBy ==
    ASSUME TypeOK, [Next]_vars, pc # "idle", pc' \in Presenting, NEW i \in Created, Changed(i)
    PROVE  Changed(i)' \/ (RestoreObject /\ i = at)
<1>n. at \in Nat /\ PlanLength \in Nat /\ i \in Nat /\ at <= PlanLength /\ i <= PlanLength
  BY CallType DEF CallFacts
<1>1. CASE pc' \in Committing
  <2>1. pc \in Committing
    BY <1>1, NoneBegins, CommittingKept
  <2>2. \/ pc = "commitLayer" /\ pc' = "commitTag" /\ at' = at
        \/ /\ pc \in {"commitLayer", "commitTag"}
           /\ \/ at = PlanLength /\ pc' = "commitStore" /\ at' = at
              \/ pc' = "commitLayer" /\ at' = at + 1
        \/ UNCHANGED <<pc, at>>
    BY <1>1, <2>1, CommitLoop
       DEF CommitLayer, CommitTag, SkipLayoutOnly, User, vars, callVars, Goto, Advance
  <2> QED BY <1>n, <2>1, <2>2 DEF Changed, Committing
<1>2. CASE pc' \in Reverting
  <2>1. /\ pc \in Reverting
        /\ \/ pc = "revertLayer" /\ pc' = "revertTag" /\ at' = at
           \/ pc = "revertHide" /\ pc' = "revertStore" /\ at' = at
           \/ /\ pc \in {"revertLayer", "revertTag"}
              /\ \/ at = PlanLength /\ pc' = "revertHide" /\ at' = at
                 \/ pc' = "revertLayer" /\ at' = at + 1
           \/ UNCHANGED <<pc, at>>
    BY <1>2, NoneBegins, RevertLoop
       DEF RevertLayer, RevertTag, RevertHide, SkipLayoutOnly, User, vars,
           callVars, Goto, Advance
  <2> QED BY <1>n, <2>1 DEF Changed, Reverting
<1>3. CASE pc' = "restore"
  <2>1. CASE RestoreObject
    BY <1>n, <2>1 DEF RestoreObject, Retreat, Changed
  <2>2. CASE ~RestoreObject
    BY <1>n, <1>3, <2>2, RestoreBy DEF Changed, callVars
  <2> QED BY <2>1, <2>2
<1> QED BY <1>1, <1>2, <1>3 DEF Presenting, Committing, Reverting

LEMMA SnapshotHoldsStep ==
    ASSUME TypeOK, LoopInv, SnapshotHolds, [Next]_vars
    PROVE  SnapshotHolds'
<1>t. CallFacts
  BY CallType
<1> SUFFICES ASSUME pc' \in Presenting PROVE SnapshotHolds'
  BY Zenon DEF SnapshotHolds
<1>1. CASE pc = "idle"
  <2>1. PICK t \in Task :
            /\ call'.task = t /\ call'.snapshot = Snapshot(t) /\ UNCHANGED entity
            /\ OwnedLoaded(t)
    <3>1. ASSUME NEW t \in Task, ExecuteRecord(t) PROVE FALSE
      BY <3>1 DEF ExecuteRecord, Begin, Return, Presenting
    <3>2. ASSUME NEW t \in Task, NEW layer_mapping, CommitBegin(t, layer_mapping)
          PROVE  /\ call'.task = t /\ call'.snapshot = Snapshot(t) /\ UNCHANGED entity
                 /\ OwnedLoaded(t)
      BY <3>2 DEF CommitBegin, Begin, NoCall, drawingVars
    <3>3. ASSUME NEW t \in Task, NEW allow, RevertBegin(t, allow)
          PROVE  /\ call'.task = t /\ call'.snapshot = Snapshot(t) /\ UNCHANGED entity
                 /\ OwnedLoaded(t)
      BY <3>3 DEF RevertBegin, Begin, NoCall, drawingVars
    <3> QED BY <1>1, <3>1, <3>2, <3>3, BeginBy DEF Presenting
  <2>2. \A i \in Created : Snapshot(t)[i] = entity[<<t, i>>] /\ ProvesOwnership(<<t, i>>)
    BY <2>1, CreatedType DEF Snapshot, OwnedLoaded
  <2> QED BY <2>1, <2>2 DEF SnapshotHolds, ProvesOwnership
<1>2. CASE pc # "idle"
  <2>1. pc' # "idle" /\ call'.task = call.task /\ call'.snapshot = call.snapshot
    BY <1>2, CallKept DEF Presenting
  <2>2. pc \in Presenting
    <3>1. pc' \in Committing => pc \in Committing
      BY <1>2, NoneBegins, CommittingKept
    <3>2. pc' \in Reverting => pc \in Reverting
      BY <1>2, NoneBegins, RevertLoop
    <3>3. pc' = "restore" => pc \in Committing \cup Reverting \cup {"restore"}
      BY <1>2, <2>1, CallKept
    <3> QED BY <3>1, <3>2, <3>3 DEF Presenting, Committing, Reverting
  <2>3. ASSUME NEW i \in Created, call.task \notin torn', NEW h \in Handle, h = <<call.task, i>>,
               Drawn(h)', ~Changed(i)'
        PROVE  entity'[h].tag = call.snapshot[i].tag
    <3>1. call.task \notin torn
      <4>1. torn \subseteq torn'
        BY TornGrows DEF ReportFailure
      <4> QED BY <2>3, <4>1
    <3>2. CASE RestoreObject /\ i = at
      <4>1. Restored(Here, call.snapshot[at])
        BY <2>3, <3>2 DEF RestoreObject, ReportFailure, Created
      <4> QED BY <2>3, <3>2, <4>1 DEF Restored, Here, TypeOK, DrawingTypeOK, Object
    <3>3. CASE ~(RestoreObject /\ i = at)
      <4>1. ~Changed(i)
        BY <1>2, <2>3, <3>3, ChangedBy
      <4>2. Drawn(h) => entity[h].tag = call.snapshot[i].tag
        BY <2>2, <2>3, <3>1, <4>1 DEF SnapshotHolds
      <4>3. ~DrawObject /\ ~FinalizeObject
        BY <2>2 DEF DrawObject, FinalizeObject, Presenting
      <4>4. ASSUME h = Here, CommitTag \/ RevertTag PROVE FALSE
        BY <1>t, <2>3, <4>4
           DEF CommitTag, RevertTag, Advance, Here, Changed, CallFacts
      <4>5. ~(RestoreObject /\ h = Here)
        BY <2>3, <3>3 DEF Here
      <4> QED BY <2>3, <4>2, <4>3, <4>4, <4>5, TagsBy
    <3> QED BY <3>2, <3>3
  <2>4. \A i \in Created : <<call.task, i>> \in Handle
    BY <1>2, <1>t DEF CallFacts
  <2> QED BY <2>1, <2>2, <2>3, <2>4 DEF SnapshotHolds, Drawn
<1> QED BY <1>1, <1>2

LEMMA NothingDrawn == Init => \A t \in Task, i \in Created : ~Drawn(<<t, i>>)
<1> SUFFICES ASSUME Init, NEW t \in Task, NEW i \in Created PROVE ~Drawn(<<t, i>>)
  BY Zenon
<1>1. <<t, i>> \in Handle /\ i \notin LayoutOnly
  BY HandleType DEF Created
<1> QED BY <1>1 DEF Init, DrawingInit, Drawn, Absent

LEMMA AtomicHolds ==
    ASSUME ReadBackFails = FALSE
    PROVE  Spec => []AtomicInv
<1>1. ASSUME Init PROVE AtomicInv
  BY <1>1, NothingDrawn
     DEF Init, AtomicInv, NeverDrawn, Underway, ClearedOut, FinishedTags, SnapshotHolds,
         Executing, ExecuteBefore, Presenting
<1>2. TypeOK /\ LoopInv /\ AgreeInv /\ AtomicInv /\ [Next]_vars => AtomicInv'
  BY NeverDrawnStep, UnderwayStep, ClearedOutStep, FinishedTagsStep, SnapshotHoldsStep DEF AtomicInv
<1> QED BY <1>1, <1>2, TypeCorrect, LoopHolds, AgreeHolds, PTL DEF Spec

\* What a step that shows nothing new does to the view of AtomicTasks.
LEMMA ViewKept ==
    ASSUME UNCHANGED torn,
           \A s \in Task \ torn : taskStatus'[s] = taskStatus[s],
           \A s \in Task \ torn, i \in Created : Seen(s, i)' = Seen(s, i)
    PROVE  UNCHANGED <<StatusSeen, ItemsSeen>>
<1>1. ASSUME NEW s \in Task, NEW i \in Created PROVE Seen(s, i)' = Seen(s, i)
  <2>1. CASE s \in torn
    BY <2>1 DEF Seen
  <2> QED BY <2>1
<1>2. UNCHANGED ItemsSeen
  BY <1>1 DEF ItemsSeen
<1>3. UNCHANGED StatusSeen
  BY DEF StatusSeen
<1> QED BY <1>2, <1>3

\* The view of one task changes.
LEMMA ViewOfOne ==
    ASSUME NEW t \in Task, NEW status, NEW objects,
           IF t \in torn' THEN status = "lost" ELSE taskStatus'[t] = status,
           \A i \in Created : Seen(t, i)' = objects[i],
           objects = [i \in Created |-> objects[i]],
           \A s \in Task \ {t} : s \in torn <=> s \in torn',
           \A s \in Task \ (torn' \cup {t}) : taskStatus'[s] = taskStatus[s],
           \A s \in Task \ (torn' \cup {t}), i \in Created : Seen(s, i)' = Seen(s, i)
    PROVE  /\ Tasks!Becomes(t, status)
           /\ Tasks!Shows(t, objects)
<1>1. Tasks!Becomes(t, status)
  BY DEF Tasks!Becomes, StatusSeen
<1>2. Tasks!Shows(t, objects)
  <2>1. ASSUME NEW s \in Task \ {t}, NEW i \in Created PROVE Seen(s, i)' = Seen(s, i)
    <3>1. CASE s \in torn
      BY <3>1 DEF Seen
    <3> QED BY <3>1
  <2>2. ItemsSeen' = [s \in Task |-> IF s = t THEN objects ELSE ItemsSeen[s]]
    BY <2>1 DEF ItemsSeen
  <2> QED BY <2>2 DEF Tasks!Shows, ItemsSeen
<1> QED BY <1>1, <1>2

\* What the server does to the objects: it works on one handle of its call.
LEMMA ServerTouches ==
    ASSUME TypeOK, ServerStep \/ Crash
    PROVE  OnlyAt(Here) /\ (pc = "idle" => UNCHANGED entity)
<1> USE DEF drawingVars
<1>1. CASE UNCHANGED entity
  BY <1>1, OnlyAtOps
<1>2. CASE ExecuteStep
  <2>1. ASSUME FinalizeObject PROVE OnlyAt(Here)
    BY <2>1 DEF FinalizeObject, OnlyAt, TypeOK, DrawingTypeOK
  <2>2. ASSUME DrawObject \/ LayoutDimension \/ DrawFails \/ RollbackCreated \/ UndoHandle
        PROVE  OnlyAt(Here)
    BY <2>2, OnlyAtOps DEF DrawObject, LayoutDimension, DrawFails, RollbackCreated, UndoHandle
  <2>3. ASSUME \/ FinalizeObject \/ DrawObject \/ LayoutDimension \/ DrawFails \/ RollbackCreated
               \/ UndoHandle
        PROVE  pc # "idle"
    BY <2>3
       DEF FinalizeObject, DrawObject, LayoutDimension, DrawFails, RollbackCreated, UndoHandle
  <2> QED
    BY <1>1, <1>2, <2>1, <2>2, <2>3
       DEF ExecuteStep, ExecuteRecord, ExecuteCreateTask, ExecuteRevalidate, RollbackEnds,
           StoreResult, StoreRows, StoreStatus, UndoUnreachable, UndoEnds, ExceptResult,
           ExceptStatus
<1>3. CASE CommitStep
  <2>1. ASSUME CommitLayer \/ CommitTag PROVE OnlyAt(Here) /\ pc # "idle"
    BY <2>1, OnlyAtOps DEF CommitLayer, CommitTag
  <2>2. ASSUME CommitStore PROVE UNCHANGED entity
    BY <2>2, Zenon DEF CommitStore, drawingVars
  <2>3. ASSUME NEW t, NEW layer_mapping, CommitBegin(t, layer_mapping) PROVE UNCHANGED entity
    BY <2>3 DEF CommitBegin
  <2> QED BY <1>1, <1>3, <2>1, <2>2, <2>3 DEF CommitStep, CommitFails, SkipLayoutOnly
<1>4. CASE RevertStep
  <2>1. ASSUME RevertLayer \/ RevertTag PROVE OnlyAt(Here) /\ pc # "idle"
    BY <2>1, OnlyAtOps DEF RevertLayer, RevertTag
  <2>2. ASSUME NEW t, NEW allow, RevertBegin(t, allow) PROVE UNCHANGED entity
    BY <2>2 DEF RevertBegin
  <2> QED
    BY <1>1, <1>4, <2>1, <2>2, RevertStoreParts
       DEF RevertStep, RevertHide, RevertFails, SkipLayoutOnly
<1>5. CASE RestoreObject
  BY <1>5, OnlyAtOps DEF RestoreObject
<1>6. CASE RestoreEnds \/ Crash
  BY <1>1, <1>6 DEF RestoreEnds, Crash
<1>7. ASSUME NEW t, NEW exact, VerifyExecution(t, exact) PROVE UNCHANGED entity
  BY <1>7 DEF VerifyExecution
<1>8. ASSUME NEW t, NEW evidence, RenderTaskAudit(t, evidence) PROVE UNCHANGED entity
  BY <1>8 DEF RenderTaskAudit
<1> QED BY <1>1, <1>2, <1>3, <1>4, <1>5, <1>6, <1>7, <1>8 DEF ServerStep

\* What a step of a call shows of the other tasks.
LEMMA OthersKept ==
    ASSUME TypeOK, TypeOK', ServerStep \/ Crash, pc # "idle",
           NEW s \in Task, s # call.task, s \notin torn'
    PROVE  /\ s \notin torn /\ taskStatus'[s] = taskStatus[s]
           /\ \A i \in Created : Seen(s, i)' = Seen(s, i)
<1>n. [Next]_vars
  BY DEF Next
<1>1. s \notin torn
  BY <1>n, TornGrows DEF ReportFailure
<1>2. taskStatus'[s] = taskStatus[s]
  BY <1>n, StatusBy
<1>3. s # call'.task
  BY <1>n, CallKept DEF TypeOK
<1>4. ASSUME NEW i \in Created PROVE entity'[<<s, i>>] = entity[<<s, i>>]
  BY ServerTouches, CallType DEF OnlyAt, Here, CallFacts
<1> QED BY <1>1, <1>2, <1>3, <1>4 DEF Seen, Drawn

\* The steps of an execution, and of a commit or a revert.
LEMMA StepsOfCall ==
    ASSUME ServerStep, pc # "idle"
    PROVE  /\ pc \in Executing => ExecuteStep
           /\ pc \in Presenting => /\ ~ExecuteStep
                                   /\ CommitStep \/ RevertStep \/ RestoreObject \/ RestoreEnds
<1>1. ASSUME pc \in Executing PROVE ~CommitStep /\ ~RevertStep /\ ~RestoreObject /\ ~RestoreEnds
  <2>1. ~CommitStep
    <3>1. ASSUME NEW t, NEW layer_mapping, CommitBegin(t, layer_mapping) PROVE FALSE
      BY <3>1 DEF CommitBegin, Begin
    <3>2. ~CommitStore
      BY <1>1, Zenon DEF CommitStore, Executing, ExecuteBefore
    <3> QED
      BY <1>1, <3>1, <3>2
         DEF CommitStep, CommitLayer, CommitTag, CommitFails, SkipLayoutOnly, Executing,
             ExecuteBefore
  <2>2. ~RevertStep
    <3>1. ASSUME NEW t, NEW allow, RevertBegin(t, allow) PROVE FALSE
      BY <3>1 DEF RevertBegin, Begin
    <3> QED
      BY <1>1, <3>1, RevertStoreParts
         DEF RevertStep, RevertLayer, RevertTag, RevertHide, RevertFails, SkipLayoutOnly,
             Executing, ExecuteBefore
  <2> QED BY <1>1, <2>1, <2>2 DEF RestoreObject, RestoreEnds, Executing, ExecuteBefore
<1>2. ASSUME pc \in Presenting PROVE ~ExecuteStep
  BY <1>2
     DEF ExecuteStep, ExecuteRecord, ExecuteCreateTask, ExecuteRevalidate, DrawObject,
         FinalizeObject, LayoutDimension, DrawFails, RollbackCreated, RollbackEnds, StoreResult,
         StoreRows, StoreStatus, UndoHandle, UndoUnreachable, UndoEnds, ExceptResult, ExceptStatus,
         Presenting
<1>3. ASSUME NEW t, NEW exact, VerifyExecution(t, exact) PROVE FALSE
  BY <1>3 DEF VerifyExecution
<1>4. ASSUME NEW t, NEW evidence, RenderTaskAudit(t, evidence) PROVE FALSE
  BY <1>4 DEF RenderTaskAudit
<1> QED BY <1>1, <1>2, <1>3, <1>4 DEF ServerStep

\* How an execution goes on or ends, as far as AtomicTasks sees it.
LEMMA ExecutionEnds ==
    ASSUME TypeOK, ExecuteStep, pc # "idle", ReadBackFails = FALSE,
           call.task \notin torn, UNCHANGED torn
    PROVE  \/ pc' \in Executing /\ call'.task = call.task
           \/ /\ pc' = "idle" /\ call'.task = NoTask /\ UNCHANGED entity
              /\ \/ pc \in {"create", "exceptResult", "exceptStatus"} /\ UNCHANGED taskStatus
                 \/ pc \in {"status", "exceptStatus"}
<1> USE DEF Executing, ExecuteBefore, drawingVars, storeVars
<1>1. CASE ExecuteCreateTask \/ ExceptResult \/ ExceptStatus
  <2>1. CASE ExecuteCreateTask
    BY <2>1 DEF ExecuteCreateTask, StoreCall, Goto, Return, NoCall
  <2>2. CASE ExceptResult
    BY <2>2 DEF ExceptResult, StoreCall, update_execution_result, Goto, Return, NoCall
  <2>3. CASE ExceptStatus
    BY <2>3 DEF ExceptStatus, Return, NoCall
  <2> QED BY <1>1, <2>1, <2>2, <2>3
<1>7. CASE ExecuteRevalidate
  BY <1>7 DEF ExecuteRevalidate, Goto
<1>2. CASE DrawObject \/ DrawFails \/ RollbackCreated \/ RollbackEnds \/ UndoHandle \/ UndoEnds
  BY <1>2 DEF DrawObject, DrawFails, RollbackCreated, RollbackEnds, UndoHandle, UndoEnds, Goto, Retreat
<1>3. CASE FinalizeObject \/ LayoutDimension
  BY <1>3 DEF FinalizeObject, LayoutDimension, Succeed, TypeOK, Call
<1>4. CASE StoreResult \/ StoreRows \/ StoreStatus
  BY <1>4 DEF StoreResult, StoreRows, StoreStatus, StoreCall, Except, Goto, Return, NoCall
<1>5. ~UndoUnreachable
  BY DEF UndoUnreachable, ReportFailure
<1>6. \A t \in Task : ~ExecuteRecord(t)
  BY DEF ExecuteRecord
<1> QED BY <1>1, <1>2, <1>3, <1>4, <1>5, <1>6, <1>7 DEF ExecuteStep

\* The status an execution leaves when it ends.
LEMMA ExecutionStatus ==
    ASSUME TypeOK, TypeOK', StatusDuringCall, AtomicInv, ServerStep, pc \in Executing,
           ReadBackFails = FALSE, NEW t \in Task, t = call.task, taskStatus'[t] # taskStatus[t]
    PROVE  \/ /\ pc' # "idle" /\ taskStatus[t] = "none" /\ taskStatus'[t] = "executing"
           \/ /\ pc' = "idle" /\ taskStatus[t] = "executing"
              /\ \/ pc = "status" /\ call.success /\ taskStatus'[t] = "executed"
                 \/ pc = "status" /\ ~call.success /\ taskStatus'[t] = "failed"
                 \/ pc = "exceptStatus" /\ taskStatus'[t] = "failed"
<1>1. /\ taskStatus[t] \in {"none", "executing"}
      /\ pc # "create" => taskStatus[t] = "executing"
  BY DEF StatusDuringCall, AtomicInv, Underway
<1>2. pc # "idle" /\ [Next]_vars
  BY DEF Executing, ExecuteBefore, Next
<1>3. ASSUME StoreStatus \/ ExceptStatus PROVE pc' = "idle"
  BY <1>3 DEF StoreStatus, ExceptStatus, StoreCall, Return, storeVars
<1>4. ASSUME ExecuteCreateTask PROVE pc' # "idle"
  BY <1>4 DEF ExecuteCreateTask, StoreCall, Goto, storeVars
<1>5. CASE ExecuteCreateTask /\ taskStatus'[t] = "executing"
  BY <1>1, <1>4, <1>5
<1>6. CASE StoreStatus /\ taskStatus'[t] = IF call.success THEN "executed" ELSE "failed"
  BY <1>1, <1>3, <1>6 DEF StoreStatus
<1>7. CASE ExceptStatus /\ taskStatus'[t] = "failed"
  BY <1>1, <1>3, <1>7 DEF ExceptStatus
<1>8. ~CommitStore /\ ~RevertStore
  <2>1. ~CommitStore
    BY Zenon DEF CommitStore, Executing, ExecuteBefore
  <2> QED BY <2>1, RevertStoreParts DEF Executing, ExecuteBefore
<1> QED BY <1>2, <1>5, <1>6, <1>7, <1>8, StatusBy

\* An execution shows its objects when it is over, all at once, or leaves none.
LEMMA ExecutionShows ==
    ASSUME TypeOK, TypeOK', StatusDuringCall, AtomicInv, ServerStep, pc \in Executing,
           ReadBackFails = FALSE, NEW t \in Task, t = call.task, t \notin torn, UNCHANGED torn
    PROVE  [Tasks!Next]_<<StatusSeen, ItemsSeen>>
<1>p. pc # "idle" /\ pc \notin Presenting
  BY DEF Executing, ExecuteBefore, Presenting
<1>t. CallFacts /\ NoTask \notin Task
  BY CallType
<1>e. ExecuteStep
  BY <1>p, StepsOfCall
<1>o. ASSUME NEW s \in Task \ torn, s # t
      PROVE  taskStatus'[s] = taskStatus[s] /\ \A i \in Created : Seen(s, i)' = Seen(s, i)
  BY <1>p, <1>o, OthersKept
<1>1. \A i \in Created : Seen(t, i) = "gone"
  BY <1>p DEF Seen
<1>2. ASSUME pc' # "idle", NEW i \in Created PROVE Seen(t, i)' = "gone"
  <2>1. pc' \notin Presenting /\ call'.task = call.task
    BY <1>e, <1>p, <1>2, ExecutionEnds DEF Executing, ExecuteBefore, Presenting
  <2> QED BY <2>1 DEF Seen
<1>3. ASSUME pc' = "idle", NEW i \in Created
      PROVE  Seen(t, i)' = IF Drawn(<<t, i>>) THEN entity[<<t, i>>].tag.status ELSE "gone"
  <2>1. call'.task = NoTask /\ UNCHANGED entity
    BY <1>e, <1>p, <1>3, ExecutionEnds DEF Executing, ExecuteBefore
  <2> QED BY <1>t, <2>1 DEF Seen, Drawn
<1>c. ASSUME pc \in {"create", "exceptResult", "exceptStatus"} \/ (pc = "status" /\ ~call.success),
             NEW i \in Created
      PROVE  ~Drawn(<<t, i>>)
  BY <1>c DEF AtomicInv, ClearedOut, Cleared
<1>4. CASE taskStatus'[t] = taskStatus[t]
  <2>1. ASSUME NEW i \in Created PROVE Seen(t, i)' = "gone"
    <3>1. CASE pc' = "idle"
      <4>1. pc # "status"
        <5>1. ASSUME pc = "status" PROVE taskStatus[t] = "executing" /\ StoreStatus
          BY <1>e, <5>1
             DEF AtomicInv, Underway, Executing, ExecuteBefore, ExecuteStep, ExecuteRecord,
                 ExecuteCreateTask, ExecuteRevalidate, DrawObject, FinalizeObject,
                 LayoutDimension, DrawFails, RollbackCreated, RollbackEnds, StoreResult,
                 StoreRows, UndoHandle, UndoUnreachable, UndoEnds, ExceptResult, ExceptStatus
        <5>2. ASSUME StoreStatus PROVE taskStatus'[t] \in {"executed", "failed"}
          BY <3>1, <5>2
             DEF StoreStatus, StoreCall, Return, Except, Goto, update_ai_task, TypeOK, StoreTypeOK
        <5> QED BY <1>4, <5>1, <5>2
      <4>2. pc \in {"create", "exceptResult", "exceptStatus"}
        BY <1>e, <1>p, <3>1, <4>1, ExecutionEnds DEF Executing, ExecuteBefore
      <4> QED BY <1>3, <1>c, <3>1, <4>2
    <3> QED BY <1>2, <3>1
  <2>2. UNCHANGED <<StatusSeen, ItemsSeen>>
    BY <1>1, <1>4, <1>o, <2>1, ViewKept
  <2> QED BY <2>2
<1>5. CASE taskStatus'[t] # taskStatus[t]
  <2> DEFINE shown(made) == [i \in Created |-> IF i \in made THEN "preview" ELSE "gone"]
  <2>g. StatusSeen[t] = taskStatus[t] /\ ItemsSeen[t] = [i \in Created |-> "gone"]
    BY <1>1 DEF StatusSeen, ItemsSeen
  <2>k. ASSUME \A i \in Created : Seen(t, i)' = "gone" PROVE UNCHANGED ItemsSeen
    <3>1. ASSUME NEW s \in Task, NEW i \in Created PROVE Seen(s, i)' = Seen(s, i)
      <4>1. CASE s = t
        BY <1>1, <2>k, <4>1
      <4>2. CASE s \in torn
        BY <4>2 DEF Seen
      <4> QED BY <1>o, <4>1, <4>2
    <3> QED BY <3>1 DEF ItemsSeen
  <2>b. ASSUME NEW made \in SUBSET Created, \A i \in Created : Seen(t, i)' = shown(made)[i]
        PROVE  Tasks!Becomes(t, taskStatus'[t]) /\ Tasks!Shows(t, shown(made))
    BY <1>o, <2>b, ViewOfOne
  <2>c. ASSUME \A i \in Created : Seen(t, i)' = "gone"
        PROVE  Tasks!Becomes(t, taskStatus'[t])
    <3>1. \A i \in Created : Seen(t, i)' = shown({})[i]
      BY <2>c
    <3>2. {} \in SUBSET Created
      OBVIOUS
    <3>3. Tasks!Becomes(t, taskStatus'[t]) /\ Tasks!Shows(t, shown({}))
      BY <2>b, <3>1, <3>2, Zenon
    <3> QED BY <3>3
  <2>1. CASE pc' # "idle" /\ taskStatus[t] = "none" /\ taskStatus'[t] = "executing"
    BY <1>2, <2>1, <2>c, <2>g, <2>k DEF Tasks!Next, Tasks!Begin
  <2>2. CASE /\ pc' = "idle" /\ taskStatus[t] = "executing"
             /\ pc = "status" /\ call.success /\ taskStatus'[t] = "executed"
    <3> DEFINE made == {i \in Created : Drawn(<<t, i>>)}
    <3>1. ASSUME NEW i \in Created PROVE Seen(t, i)' = shown(made)[i]
      BY <1>3, <2>2 DEF AtomicInv, FinishedTags, TagIs
    <3>2. Tasks!Becomes(t, "executed") /\ Tasks!Shows(t, shown(made))
      BY <2>2, <2>b, <3>1
    <3>3. made \in SUBSET Created
      OBVIOUS
    <3> HIDE DEF made
    <3>4. Tasks!Execute(t)
      BY <2>2, <2>g, <3>2, <3>3 DEF Tasks!Execute
    <3> QED BY <3>4 DEF Tasks!Next
  <2>3. CASE /\ pc' = "idle" /\ taskStatus[t] = "executing" /\ taskStatus'[t] = "failed"
             /\ pc = "exceptStatus" \/ (pc = "status" /\ ~call.success)
    <3>1. \A i \in Created : Seen(t, i)' = "gone"
      BY <1>3, <1>c, <2>3
    <3> QED BY <2>3, <2>c, <2>g, <2>k, <3>1 DEF Tasks!Next, Tasks!Fail, Tasks!Gone
  <2> QED BY <1>5, <2>1, <2>2, <2>3, ExecutionStatus
<1> QED BY <1>4, <1>5


\* A commit and a revert create and delete nothing.
LEMMA PresentingDraws ==
    ASSUME TypeOK, CommitStep \/ RevertStep \/ RestoreObject \/ RestoreEnds, NEW h \in Handle
    PROVE  Drawn(h)' = Drawn(h)
<1> USE DEF drawingVars
<1>1. CASE UNCHANGED entity
  BY <1>1, DrawnKept
<1>2. CASE CommitStep
  <2>1. ASSUME CommitLayer \/ CommitTag PROVE Drawn(h)' = Drawn(h)
    BY <2>1, DrawnOps DEF CommitLayer, CommitTag
  <2>2. ASSUME CommitStore PROVE UNCHANGED entity
    BY <2>2, Zenon DEF CommitStore, drawingVars
  <2>3. ASSUME NEW t, NEW layer_mapping, CommitBegin(t, layer_mapping) PROVE UNCHANGED entity
    BY <2>3 DEF CommitBegin
  <2> QED BY <1>1, <1>2, <2>1, <2>2, <2>3 DEF CommitStep, CommitFails, SkipLayoutOnly
<1>3. CASE RevertStep
  <2>1. ASSUME RevertLayer \/ RevertTag PROVE Drawn(h)' = Drawn(h)
    BY <2>1, DrawnOps DEF RevertLayer, RevertTag
  <2>2. ASSUME NEW t, NEW allow, RevertBegin(t, allow) PROVE UNCHANGED entity
    BY <2>2 DEF RevertBegin
  <2> QED
    BY <1>1, <1>3, <2>1, <2>2, RevertStoreParts
       DEF RevertStep, RevertHide, RevertFails, SkipLayoutOnly
<1>4. CASE RestoreObject
  <2>1. ASSUME Restored(Here, call.snapshot[at]) PROVE Drawn(h)' = Drawn(h)
    BY <2>1 DEF Restored, Drawn, TypeOK, DrawingTypeOK, Object
  <2> QED BY <1>1, <1>4, <2>1, DrawnOps DEF RestoreObject
<1> QED BY <1>1, <1>2, <1>3, <1>4 DEF RestoreEnds

\* How a commit or a revert ends.
LEMMA PresentingEnds ==
    ASSUME TypeOK, CommitStep \/ RevertStep \/ RestoreObject \/ RestoreEnds, pc # "idle",
           pc' = "idle", ReadBackFails = FALSE
    PROVE  /\ UNCHANGED entity /\ call'.task = NoTask
           /\ \/ pc = "restore" /\ at = 0 /\ UNCHANGED taskStatus
              \/ /\ pc = "commitStore" /\ GeometryUnchanged(call.task)
                 /\ taskStatus' = [taskStatus EXCEPT ![call.task] = "committed"]
              \/ /\ pc = "revertStore" /\ GeometryUnchanged(call.task)
                 /\ taskStatus' = [taskStatus EXCEPT ![call.task] = "reverted"]
<1>1. CASE CommitStep
  <2>1. CommitStore
    <3>1. ASSUME NEW t, NEW layer_mapping, CommitBegin(t, layer_mapping) PROVE FALSE
      BY <3>1 DEF CommitBegin, Begin
    <3>2. ~CommitLayer /\ ~CommitTag /\ ~CommitFails /\ ~SkipLayoutOnly("commitLayer", "commitStore")
      BY DEF CommitLayer, CommitTag, CommitFails, SkipLayoutOnly, Goto, Advance, Fails
    <3> QED BY <1>1, <3>1, <3>2 DEF CommitStep
  <2>2. UNCHANGED entity /\ GeometryUnchanged(call.task) /\ pc = "commitStore"
    BY <2>1, Zenon DEF CommitStore, drawingVars
  <2>3. /\ taskStatus' = [taskStatus EXCEPT ![call.task] = "committed"]
        /\ call'.task = NoTask
    BY <2>1 DEF CommitStore, StoreCall, Return, NoCall, Fails, update_task_entities_and_status
  <2> QED BY <2>2, <2>3
<1>2. CASE RevertStep
  <2>1. RevertStore
    <3>1. ASSUME NEW t, NEW allow, RevertBegin(t, allow) PROVE FALSE
      BY <3>1 DEF RevertBegin, Begin
    <3>2. /\ ~RevertLayer /\ ~RevertTag /\ ~RevertHide /\ ~RevertFails
          /\ ~SkipLayoutOnly("revertLayer", "revertHide")
      BY DEF RevertLayer, RevertTag, RevertHide, RevertFails, SkipLayoutOnly, Goto, Advance, Fails
    <3> QED BY <1>2, <3>1, <3>2 DEF RevertStep
  <2>2. UNCHANGED entity /\ GeometryUnchanged(call.task) /\ pc = "revertStore"
    BY <2>1, Zenon DEF RevertStore, drawingVars
  <2>3. /\ taskStatus' = [taskStatus EXCEPT ![call.task] = "reverted"]
        /\ call'.task = NoTask
    <3>1. PICK row :
              StoreCall(update_task_entities_and_status(call.task, row, "reverted"), Return, Fails(0))
      BY <2>1, Zenon DEF RevertStore
    <3> QED BY <3>1 DEF StoreCall, Return, NoCall, Fails, update_task_entities_and_status
  <2> QED BY <2>2, <2>3
<1>3. ~RestoreObject
  BY DEF RestoreObject, Retreat
<1>4. CASE RestoreEnds
  BY <1>4 DEF RestoreEnds, Return, NoCall, storeVars
<1> QED BY <1>1, <1>2, <1>3, <1>4

\* A commit or a revert shows what it did when it is over, of all objects at
\* once; one that fails has restored every object and shows nothing.
LEMMA PresentingShows ==
    ASSUME TypeOK, TypeOK', LoopInv, StatusDuringCall, Presented, SnapshotHolds, ServerStep,
           pc \in Presenting, ReadBackFails = FALSE,
           NEW t \in Task, t = call.task, t \notin torn, UNCHANGED torn
    PROVE  [Tasks!Next]_<<StatusSeen, ItemsSeen>>
<1>p. pc # "idle" /\ [Next]_vars
  BY DEF Presenting, Next
<1>t. CallFacts /\ NoTask \notin Task
  BY CallType, TaskAssumption
<1>s. ~ExecuteStep /\ (CommitStep \/ RevertStep \/ RestoreObject \/ RestoreEnds)
  BY <1>p, StepsOfCall
<1>d. \A i \in Created : Drawn(<<t, i>>)' = Drawn(<<t, i>>)
  BY <1>s, <1>t, PresentingDraws DEF CallFacts
<1>o. ASSUME NEW s \in Task \ torn, s # t
      PROVE  taskStatus'[s] = taskStatus[s] /\ \A i \in Created : Seen(s, i)' = Seen(s, i)
  BY <1>p, <1>o, OthersKept
<1>1. \A i \in Created :
          Seen(t, i) = IF Drawn(<<t, i>>) THEN call.snapshot[i].tag.status ELSE "gone"
  BY DEF Seen
<1>2. CASE pc' # "idle"
  <2>1. pc' \in Presenting /\ call'.task = t /\ call'.snapshot = call.snapshot
    <3>1. pc' \notin Executing
      BY <1>p, <1>s, ExecutingBy DEF vars, callVars, Executing, ExecuteBefore, Presenting
    <3> QED
      BY <1>p, <1>2, <3>1, CallKept DEF TypeOK, Pc, Executing, ExecuteBefore, Presenting
  <2>2. taskStatus'[t] = taskStatus[t]
    <3>1. ~ExecuteCreateTask /\ ~StoreStatus /\ ~ExceptStatus
      BY DEF ExecuteCreateTask, StoreStatus, ExceptStatus, Presenting
    <3> QED BY <1>p, <1>2, <3>1, StatusBy, PresentedReturns
  <2>3. ASSUME NEW i \in Created PROVE Seen(t, i)' = Seen(t, i)
    BY <1>1, <1>d, <2>1 DEF Seen
  <2>4. UNCHANGED <<StatusSeen, ItemsSeen>>
    BY <1>o, <2>2, <2>3, ViewKept
  <2> QED BY <2>4
<1>3. CASE pc' = "idle"
  <2>e. /\ UNCHANGED entity /\ call'.task = NoTask
        /\ \/ pc = "restore" /\ at = 0 /\ UNCHANGED taskStatus
           \/ /\ pc = "commitStore" /\ GeometryUnchanged(t)
              /\ taskStatus' = [taskStatus EXCEPT ![t] = "committed"]
           \/ /\ pc = "revertStore" /\ GeometryUnchanged(t)
              /\ taskStatus' = [taskStatus EXCEPT ![t] = "reverted"]
    BY <1>p, <1>s, <1>3, PresentingEnds
  <2>1. ASSUME NEW i \in Created
        PROVE  Seen(t, i)' = IF Drawn(<<t, i>>) THEN entity[<<t, i>>].tag.status ELSE "gone"
    BY <1>t, <2>e DEF Seen, Drawn
  <2>2. CASE pc = "restore" /\ at = 0 /\ UNCHANGED taskStatus
    <3>1. ASSUME NEW i \in Created PROVE Seen(t, i)' = Seen(t, i)
      <4>1. ~Changed(i)
        BY <1>t, <2>2 DEF Changed, CallFacts
      <4>2. Drawn(<<t, i>>) => entity[<<t, i>>].tag = call.snapshot[i].tag
        BY <4>1 DEF SnapshotHolds
      <4> QED BY <1>1, <2>1, <4>2
    <3>2. UNCHANGED <<StatusSeen, ItemsSeen>>
      BY <1>o, <2>2, <3>1, ViewKept
    <3> QED BY <3>2
  <2>3. ASSUME pc \in {"commitStore", "revertStore"}, GeometryUnchanged(t), NEW i \in Created
        PROVE  /\ Drawn(<<t, i>>) /\ Changed(i)
               /\ ItemsSeen[t][i] # "gone"
    <3>1. Drawn(<<t, i>>)
      BY <2>3 DEF GeometryUnchanged
    <3>2. Changed(i)
      BY <1>t, <2>3 DEF LoopInv, Changed, CallFacts
    <3>3. call.snapshot[i].tag.status # "gone"
      BY <1>t, CreatedType DEF CallFacts, Call, Object, Tag
    <3> QED BY <1>1, <3>1, <3>2, <3>3 DEF ItemsSeen
  <2>4. ASSUME NEW tag, taskStatus' = [taskStatus EXCEPT ![t] = tag],
               \A i \in Created : Drawn(<<t, i>>) /\ entity[<<t, i>>].tag.status = tag
        PROVE  Tasks!Becomes(t, tag) /\ Tasks!Shows(t, Tasks!All(tag))
    <3>1. taskStatus'[t] = tag
      BY <1>t, <2>4 DEF CallFacts
    <3>2. \A i \in Created : Seen(t, i)' = Tasks!All(tag)[i]
      BY <2>1, <2>4 DEF Tasks!All
    <3>3. Tasks!All(tag) = [i \in Created |-> Tasks!All(tag)[i]]
      BY DEF Tasks!All
    <3> QED BY <1>o, <3>1, <3>2, <3>3, ViewOfOne
  <2>5. CASE /\ pc = "commitStore" /\ GeometryUnchanged(t)
             /\ taskStatus' = [taskStatus EXCEPT ![t] = "committed"]
    <3>1. \A i \in Created : Drawn(<<t, i>>) /\ entity[<<t, i>>].tag.status = "committed"
      BY <2>3, <2>5 DEF Presented, Committing, TagIs
    <3>2. StatusSeen[t] = "verified"
      BY <2>5 DEF StatusSeen, StatusDuringCall, Committing
    <3>3. Tasks!Commit(t)
      BY <2>3, <2>4, <2>5, <3>1, <3>2 DEF Tasks!Commit, Tasks!Whole
    <3> QED BY <3>3 DEF Tasks!Next
  <2>6. CASE /\ pc = "revertStore" /\ GeometryUnchanged(t)
             /\ taskStatus' = [taskStatus EXCEPT ![t] = "reverted"]
    <3>1. \A i \in Created : Drawn(<<t, i>>) /\ entity[<<t, i>>].tag.status = "reverted"
      BY <2>3, <2>6 DEF Presented, Reverting, TagIs
    <3>2. StatusSeen[t] \in {"executed", "verified", "committed", "failed"}
      BY <2>6 DEF StatusSeen, StatusDuringCall, Reverting, Revertibles
    <3>3. Tasks!Revert(t)
      BY <2>3, <2>4, <2>6, <3>1, <3>2 DEF Tasks!Revert, Tasks!Whole
    <3> QED BY <3>3 DEF Tasks!Next
  <2> QED BY <2>e, <2>2, <2>5, <2>6
<1> QED BY <1>2, <1>3

\* A call that is killed or reports a failure loses its task and no other.
LEMMA LostShows ==
    ASSUME TypeOK, TypeOK', ServerStep \/ Crash, pc # "idle",
           NEW t \in Task, t = call.task, t \in torn \/ torn' # torn
    PROVE  [Tasks!Next]_<<StatusSeen, ItemsSeen>>
<1>o. ASSUME NEW s \in Task \ torn', s # t
      PROVE  taskStatus'[s] = taskStatus[s] /\ \A i \in Created : Seen(s, i)' = Seen(s, i)
  BY <1>o, OthersKept
<1>1. UNCHANGED torn \/ torn' = torn \cup {t}
  BY TornGrows DEF Next, ReportFailure
<1>2. CASE UNCHANGED torn
  <2>1. UNCHANGED <<StatusSeen, ItemsSeen>>
    BY <1>o, <1>2, ViewKept
  <2> QED BY <2>1
<1>3. CASE torn' = torn \cup {t}
  <2>1. \A i \in Created : Seen(t, i)' = Tasks!Gone[i]
    BY <1>3 DEF Seen, Tasks!Gone
  <2>2. Tasks!Gone = [i \in Created |-> Tasks!Gone[i]]
    BY DEF Tasks!Gone
  <2>3. Tasks!Becomes(t, "lost") /\ Tasks!Shows(t, Tasks!Gone)
    BY <1>o, <1>3, <2>1, <2>2, ViewOfOne
  <2> QED BY <2>3 DEF Tasks!Next, Tasks!Lose
<1> QED BY <1>1, <1>2, <1>3

\* The steps taken while no call is active.
LEMMA StepsWhenIdle ==
    ASSUME ServerStep, pc = "idle", pc' = "idle", ReadBackFails = FALSE
    PROVE  /\ UNCHANGED <<entity, torn, callVars>>
           /\ \/ UNCHANGED taskStatus
              \/ \E t \in Task, exact \in BOOLEAN : VerifyExecution(t, exact)
<1>1. ~ExecuteStep
  BY DEF ExecuteStep, ExecuteRecord, ExecuteCreateTask, ExecuteRevalidate, DrawObject,
         FinalizeObject, LayoutDimension, DrawFails, RollbackCreated, RollbackEnds, StoreResult,
         StoreRows, StoreStatus, UndoHandle, UndoUnreachable, UndoEnds, ExceptResult, ExceptStatus,
         Begin
<1>2. ~CommitStep
  <2>1. ASSUME NEW t, NEW layer_mapping, CommitBegin(t, layer_mapping) PROVE FALSE
    BY <2>1 DEF CommitBegin, Begin
  <2>2. ~CommitStore
    BY Zenon DEF CommitStore
  <2> QED BY <2>1, <2>2 DEF CommitStep, CommitLayer, CommitTag, CommitFails, SkipLayoutOnly
<1>3. ~RevertStep
  <2>1. ASSUME NEW t, NEW allow, RevertBegin(t, allow) PROVE FALSE
    BY <2>1 DEF RevertBegin, Begin
  <2> QED
    BY <2>1, RevertStoreParts
       DEF RevertStep, RevertLayer, RevertTag, RevertHide, RevertFails, SkipLayoutOnly
<1>4. ASSUME NEW t \in Task, NEW exact \in BOOLEAN, VerifyExecution(t, exact)
      PROVE  UNCHANGED <<entity, torn, callVars>>
  BY <1>4 DEF VerifyExecution, drawingVars
<1>5. ASSUME NEW t \in AuditRequired, NEW evidence \in BOOLEAN, RenderTaskAudit(t, evidence)
      PROVE  UNCHANGED <<entity, torn, callVars, taskStatus>>
  BY <1>5 DEF RenderTaskAudit, drawingVars, save_audit
<1>6. ~RestoreObject /\ ~RestoreEnds
  BY DEF RestoreObject, RestoreEnds
<1> QED BY <1>1, <1>2, <1>3, <1>4, <1>5, <1>6, Zenon DEF ServerStep

\* The first step of a call shows nothing: an execution draws later, and the
\* snapshot of a commit or a revert is what there is.
LEMMA BeginShows ==
    ASSUME TypeOK, TypeOK', NeverDrawn, ServerStep, pc = "idle", pc' # "idle"
    PROVE  UNCHANGED <<StatusSeen, ItemsSeen>>
<1>n. [Next]_vars
  BY DEF Next
<1>t. call.task = NoTask /\ NoTask \notin Task
  BY TaskAssumption DEF TypeOK
<1>e. UNCHANGED <<entity, torn>>
  BY <1>n, ServerTouches, TornGrows
<1>1. PICK t \in Task :
          /\ call'.task = t /\ UNCHANGED taskStatus
          /\ \/ execution[t] = "none"
             \/ pc' \in Presenting /\ call'.snapshot = Snapshot(t)
  <2>1. ASSUME NEW t \in Task, ExecuteRecord(t)
        PROVE  call'.task = t /\ UNCHANGED taskStatus /\ execution[t] = "none"
    BY <2>1 DEF ExecuteRecord, Begin, Return, NoCall, record_execution
  <2>2. ASSUME NEW t \in Task, NEW layer_mapping, CommitBegin(t, layer_mapping)
        PROVE  /\ call'.task = t /\ UNCHANGED taskStatus
               /\ pc' \in Presenting /\ call'.snapshot = Snapshot(t)
    BY <2>2 DEF CommitBegin, Begin, NoCall, storeVars, Presenting
  <2>3. ASSUME NEW t \in Task, NEW allow, RevertBegin(t, allow)
        PROVE  /\ call'.task = t /\ UNCHANGED taskStatus
               /\ pc' \in Presenting /\ call'.snapshot = Snapshot(t)
    BY <2>3 DEF RevertBegin, Begin, NoCall, storeVars, Presenting
  <2> QED BY <1>n, <2>1, <2>2, <2>3, BeginBy
<1>2. ASSUME NEW s \in Task, NEW i \in Created PROVE Seen(s, i)' = Seen(s, i)
  <2>1. Seen(s, i) = IF s \in torn \/ ~Drawn(<<s, i>>) THEN "gone" ELSE entity[<<s, i>>].tag.status
    BY <1>t DEF Seen
  <2>2. CASE s # t
    BY <1>1, <1>e, <2>1, <2>2 DEF Seen, Drawn
  <2>3. CASE s = t /\ execution[t] = "none"
    BY <1>e, <2>1, <2>3 DEF Seen, Drawn, NeverDrawn
  <2>4. CASE s = t /\ pc' \in Presenting /\ call'.snapshot = Snapshot(t)
    <3>1. Snapshot(t)[i] = entity[<<t, i>>]
      BY CreatedType DEF Snapshot
    <3> QED BY <1>1, <1>e, <2>1, <2>4, <3>1 DEF Seen, Drawn
  <2> QED BY <1>1, <2>2, <2>3, <2>4
<1> QED BY <1>1, <1>2, <1>e, ViewKept

LEMMA IdleShows ==
    ASSUME TypeOK, TypeOK', NeverDrawn, ServerStep, pc = "idle", ReadBackFails = FALSE
    PROVE  [Tasks!Next]_<<StatusSeen, ItemsSeen>>
<1>1. CASE pc' # "idle"
  BY <1>1, BeginShows
<1>2. CASE pc' = "idle"
  <2>1. UNCHANGED <<entity, torn, pc, call>>
    BY <1>2, StepsWhenIdle DEF callVars
  <2>2. \A s \in Task, i \in Created : Seen(s, i)' = Seen(s, i)
    BY <2>1 DEF Seen, Drawn
  <2>3. CASE UNCHANGED taskStatus
    BY <2>1, <2>2, <2>3, ViewKept
  <2>4. ASSUME NEW t \in Task, NEW exact \in BOOLEAN, VerifyExecution(t, exact)
        PROVE  [Tasks!Next]_<<StatusSeen, ItemsSeen>>
    <3>1. PICK status \in {"verified", "failed"} :
              /\ taskStatus' = [taskStatus EXCEPT ![t] = status]
              /\ status = "verified" => \A i \in Created : ProvesOwnership(<<t, i>>)
      BY <2>4 DEF VerifyExecution, update_ai_task
    <3>2. UNCHANGED ItemsSeen
      BY <2>2 DEF ItemsSeen
    <3>3. taskStatus \in [Task -> TASK_STATUSES \cup {"none"}] /\ taskStatus[t] # "none"
      BY <2>4 DEF VerifyExecution, TypeOK, StoreTypeOK
    <3>4. CASE t \in torn
      <4>1. UNCHANGED StatusSeen
        BY <2>1, <3>1, <3>3, <3>4 DEF StatusSeen
      <4> QED BY <3>2, <4>1
    <3>5. CASE t \notin torn
      <4>1. Tasks!Becomes(t, status)
        BY <2>1, <3>1, <3>3, <3>5 DEF Tasks!Becomes, StatusSeen
      <4>2. StatusSeen[t] \notin {"none", "lost"}
        BY <3>3, <3>5 DEF StatusSeen, TASK_STATUSES
      <4>3. ASSUME status = "verified" PROVE Tasks!Whole(t)
        <5>1. ASSUME NEW i \in Created PROVE Seen(t, i) # "gone"
          <6>1. Drawn(<<t, i>>) /\ call.task # t /\ <<t, i>> \in Handle
            BY <3>1, <4>3, CallType, TaskAssumption DEF ProvesOwnership, CallFacts, TypeOK
          <6>2. entity[<<t, i>>].tag.status # "gone"
            BY <6>1 DEF TypeOK, DrawingTypeOK, Object, Tag
          <6> QED BY <3>5, <6>1, <6>2 DEF Seen
        <5> QED BY <5>1 DEF Tasks!Whole, ItemsSeen
      <4>4. Tasks!Verify(t)
        BY <3>1, <3>2, <4>1, <4>2, <4>3 DEF Tasks!Verify
      <4> QED BY <4>4 DEF Tasks!Next
    <3> QED BY <3>4, <3>5
  <2> QED BY <1>2, <2>3, <2>4, StepsWhenIdle
<1> QED BY <1>1, <1>2

\* Of what the person does, only erasing an object of a task shows.
LEMMA UserShows ==
    ASSUME TypeOK, User
    PROVE  [Tasks!Next]_<<StatusSeen, ItemsSeen>>
<1>1. UNCHANGED <<taskStatus, pc, call, torn>> /\ UNCHANGED StatusSeen
  BY DEF User, storeVars, callVars, StatusSeen
<1>t. CallFacts
  BY CallType
<1>2. ASSUME \A s \in Task, i \in Created :
                 Drawn(<<s, i>>)' = Drawn(<<s, i>>) /\ entity'[<<s, i>>].tag = entity[<<s, i>>].tag
      PROVE  UNCHANGED ItemsSeen
  <2>1. ASSUME NEW s \in Task, NEW i \in Created PROVE Seen(s, i)' = Seen(s, i)
    BY <1>1, <1>2 DEF Seen
  <2> QED BY <2>1 DEF ItemsSeen
<1>3. CASE UserEdit
  <2>1. PICK h \in Handle :
            \/ Erase(h)
            \/ entity' = [entity EXCEPT ![h].shape = "edited"]
            \/ \E layer \in UserLayers : SetLayer(h, layer)
    BY <1>3 DEF UserEdit
  <2>2. CASE Erase(h)
    <3>1. \A g \in Handle : g # h => entity'[g] = entity[g]
      BY <2>2 DEF Erase, TypeOK, DrawingTypeOK
    <3>2. ~Drawn(h)'
      BY <2>2, DrawnOps
    <3>3. CASE h[2] \notin Created
      <4>1. ASSUME NEW s \in Task, NEW i \in Created PROVE <<s, i>> # h /\ <<s, i>> \in Handle
        BY <1>t, <3>3 DEF CallFacts
      <4>2. UNCHANGED ItemsSeen
        BY <1>2, <3>1, <4>1 DEF Drawn
      <4> QED BY <1>1, <4>2
    <3>4. ASSUME NEW s \in Task, NEW i \in Created, h = <<s, i>>
          PROVE  [Tasks!Next]_<<StatusSeen, ItemsSeen>>
      <4>1. ASSUME NEW r \in Task, NEW j \in Created
            PROVE  Seen(r, j)' = IF r = s /\ j = i THEN "gone" ELSE Seen(r, j)
        <5>1. CASE r = s /\ j = i
          BY <3>2, <3>4, <5>1 DEF Seen
        <5>2. CASE <<r, j>> # h
          <6>1. entity'[<<r, j>>] = entity[<<r, j>>]
            BY <1>t, <3>1, <5>2 DEF CallFacts
          <6> QED BY <1>1, <3>4, <5>2, <6>1 DEF Seen, Drawn
        <5> QED BY <3>4, <5>1, <5>2
      <4>2. ItemsSeen' = [ItemsSeen EXCEPT ![s][i] = "gone"]
        BY <4>1 DEF ItemsSeen
      <4>3. CASE ItemsSeen[s][i] = "gone"
        <5>1. Seen(s, i) = "gone"
          BY <4>3 DEF ItemsSeen
        <5>2. ASSUME NEW r \in Task, NEW j \in Created PROVE Seen(r, j)' = Seen(r, j)
          BY <4>1, <5>1
        <5>3. UNCHANGED ItemsSeen
          BY <5>2 DEF ItemsSeen
        <5> QED BY <1>1, <5>3
      <4>4. CASE ItemsSeen[s][i] # "gone"
        BY <1>1, <4>2, <4>4 DEF Tasks!Next, Tasks!Erase
      <4> QED BY <4>3, <4>4
    <3> QED BY <1>t, <3>3, <3>4 DEF CallFacts
  <2>3. CASE entity' = [entity EXCEPT ![h].shape = "edited"] \/ \E layer \in UserLayers : SetLayer(h, layer)
    <3>1. \A g \in Handle : Drawn(g)' = Drawn(g) /\ entity'[g].tag = entity[g].tag
      BY <2>3 DEF SetLayer, Drawn, TypeOK, DrawingTypeOK, Object
    <3>2. UNCHANGED ItemsSeen
      BY <1>2, <1>t, <3>1 DEF CallFacts
    <3> QED BY <1>1, <3>2
  <2> QED BY <2>1, <2>2, <2>3
<1>4. CASE UNCHANGED entity
  BY <1>1, <1>2, <1>4 DEF Drawn
<1> QED BY <1>3, <1>4 DEF User, drawingVars

\* Every step of the workflow is a step of AtomicTasks or shows nothing.
LEMMA StepShows ==
    ASSUME TypeOK, TypeOK', LoopInv, StatusInv, AtomicInv, [Next]_vars, ReadBackFails = FALSE
    PROVE  [Tasks!Next]_<<StatusSeen, ItemsSeen>>
<1>1. CASE (ServerStep \/ Crash) /\ pc # "idle"
  <2>1. call.task \in Task
    BY <1>1, ActiveTask
  <2>2. CASE call.task \in torn \/ torn' # torn
    BY <1>1, <2>1, <2>2, LostShows
  <2>3. CASE call.task \notin torn /\ UNCHANGED torn
    <3>1. ServerStep
      BY <1>1, <2>3 DEF Crash
    <3>2. pc \in Executing \cup Presenting
      BY <1>1 DEF TypeOK, Pc, Executing, ExecuteBefore, Presenting
    <3> QED
      BY <2>1, <2>3, <3>1, <3>2, ExecutionShows, PresentingShows DEF StatusInv, AtomicInv
  <2> QED BY <2>2, <2>3
<1>2. CASE ServerStep /\ pc = "idle"
  BY <1>2, IdleShows DEF AtomicInv
<1>3. CASE User
  BY <1>3, UserShows
<1>4. CASE UNCHANGED vars
  BY <1>4 DEF vars, StatusSeen, ItemsSeen, Seen, Drawn
<1> QED BY <1>1, <1>2, <1>3, <1>4 DEF Next, Crash

LEMMA InitShows == Init => Tasks!Init
<1> SUFFICES ASSUME Init PROVE Tasks!Init
  OBVIOUS
<1>1. StatusSeen = [t \in Task |-> "none"]
  BY DEF Init, StoreInit, StatusSeen
<1>2. ItemsSeen = [t \in Task |-> Tasks!Gone]
  <2>1. ASSUME NEW t \in Task, NEW i \in Created PROVE Seen(t, i) = "gone"
    BY NothingDrawn DEF Seen
  <2> QED BY <2>1 DEF ItemsSeen, Tasks!Gone
<1> QED BY <1>1, <1>2 DEF Tasks!Init

\* TasksAtomic: an execution, a commit and a revert take effect on the status
\* and on all objects of a task at once or not at all, although the code writes
\* them one by one and anything may raise in between; of a killed call and of
\* one that reports a handle it could not undo nothing is claimed.
THEOREM TasksAtomicHolds ==
    ASSUME ReadBackFails = FALSE
    PROVE  Spec => TasksAtomic
<1>1. TypeOK /\ TypeOK' /\ LoopInv /\ StatusInv /\ AtomicInv /\ [Next]_vars
      => [Tasks!Next]_<<StatusSeen, ItemsSeen>>
  BY StepShows
<1> QED
  BY <1>1, InitShows, TypeCorrect, LoopHolds, StatusHolds, AtomicHolds, PTL
     DEF Spec, TasksAtomic, Tasks!Spec

=============================================================================

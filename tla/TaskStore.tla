------------------------------ MODULE TaskStore ------------------------------
(***************************************************************************)
(* The task tables of the SQLite store (cad_memory/database.py).  Every    *)
(* method runs in one connection that commits when the method ends and     *)
(* rolls back when it raises, so each operator below is one atomic step;   *)
(* its caller decides whether the call succeeds or raises.                 *)
(***************************************************************************)
EXTENDS Drawing

VARIABLES
    taskStatus,   \* ai_tasks.status; "none" before create_ai_task
    execution,    \* the execution_results row of the task
    entityRow,    \* ai_task_entities, one row per handle
    audit         \* ai_tasks.audit_data

storeVars == <<taskStatus, execution, entityRow, audit>>

TASK_STATUSES ==
    {"executing", "executed", "failed", "verified", "committed", "reverted"}

Row == [recorded : BOOLEAN,
        layer    : Layer \cup {NoLayer},
        formal   : Layer \cup {NoLayer},
        tag      : Tag]
NoRow == [recorded |-> FALSE, layer |-> NoLayer, formal |-> NoLayer, tag |-> NoTag]

\* The part of read_entity_state an audit hashes, and an unread object.
Observation == [layer : Layer \cup {NoLayer}, shape : {"none", "original", "planned", "edited"}]
Unread == [layer |-> NoLayer, shape |-> "none"]
Observed(h) == [layer |-> entity[h].layer, shape |-> entity[h].shape]

AuditData == [passed : BOOLEAN, snapshot : [Position -> Observation]]
NoAudit == [passed |-> FALSE, snapshot |-> [i \in Position |-> Unread]]

StoreTypeOK ==
    /\ taskStatus \in [Task -> TASK_STATUSES \cup {"none"}]
    /\ execution \in [Task -> {"none", "pending", "passed", "failed"}]
    /\ entityRow \in [Handle -> Row]
    /\ audit \in [Task -> AuditData]

StoreInit ==
    /\ taskStatus = [t \in Task |-> "none"]
    /\ execution = [t \in Task |-> "none"]
    /\ entityRow = [h \in Handle |-> NoRow]
    /\ audit = [t \in Task |-> NoAudit]

-----------------------------------------------------------------------------

record_execution(t) ==
    /\ execution' = [execution EXCEPT ![t] = "pending"]
    /\ UNCHANGED <<taskStatus, entityRow, audit>>

update_execution_result(t, passed) ==
    /\ execution' = [execution EXCEPT ![t] = IF passed THEN "passed" ELSE "failed"]
    /\ UNCHANGED <<taskStatus, entityRow, audit>>

create_ai_task(t) ==
    /\ taskStatus' = [taskStatus EXCEPT ![t] = "executing"]
    /\ UNCHANGED <<execution, entityRow, audit>>

update_ai_task(t, status) ==
    /\ taskStatus' = [taskStatus EXCEPT ![t] = status]
    /\ UNCHANGED <<execution, entityRow, audit>>

save_audit(t, data) ==
    /\ audit' = [audit EXCEPT ![t] = data]
    /\ UNCHANGED <<taskStatus, execution, entityRow>>

\* The rows of a finished plan: a created object is recorded on the layer and
\* with the metadata just given to it, the target of a layout-only position as
\* a row the task does not own.
add_ai_task_entities(t) ==
    /\ entityRow' = [h \in Handle |->
           IF h[1] # t THEN entityRow[h]
           ELSE [recorded |-> TRUE,
                 layer    |-> IF h[2] \in Created THEN PlanLayer[h[2]] ELSE entity[h].layer,
                 formal   |-> NoLayer,
                 tag      |-> IF h[2] \in Created THEN PreviewTag ELSE NoTag]]
    /\ UNCHANGED <<taskStatus, execution, audit>>

\* Rows and status change in one transaction.
update_task_entities_and_status(t, row, status) ==
    /\ entityRow' = [h \in Handle |-> IF h[1] = t /\ h[2] \in Created THEN row[h] ELSE entityRow[h]]
    /\ taskStatus' = [taskStatus EXCEPT ![t] = status]
    /\ UNCHANGED <<execution, audit>>

=============================================================================

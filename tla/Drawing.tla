------------------------------- MODULE Drawing -------------------------------
(***************************************************************************)
(* The AutoCAD drawing as the task workflow sees it.  AutoCAD is not part  *)
(* of the repository: what its objects do is taken from how the code in    *)
(* src/ uses them (HandleToObject, Add*, Delete, Layer, SetXData) and from *)
(* cad_memory/provenance.py, which owns the XData format.                  *)
(*                                                                         *)
(* A task executes one plan of PlanLength positions.  A position outside   *)
(* LayoutOnly creates one object; a position in LayoutOnly moves the text  *)
(* of a dimension that was in the drawing before the task began.  The      *)
(* object of position i of task t has the handle <<t, i>>: AutoCAD never   *)
(* gives a handle twice.                                                   *)
(***************************************************************************)
EXTENDS Naturals

CONSTANTS
    Task,          \* the task identifiers of generate_task_id
    PlanLength,    \* the number of entities of a plan
    LayoutOnly,    \* the positions whose operation is "layout_only"
    PlanLayer,     \* the layer the plan gives each position
    UserEdits,     \* the kinds of edit a person makes meanwhile
    UserLayers     \* the layers that person moves objects to

\* One layer of each role: a preview layer, the layer of unresolved geometry,
\* a formal layer, the isolation layer of a revert, and the default layer.
Layer == {"AI_PREVIEW_OUTLINE", "AI_UNCERTAIN", "OUTLINE", "AI_REVERTED", "0"}
REVERT_LAYER == "AI_REVERTED"
NoLayer == "none"

Position == 1 .. PlanLength
Created == Position \ LayoutOnly
Handle == Task \X Position

ASSUME PlanAssumption ==
    /\ PlanLength \in Nat \ {0}
    /\ LayoutOnly \subseteq Position
    /\ PlanLayer \in [Position -> Layer]
    /\ UserEdits \subseteq {"erase", "reshape", "move", "source", "artifact"}
    /\ UserLayers \subseteq Layer

\* The XData of one object.  Only the task that created an object ever writes
\* its XData, so "its task_id is t" is "the object is tagged".
Tag == [status : {"untagged", "preview", "committed", "reverted"},
        from   : Layer \cup {NoLayer}]
NoTag == [status |-> "untagged", from |-> NoLayer]
PreviewTag == [status |-> "preview", from |-> NoLayer]

\* "absent": the handle was never given out; "erased": deleted.  The shape
\* stands for everything read_entity_state compares except the layer.
Object == [state : {"absent", "drawn", "erased"},
           layer : Layer,
           tag   : Tag,
           shape : {"original", "planned", "edited"}]
Absent == [state |-> "absent", layer |-> "0", tag |-> NoTag, shape |-> "original"]
UserDimension == [state |-> "drawn", layer |-> "0", tag |-> NoTag, shape |-> "original"]
NewObject == [state |-> "drawn", layer |-> "0", tag |-> NoTag, shape |-> "planned"]

VARIABLES
    entity,         \* the object behind each handle
    revertLayerOn   \* LayerOn of the isolation layer

drawingVars == <<entity, revertLayerOn>>

DrawingTypeOK ==
    /\ entity \in [Handle -> Object]
    /\ revertLayerOn \in BOOLEAN

DrawingInit ==
    /\ entity = [h \in Handle |-> IF h[2] \in LayoutOnly THEN UserDimension ELSE Absent]
    /\ revertLayerOn = TRUE

-----------------------------------------------------------------------------
(* What the code reads.                                                    *)

Drawn(h) == entity[h].state = "drawn"

\* read_entity_provenance(entity).get("task_id") == task_id
ProvesOwnership(h) == Drawn(h) /\ entity[h].tag.status # "untagged"

-----------------------------------------------------------------------------
(* COM calls that change the drawing.                                      *)

AddObject(h) == entity' = [entity EXCEPT ![h] = NewObject]
Erase(h) == entity' = [entity EXCEPT ![h].state = "erased"]
SetLayer(h, layer) == entity' = [entity EXCEPT ![h].layer = layer]
SetTag(h, tag) == entity' = [entity EXCEPT ![h].tag = tag]
MoveText(h) == entity' = [entity EXCEPT ![h].shape = "planned"]

-----------------------------------------------------------------------------
(* The person at the AutoCAD window edits at any moment, between any two   *)
(* COM calls of a tool: the operation gate serialises tools, not people.   *)

UserEdit ==
    /\ \E h \in Handle :
        /\ Drawn(h)
        /\ \/ "erase" \in UserEdits /\ Erase(h)
           \/ "reshape" \in UserEdits /\ entity' = [entity EXCEPT ![h].shape = "edited"]
           \/ "move" \in UserEdits /\ \E layer \in UserLayers : SetLayer(h, layer)
    /\ UNCHANGED revertLayerOn

=============================================================================

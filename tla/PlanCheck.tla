------------------------------ MODULE PlanCheck ------------------------------
(***************************************************************************)
(* One planned entity on its way through the guarded workflow: validated,  *)
(* drawn, perhaps changed by a person, and verified.  Failures of COM      *)
(* calls, the store and the other tools are the matter of TaskTracking;    *)
(* here the question is whether validator, executor, drawing methods and   *)
(* verifier agree on what a plan says.                                     *)
(***************************************************************************)
EXTENDS PlanObjects

CONSTANTS
    Plans,          \* the plans a client may submit
    Dimensions,     \* dimensions of the user that a plan may lay out
    Linetypes       \* the linetypes a layer may have

DimensionNames == {"object_type", "layer", "linetype", "text_override", "background_fill",
                   "text_height", "text_position"}

ASSUME PlanAssumption ==
    \A p \in Plans :
        /\ p.entity.operation \in Operation /\ p.entity.targets \in Nat
        /\ \A name \in DOMAIN p.entity.coordinates :
              p.entity.coordinates[name] \in IF name = "points" THEN Seq(Seq(Int)) ELSE Seq(Int)
        /\ \A name \in DOMAIN p.entity.dimensions : p.entity.dimensions[name].v \in Int
        /\ p.entity.background_fill \in BOOLEAN

ASSUME DimensionAssumption ==
    \A d \in Dimensions :
        /\ d.object_type \in DOMAIN DefinitionPoints
        /\ DOMAIN d = DimensionNames \cup DefinitionPoints[d.object_type]
        /\ d.background_fill \in BOOLEAN

VARIABLES
    plan,       \* the submitted plan
    pc,         \* how far it has come
    object,     \* the object behind the handle the executor returned
    linetype,   \* the linetype of the layer the object is on
    damage,     \* history: what somebody changed (see Edit)
    unread      \* history: the property the verifier could not read

planVars == <<plan, pc, object, linetype, damage, unread>>

entity == plan.entity

Pc == {"planned", "refused", "accepted", "raised", "drawn", "passed", "failed"}
NoObject == [object_type |-> "none"]

PlanInit ==
    /\ plan \in Plans
    /\ linetype \in Linetypes
    /\ pc = "planned"
    /\ object = NoObject
    /\ damage = "none"
    /\ unread = "none"

\* cad_plan_validate, and the validation that opens PlanExecutor.execute.
Validate ==
    /\ pc = "planned"
    /\ pc' = IF Accepted(plan) THEN "accepted" ELSE "refused"
    /\ UNCHANGED <<plan, object, linetype, damage, unread>>

\* An entity is created.  When the adapter cannot set its properties it logs a
\* warning, and the object stays on the current layer.
Create ==
    /\ pc = "accepted" /\ entity.operation = "create" /\ Executable(entity)
    /\ \E layer \in {entity.layer} \cup (IF SetByExecutor(entity) THEN {} ELSE {"0"}) :
          object' = Created(entity, layer)
    /\ pc' = "drawn"
    /\ UNCHANGED <<plan, linetype, damage, unread>>

\* _layout_dimension moves the text of a dimension of the user.
Layout ==
    /\ pc = "accepted" /\ entity.operation = "layout_only" /\ Executable(entity)
    /\ \E dimension \in Dimensions :
          object' = [dimension EXCEPT !.text_position = At(entity, "text_position")]
    /\ pc' = "drawn"
    /\ UNCHANGED <<plan, linetype, damage, unread>>

\* The executor raises, of itself: the entity is rolled back.
Raise ==
    /\ pc = "accepted" /\ ~Executable(entity)
    /\ pc' = "raised"
    /\ UNCHANGED <<plan, object, linetype, damage, unread>>

-----------------------------------------------------------------------------
(* A person changes one property of the object.                            *)

Shifted(p, d) == {[p EXCEPT ![i] = @ + d] : i \in 1 .. 3}
ShiftedVertices(vs, d) ==
    {[vs EXCEPT ![k][i] = @ + d] : k \in 1 .. Len(vs), i \in {1, 2}}
    \cup {[k \in 1 .. Len(vs) |-> [vs[k] EXCEPT ![3] = @ + d]]}

\* What an amount d makes of a measurable property.
Moved(name, v, d) ==
    CASE name \in PointNames -> Shifted(v, d)
      [] name = "vertices" -> ShiftedVertices(v, d)
      [] name \in AngleNames \cup {"rotation"} -> {(v + d) % 360}
      [] name \in {"radius", "text_height"} -> {v + d}
      [] OTHER -> {}

\* What a person makes of the other ones.
Replaced(name, v) ==
    CASE name \in {"closed", "background_fill"} -> {~v}
      [] name \in {"layer", "linetype", "text_override"} -> {"other"}
      [] name = "text" -> {"other"}
      [] name = "vertices" -> {Tail(v)}
      [] OTHER -> {}

\* The diameter of a circle is compared as well, with the same tolerance.
Slight(name, d) ==
    IF object.object_type = "AcDbCircle" /\ name = "radius" THEN 2 * Abs(d) <= Tolerance
                                                            ELSE Abs(d) <= Tolerance

\* A change of what was not as planned may be one for the better.
AsPlanned(name) == name \in DOMAIN Checks(entity) => object[name] = Checks(entity)[name]

Alter(name, value, kind) ==
    /\ value # object[name] /\ object' = [object EXCEPT ![name] = value]
    /\ damage' = IF kind = "slight" \/ AsPlanned(name) THEN kind ELSE "unplanned"

Edit ==
    /\ pc = "drawn" /\ damage = "none"
    /\ \E name \in DOMAIN object :
          \/ \E d \in (-(Tolerance + 1) .. Tolerance + 1) \ {0} :
                \E value \in Moved(name, object[name], d) :
                   Alter(name, value, IF Slight(name, d) THEN "slight" ELSE name)
          \/ \E value \in Replaced(name, object[name]) : Alter(name, value, name)
          \/ /\ name = "text" /\ Lower(object.text) # object.text
             /\ Alter(name, Lower(object.text), "case")
    /\ UNCHANGED <<plan, pc, linetype, unread>>

\* PostExecutionVerifier.verify; the read of one property may fail.
Verify ==
    /\ pc = "drawn"
    /\ \E name \in {"none"} \cup (DOMAIN Native(object)) :
          /\ unread' = name
          /\ pc' = IF Verified(entity, Observed(object, {name}, linetype))
                   THEN "passed" ELSE "failed"
    /\ UNCHANGED <<plan, object, linetype, damage>>

PlanNext == Validate \/ Create \/ Layout \/ Raise \/ Edit \/ Verify

PlanSpec == PlanInit /\ [][PlanNext]_planVars

-----------------------------------------------------------------------------
(* Properties.                                                             *)

\* An accepted plan is drawn: whatever passed the validator has every field the
\* executor and the drawing methods index, with a value they can use.  The
\* exceptions are the operations that are validated but never executed.
AcceptedIsDrawn == pc = "raised" => LeftToOthers(entity)

\* What the validator does not establish and the verifier relies on: the extent
\* and the measurement the plan states beside the points agree with them, a line
\* or polyline has one elevation, a linetype is named and the one of a center or
\* hidden layer is of that family.
StatedTwiceAgrees(e) ==
    /\ e.kind = "line" => At(e, "start")[3] = At(e, "end")[3]
    /\ e.kind = "rectangle" =>
          LET p == At(e, "corner1")
              q == At(e, "corner2")
          IN /\ p[3] = q[3]
             /\ "width" \in DOMAIN e.dimensions => Value(e, "width") = Abs(p[1] - q[1])
             /\ "height" \in DOMAIN e.dimensions => Value(e, "height") = Abs(p[2] - q[2])
    /\ e.kind = "polyline" =>
          \A i \in 1 .. Len(Vertices(e)) : Vertices(e)[i][3] = Vertices(e)[1][3]
    /\ e.kind \in DIMENSION_TYPES /\ MeasurementCheck(e) # << >> =>
          MeasurementCheck(e).measurement = Native(IF e.operation = "create" THEN Shape(e)
                                                   ELSE object).measurement

LinetypeStated(e) ==
    /\ e.linetype # ""
    /\ e.linetype = "bylayer" /\ e.layer \in DOMAIN Family => linetype \in Family[e.layer]

\* A dimension that was laid out is on the layer and in the style of the plan.
LayoutOf(e) ==
    /\ object.object_type \in ExpectedTypes(e.kind)
    /\ object.linetype = e.linetype
    /\ object.text_override = "" /\ ~object.background_fill
    /\ "text_height" \in DOMAIN e.dimensions => object.text_height = Value(e, "text_height")

Coherent(e) ==
    /\ object.layer = e.layer
    /\ LinetypeStated(e)
    /\ e.operation = "layout_only" => LayoutOf(e)
    /\ StatedTwiceAgrees(e)

\* A plan that was drawn as it says, and whose object has at most been changed
\* within the tolerance, is not failed by the verifier.
FaithfulVerifies ==
    pc = "failed" /\ damage \in {"none", "slight"} /\ unread = "none" => ~Coherent(entity)

\* What the verifier does not look at.  "unplanned" is a change of something that
\* was not as planned, which may be one for the better; angles differ by at most
\* 180 degrees, so that a tolerance of 180 or more, to which the plan sets no upper
\* bound, hides every change of one.
Unchecked(e) ==
    {"none", "slight", "rotation", "case", "unplanned"}
    \cup (IF Tolerance < 180 THEN {} ELSE AngleNames)
    \cup (IF "closed" \in DOMAIN e.dimensions THEN {} ELSE {"closed"})
    \cup (IF e.kind = "text" \/ "text_height" \in DOMAIN e.dimensions THEN {}
                                                                      ELSE {"text_height"})
    \cup (IF "text_position" \in DOMAIN e.coordinates THEN {} ELSE {"text_position"})
    \cup (IF e.operation = "layout_only"
          THEN {"ext_line1_point", "ext_line2_point", "center", "chord_point",
                "far_chord_point"}
          ELSE {})

\* A verification that passes has found everything the plan says of the object
\* within the tolerance: nothing was changed but what it does not look at, and
\* no property it compares was missing.  The exception is the background fill,
\* which reads as off when it cannot be read.
DamageIsFound ==
    pc = "passed" =>
        \/ damage \in Unchecked(entity)
        \/ damage = "background_fill" /\ unread = "background_fill"

=============================================================================

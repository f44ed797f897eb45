----------------------------- MODULE PlanRules -----------------------------
(***************************************************************************)
(* What the plan validator demands of a plan (cad_memory/validator.py) and *)
(* what the executor takes for granted about an accepted one               *)
(* (cad_memory/executor.py).  The two keep separate tables of the fields   *)
(* of each kind of entity, and nothing in the code compares them.          *)
(*                                                                         *)
(* A plan here has one entity: the rules look at one entity at a time.     *)
(* Coordinates and dimensions are functions from field names; a name that  *)
(* is not in the domain is a field the plan does not have.  A point is a   *)
(* sequence of two or three integers, and any other sequence stands for a  *)
(* value that is no point (a string, a NaN, too few numbers).  The values  *)
(* of GEOMETRY_TOLERANCE are below the unit of the coordinates, so         *)
(* "coincident" is equality.                                               *)
(***************************************************************************)
EXTENDS Integers, Sequences, FiniteSets

CONSTANTS
    Layers,     \* available_layers: the layers of the drawing
    Units       \* SUPPORTED_PLAN_UNITS, after normalize_unit

Operation == {"create", "modify", "delete", "layout_only"}
PREVIEW_LAYERS == {"AI_PREVIEW_OUTLINE", "AI_PREVIEW_CENTER", "AI_PREVIEW_HIDDEN",
                   "AI_PREVIEW_HATCH", "AI_PREVIEW_DIM", "AI_UNCERTAIN"}
DIMENSION_TYPES == {"aligned_dimension", "linear_dimension",
                    "diametric_dimension", "radial_dimension"}

-----------------------------------------------------------------------------
(* The schema of dimension fields.                                         *)

Field(type) == [type |-> type, required |-> FALSE]
Needed(type) == [type |-> type, required |-> TRUE]

LengthSchema == [measurement |-> Field("positive"), offset |-> Field("finite"),
                 text_height |-> Field("positive")]

ENTITY_DIMENSION_SCHEMAS ==
    [line |-> << >>,
     text |-> [height |-> Needed("positive"), rotation |-> Field("angle")],
     rectangle |-> [width |-> Field("positive"), height |-> Field("positive"),
                    area |-> Field("positive")],
     circle |-> [radius |-> Needed("positive")],
     arc |-> [radius |-> Needed("positive"), start_angle |-> Needed("angle"),
              end_angle |-> Needed("angle")],
     polyline |-> [closed |-> Field("boolean")],
     aligned_dimension |-> LengthSchema,
     linear_dimension |-> LengthSchema,
     diametric_dimension |->
        [diameter |-> Field("positive"), measurement |-> Field("positive"),
         leader_length |-> Field("positive"), text_height |-> Field("positive")],
     radial_dimension |->
        [radius |-> Field("positive"), measurement |-> Field("positive"),
         leader_length |-> Field("positive"), text_height |-> Field("positive")]]

\* The type of a dimension value, and its value where that is a finite number.
Number(n) == [is |-> "number", v |-> n]
Truth(b) == [is |-> "boolean", v |-> IF b THEN 1 ELSE 0]
NotFinite == [is |-> "nan", v |-> 0]

FitsType(value, type) ==
    \/ type = "boolean" /\ value.is = "boolean"
    \/ /\ value.is = "number"
       /\ \/ type = "finite"
          \/ type = "positive" /\ value.v > 0
          \/ type = "angle" /\ value.v \in 0 .. 359

\* Slip: fields that are present are checked, but none has to be there.
DimensionsFit_NoneNeeded(e) ==
    e.kind \in DOMAIN ENTITY_DIMENSION_SCHEMAS =>
        LET schema == ENTITY_DIMENSION_SCHEMAS[e.kind] IN
        \A name \in DOMAIN e.dimensions :
            name \in DOMAIN schema /\ FitsType(e.dimensions[name], schema[name].type)

DimensionsFit(e) ==
    e.kind \in DOMAIN ENTITY_DIMENSION_SCHEMAS =>
        LET schema == ENTITY_DIMENSION_SCHEMAS[e.kind] IN
        /\ \A name \in DOMAIN schema : schema[name].required => name \in DOMAIN e.dimensions
        /\ \A name \in DOMAIN e.dimensions :
              name \in DOMAIN schema /\ FitsType(e.dimensions[name], schema[name].type)

-----------------------------------------------------------------------------
(* Geometry.                                                               *)

IsPoint(p) == Len(p) \in {2, 3}
XYZ(p) == IF Len(p) = 2 THEN Append(p, 0) ELSE p
SameInPlan(p, q) == p[1] = q[1] /\ p[2] = q[2]

Has(e, name) == name \in DOMAIN e.coordinates /\ IsPoint(e.coordinates[name])
Distinct(e, name1, name2) == XYZ(e.coordinates[name1]) # XYZ(e.coordinates[name2])
Value(e, name) == e.dimensions[name].v

\* _validate_required_geometry: the coordinates each kind must have.
Requirements ==
    [line |-> {"start", "end"}, text |-> {"position"},
     rectangle |-> {"corner1", "corner2"}, circle |-> {"center"}, arc |-> {"center"},
     polyline |-> {},
     aligned_dimension |-> {"start", "end"}, linear_dimension |-> {"start", "end"},
     diametric_dimension |-> {"chord_point", "far_chord_point"},
     radial_dimension |-> {"center", "chord_point"}]

IsClosed(e) == "closed" \in DOMAIN e.dimensions /\ e.dimensions["closed"] = Truth(TRUE)

\* _validate_polyline.  That no vertex repeats excludes zero-length segments.
PolylineSound(e) ==
    /\ "points" \in DOMAIN e.coordinates
    /\ LET points == e.coordinates["points"] IN
       /\ Len(points) >= IF IsClosed(e) THEN 3 ELSE 2
       /\ \A i \in 1 .. Len(points) : IsPoint(points[i])
       /\ \A i, j \in 1 .. Len(points) : i # j => ~SameInPlan(points[i], points[j])

\* _validate_entity_geometry: nothing degenerate.
ShapeSound(e) ==
    CASE e.kind = "line" -> Distinct(e, "start", "end")
      [] e.kind = "rectangle" ->
            \A i \in {1, 2} : e.coordinates["corner1"][i] # e.coordinates["corner2"][i]
      [] e.kind = "polyline" -> PolylineSound(e)
      [] e.kind = "arc" -> /\ {"start_angle", "end_angle"} \subseteq DOMAIN e.dimensions
                           /\ Value(e, "start_angle") # Value(e, "end_angle")
      [] e.kind \in {"aligned_dimension", "linear_dimension"} -> Distinct(e, "start", "end")
      [] e.kind = "diametric_dimension" -> Distinct(e, "chord_point", "far_chord_point")
      [] e.kind = "radial_dimension" -> Distinct(e, "center", "chord_point")
      [] e.kind = "text" -> e.text \notin {"", " "}
      [] OTHER -> TRUE

GeometrySound(e) ==
    /\ e.kind \in DOMAIN Requirements
    /\ \A name \in Requirements[e.kind] : Has(e, name)
    /\ ShapeSound(e)

LayoutSound(e) == e.kind \in DIMENSION_TYPES /\ Has(e, "text_position")

\* _validate_dimension_safety.  An override that is not empty is refused, so
\* what the code goes on to demand of its text is never decisive.
DimensionSafe(e) ==
    e.kind \in DIMENSION_TYPES =>
        /\ e.operation = "create" /\ "text_position" \in DOMAIN e.coordinates
              => Has(e, "text_position")
        /\ ~e.background_fill
        /\ e.text = ""
        /\ e.operation = "layout_only" =>
              {"start", "end", "center", "chord_point", "far_chord_point"}
                 \cap DOMAIN e.coordinates = {}

-----------------------------------------------------------------------------
(* The plan as a whole.  A constraint is represented by whether its data   *)
(* satisfies it within its tolerance.                                      *)

UnitAgrees(plan) ==
    /\ plan.unit \in Units
    /\ plan.drawing_unit \in {plan.unit, "unitless", "unknown"}

LayerAllowed(plan, e) ==
    /\ e.layer \in Layers
    /\ e.source = "approximate_reference" \/ e.uncertain => e.layer = "AI_UNCERTAIN"
    /\ plan.preview_mode /\ e.operation = "create" => e.layer \in PREVIEW_LAYERS

OperationAllowed(plan, e) ==
    /\ e.operation = "delete" => plan.allow_delete
    /\ e.operation = "modify" => plan.allow_overwrite
    /\ e.operation # "create" => e.targets > 0

\* PlanValidator.validate reports no error.
Accepted(plan) ==
    LET e == plan.entity IN
    /\ UnitAgrees(plan)
    /\ plan.user_confirmed
    /\ LayerAllowed(plan, e)
    /\ OperationAllowed(plan, e)
    /\ DimensionsFit(e)
    /\ IF e.operation = "layout_only" THEN LayoutSound(e) ELSE GeometrySound(e)
    /\ DimensionSafe(e)
    /\ e.constraints = "satisfied"

-----------------------------------------------------------------------------
(* What the executor and the adapter need in order not to raise.           *)

\* The points _execute_entity passes through _coord, by kind of entity.
Indexed ==
    [line |-> {"start", "end"}, text |-> {"position"},
     rectangle |-> {"corner1", "corner2"}, circle |-> {"center"}, arc |-> {"center"},
     polyline |-> {},
     aligned_dimension |-> {"start", "end"}, linear_dimension |-> {"start", "end"},
     radial_dimension |-> {"center", "chord_point"},
     diametric_dimension |-> {"chord_point", "far_chord_point"}]

\* The dimensions it reads with d[...] and not with d.get(...).
Read ==
    [kind \in DOMAIN Indexed |->
        CASE kind = "text" -> {"height"}
          [] kind = "circle" -> {"radius"}
          [] kind = "arc" -> {"radius", "start_angle", "end_angle"}
          [] OTHER -> {}]

\* InvalidParameterError of draw_circle and draw_polyline.
DrawsNothingInvalid(e) ==
    /\ e.kind = "circle" => Value(e, "radius") > 0
    /\ e.kind = "polyline" =>
          /\ "points" \in DOMAIN e.coordinates
          /\ Len(e.coordinates["points"]) >= 2
          /\ \A i \in 1 .. Len(e.coordinates["points"]) : IsPoint(e.coordinates["points"][i])

\* AutoCAD refuses numbers that are not finite among those it is given.
NumbersFinite(e) ==
    \A name \in DOMAIN e.dimensions \cap {"height", "rotation", "radius", "start_angle",
          "end_angle", "offset", "leader_length", "text_height"} :
       e.dimensions[name].is # "nan"

CanCreate(e) ==
    /\ e.kind \in DOMAIN Indexed
    /\ \A name \in Indexed[e.kind] : Has(e, name)
    /\ Read[e.kind] \subseteq DOMAIN e.dimensions
    /\ NumbersFinite(e)
    /\ DrawsNothingInvalid(e)
    /\ e.kind \in DIMENSION_TYPES /\ "text_position" \in DOMAIN e.coordinates
          => Has(e, "text_position")

CanLayout(e) == e.targets = 1 /\ Has(e, "text_position")

\* _execute_entity and _finalize_entity return.
Executable(e) ==
    \/ e.operation = "create" /\ CanCreate(e)
    \/ e.operation = "layout_only" /\ CanLayout(e)

\* Operations that may be validated but are not executed: modify and delete,
\* and a layout of several dimensions at once.
LeftToOthers(e) ==
    \/ e.operation \in {"modify", "delete"}
    \/ e.operation = "layout_only" /\ e.targets # 1

=============================================================================

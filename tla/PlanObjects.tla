----------------------------- MODULE PlanObjects -----------------------------
(***************************************************************************)
(* What becomes of an accepted plan in AutoCAD, and what the verifier      *)
(* makes of that: drawing (PlanExecutor._execute_entity and the draw_*     *)
(* methods of adapters/mixins/drawing_mixin.py), reading back and          *)
(* comparing (cad_memory/verifier.py).                                     *)
(*                                                                         *)
(* An object is a function from the names read_entity_state gives to the   *)
(* properties.  Lengths and measurements are kept as squares, so that they *)
(* are integers; WithinRoots compares the roots.  Angles are in degrees,   *)
(* the unit of the plan; strings are in lower case where only str.lower()  *)
(* of them is looked at.                                                   *)
(***************************************************************************)
EXTENDS PlanRules

CONSTANT Tolerance     \* plan.tolerance

ASSUME ToleranceAssumption == Tolerance \in Nat \ {0}

-----------------------------------------------------------------------------
(* Drawing.                                                                *)

\* The properties of f, and those of g that f does not have.
Merged(f, g) ==
    [name \in DOMAIN f \cup DOMAIN g |-> IF name \in DOMAIN f THEN f[name] ELSE g[name]]

Abs(n) == IF n < 0 THEN -n ELSE n
Square(n) == n * n
Flat(p, q) == Square(p[1] - q[1]) + Square(p[2] - q[2])
Spatial(p, q) == Flat(p, q) + Square(p[3] - q[3])

At(e, name) == XYZ(e.coordinates[name])

\* draw_rectangle: the closing corner is a vertex of its own.
Corners(p, q) ==
    << <<p[1], p[2], p[3]>>, <<q[1], p[2], p[3]>>, <<q[1], q[2], q[3]>>,
       <<p[1], q[2], q[3]>>, <<p[1], p[2], p[3]>> >>

\* AddPolyline makes a polyline with one elevation, that of its first vertex.
AddPolyline(points) == [i \in 1 .. Len(points) |-> [points[i] EXCEPT ![3] = points[1][3]]]
Vertices(e) == [i \in 1 .. Len(e.coordinates["points"]) |-> XYZ(e.coordinates["points"][i])]

\* Native defaults of a new dimension, where the plan gives none.
DefaultHeight == 2
DefaultPlace == <<1, 1, 0>>
Given(e, name, default) == IF name \in DOMAIN e.dimensions THEN Value(e, name) ELSE default

\* _finalize_entity of the executor for the four kinds of dimension.
DimensionStyle(e) ==
    [text_override |-> "", background_fill |-> FALSE,
     text_height |-> Given(e, "text_height", DefaultHeight),
     text_position |-> IF Has(e, "text_position") THEN At(e, "text_position")
                                                  ELSE DefaultPlace]

\* What the points of a native dimension are called.
DefinitionPoints ==
    [AcDbAlignedDimension |-> {"ext_line1_point", "ext_line2_point"},
     AcDbRadialDimension |-> {"center", "chord_point"},
     AcDbDiametricDimension |-> {"chord_point", "far_chord_point"}]

\* The draw_* methods, and _native_dimension of the executor.
draw_line(e) ==
    [object_type |-> "AcDbLine", start |-> At(e, "start"), end |-> At(e, "end")]

draw_text(e) ==
    [object_type |-> "AcDbText", position |-> At(e, "position"), text |-> e.text,
     text_height |-> Value(e, "height"), rotation |-> Given(e, "rotation", 0)]

draw_polyline(vertices, closed) ==
    [object_type |-> "AcDb2dPolyline", closed |-> closed, vertices |-> AddPolyline(vertices)]

draw_circle(e) ==
    [object_type |-> "AcDbCircle", center |-> At(e, "center"), radius |-> Value(e, "radius")]

draw_arc(e) ==
    [object_type |-> "AcDbArc", center |-> At(e, "center"), radius |-> Value(e, "radius"),
     start_angle |-> Value(e, "start_angle"), end_angle |-> Value(e, "end_angle")]

add_dimension(e) ==
    [object_type |-> "AcDbAlignedDimension",
     ext_line1_point |-> At(e, "start"), ext_line2_point |-> At(e, "end")]

native_dimension(e) ==
    Merged([name \in Indexed[e.kind] |-> At(e, name)],
           [object_type |-> IF e.kind = "radial_dimension" THEN "AcDbRadialDimension"
                                                           ELSE "AcDbDiametricDimension"])

\* _execute_entity: the method for the kind of the entity.
Shape(e) ==
    CASE e.kind = "line" -> draw_line(e)
      [] e.kind = "text" -> draw_text(e)
      [] e.kind = "rectangle" ->
            draw_polyline(Corners(At(e, "corner1"), At(e, "corner2")), TRUE)
      [] e.kind = "polyline" -> draw_polyline(Vertices(e), IsClosed(e))
      [] e.kind = "circle" -> draw_circle(e)
      [] e.kind = "arc" -> draw_arc(e)
      [] e.kind \in {"aligned_dimension", "linear_dimension"} ->
            Merged(add_dimension(e), DimensionStyle(e))
      [] OTHER -> Merged(native_dimension(e), DimensionStyle(e))

\* The native radial and diametric dimensions get layer and linetype from the
\* executor; the adapter applies the layer of all others in _apply_properties,
\* which swallows a failure.
SetByExecutor(e) == e.kind \in {"diametric_dimension", "radial_dimension"}

Created(e, layer) ==
    Merged([layer |-> layer, linetype |-> IF e.linetype = "" THEN "bylayer" ELSE e.linetype],
           Shape(e))

-----------------------------------------------------------------------------
(* Reading back (read_entity_state).                                       *)

Xs(vertices) == {vertices[i][1] : i \in 1 .. Len(vertices)}
Ys(vertices) == {vertices[i][2] : i \in 1 .. Len(vertices)}
Extent(S) == CHOOSE d \in {a - b : a, b \in S} : \A a, b \in S : a - b <= d

Ends(o) ==
    CASE o.object_type = "AcDbLine" -> <<o.start, o.end>>
      [] o.object_type = "AcDbAlignedDimension" -> <<o.ext_line1_point, o.ext_line2_point>>
      [] o.object_type = "AcDbDiametricDimension" -> <<o.chord_point, o.far_chord_point>>
      [] o.object_type = "AcDbRadialDimension" -> <<o.center, o.chord_point>>
      [] OTHER -> << >>

\* Properties AutoCAD computes: the length of a line is that in space, a
\* dimension measures in the plane of the drawing.
Native(o) ==
    IF Ends(o) = << >> THEN o
    ELSE LET a == Ends(o)[1]
             b == Ends(o)[2]
         IN Merged(o, IF o.object_type = "AcDbLine" THEN [length |-> Spatial(a, b)]
                                                    ELSE [measurement |-> Flat(a, b)])

WithoutProperties(o, lost) == [name \in DOMAIN o \ lost |-> o[name]]

\* What the verifier computes from what it has read.
Derived(o, linetype) ==
    LET names ==
          (IF "radius" \in DOMAIN o THEN {"diameter"} ELSE {})
          \cup (IF "vertices" \in DOMAIN o THEN {"vertex_count", "width", "height"} ELSE {})
          \cup (IF {"linetype", "layer"} \subseteq DOMAIN o /\ o.linetype = "bylayer"
                THEN {"effective_linetype"} ELSE {})
    IN  [name \in names |->
            CASE name = "diameter" -> 2 * o.radius
              [] name = "vertex_count" -> Len(o.vertices)
              [] name = "width" -> Extent(Xs(o.vertices))
              [] name = "height" -> Extent(Ys(o.vertices))
              [] name = "effective_linetype" -> linetype]

\* A property whose read raises is absent, but for the background fill, which
\* is then taken to be off.
Observed(o, lost, linetype) ==
    LET native == WithoutProperties(Native(o), lost)
    IN Merged(native, Merged(Derived(native, linetype), [background_fill |-> FALSE]))

-----------------------------------------------------------------------------
(* Comparing (_compare_entity).                                            *)

\* _expected_object_type and the linetypes of _compare_entity: any of a set.
ExpectedTypes(kind) ==
    CASE kind = "line" -> {"AcDbLine"}
      [] kind = "text" -> {"AcDbText"}
      [] kind \in {"rectangle", "polyline"} -> {"AcDbPolyline", "AcDb2dPolyline"}
      [] kind = "circle" -> {"AcDbCircle"}
      [] kind = "arc" -> {"AcDbArc"}
      [] kind = "aligned_dimension" -> {"AcDbAlignedDimension"}
      [] kind = "linear_dimension" -> {"AcDbRotatedDimension", "AcDbAlignedDimension"}
      [] kind = "diametric_dimension" -> {"AcDbDiametricDimension"}
      [] kind = "radial_dimension" -> {"AcDbRadialDimension"}

Family == [AI_PREVIEW_CENTER |-> {"center", "center2", "centerx2"},
           AI_PREVIEW_HIDDEN |-> {"hidden", "hidden2", "hiddenx2"}]

CommonChecks(e) ==
    Merged([layer |-> e.layer, linetype |-> e.linetype, object_type |-> ExpectedTypes(e.kind)],
           [name \in IF e.linetype = "bylayer" /\ e.layer \in DOMAIN Family
                     THEN {"effective_linetype"} ELSE {} |-> Family[e.layer]])

\* The fields of the plan that are copied into the checks when it has them.
Optional(e, names) ==
    [name \in names \cap DOMAIN e.dimensions |-> Value(e, name)]

MeasurementCheck(e) ==
    LET otherwise == CASE e.kind = "diametric_dimension" -> {"diameter"}
                       [] e.kind = "radial_dimension" -> {"radius"}
                       [] OTHER -> {}
        source == IF "measurement" \in DOMAIN e.dimensions THEN {"measurement"}
                  ELSE otherwise \cap DOMAIN e.dimensions
    IN [name \in IF source = {} THEN {} ELSE {"measurement"} |->
            Square(Value(e, CHOOSE field \in source : TRUE))]

DefinitionChecks(e) ==
    IF e.operation = "layout_only" THEN << >>
    ELSE IF e.kind \in {"aligned_dimension", "linear_dimension"}
    THEN [ext_line1_point |-> At(e, "start"), ext_line2_point |-> At(e, "end")]
    ELSE [name \in Requirements[e.kind] |-> At(e, name)]

DimensionChecks(e) ==
    Merged([text_override |-> e.text, background_fill |-> e.background_fill],
    Merged(MeasurementCheck(e),
    Merged(DefinitionChecks(e),
    Merged(Optional(e, {"text_height"}),
           [name \in {"text_position"} \cap DOMAIN e.coordinates |-> At(e, name)]))))

ShapeChecks(e) ==
    CASE e.kind = "line" ->
            [start |-> At(e, "start"), end |-> At(e, "end"),
             length |-> Flat(At(e, "start"), At(e, "end"))]
      [] e.kind = "text" ->
            [position |-> At(e, "position"), text |-> e.text,
             text_height |-> Value(e, "height")]
      [] e.kind = "rectangle" ->
            Merged([closed |-> TRUE, vertices |-> Corners(At(e, "corner1"), At(e, "corner2")),
                    vertex_count |-> 5], Optional(e, {"width", "height"}))
      [] e.kind = "polyline" ->
            Merged([vertices |-> Vertices(e), vertex_count |-> Len(Vertices(e))],
                   [name \in {"closed"} \cap DOMAIN e.dimensions |-> IsClosed(e)])
      [] e.kind = "circle" ->
            [center |-> At(e, "center"), radius |-> Value(e, "radius"),
             diameter |-> 2 * Value(e, "radius")]
      [] e.kind = "arc" ->
            Merged([center |-> At(e, "center")],
                   Optional(e, {"radius", "start_angle", "end_angle"}))
      [] OTHER -> DimensionChecks(e)

Checks(e) == Merged(CommonChecks(e), ShapeChecks(e))

PointNames == {"start", "end", "center", "position", "text_position",
               "ext_line1_point", "ext_line2_point", "chord_point", "far_chord_point"}
AngleNames == {"start_angle", "end_angle"}
RootNames == {"length", "measurement"}
NumberNames == {"radius", "diameter", "width", "height", "vertex_count", "text_height"}
SetNames == {"object_type", "effective_linetype"}

\* Slip: points compared in the plane only.
ClosePoints_InPlan(p, q) == \A i \in 1 .. 2 : Abs(p[i] - q[i]) <= Tolerance

ClosePoints(p, q) == \A i \in 1 .. 3 : Abs(p[i] - q[i]) <= Tolerance

\* |sqrt(m) - sqrt(n)| <= Tolerance, in integers.
WithinRoots(m, n) ==
    LET rest == m + n - Square(Tolerance)
    IN rest <= 0 \/ Square(rest) <= 4 * m * n

\* Slip: angles compared as numbers.
AngleError_Linear(target, actual) == Abs(actual - target)

\* _angle_error: the distance on the circle.
AngleError(target, actual) == Abs(((actual - target + 180) % 360) - 180)

\* str.lower() of a text.
Lower(text) == IF text = "M8" THEN "m8" ELSE text

\* One row of the report: the error of a property against its target.
Passes(name, target, actual) ==
    CASE name \in PointNames -> ClosePoints(target, actual)
      [] name = "vertices" -> /\ Len(target) = Len(actual)
                              /\ \A i \in 1 .. Len(target) : ClosePoints(target[i], actual[i])
      [] name \in AngleNames -> AngleError(target, actual) <= Tolerance
      [] name \in RootNames -> WithinRoots(target, actual)
      [] name \in NumberNames -> Abs(target - actual) <= Tolerance
      [] name \in SetNames -> actual \in target
      [] name = "text" -> Lower(target) = Lower(actual)
      [] OTHER -> target = actual

Verified(e, observed) ==
    \A name \in DOMAIN Checks(e) :
        name \in DOMAIN observed /\ Passes(name, Checks(e)[name], observed[name])

=============================================================================

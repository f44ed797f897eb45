--------------------------- MODULE PlanningProofs ---------------------------
(***************************************************************************)
(* Proofs about the plan: what the validator accepts can be drawn, and the *)
(* verifier passes what was drawn as planned and finds what was changed;   *)
(* and about the analysis of the source that a plan is made from: what was *)
(* read stays in evidence through two merges, and the cache gives what an  *)
(* analysis finds.                                                         *)
(***************************************************************************)
EXTENDS AnalysisCache, PlanCheck, SequenceTheorems, WellFoundedInduction, TLAPS

-----------------------------------------------------------------------------
(* PlanCheck: the tables of the validator cover those of the executor, for *)
(* every plan whatever its coordinates and dimensions.                     *)

\* The required fields of the schema are those the executor reads, a field that
\* fits its schema is finite, and a radius that fits is positive.
LEMMA DimensionsSuffice ==
    ASSUME NEW e, DimensionsFit(e), e.kind \in DOMAIN Requirements
    PROVE  /\ Read[e.kind] \subseteq DOMAIN e.dimensions
           /\ NumbersFinite(e)
           /\ e.kind = "circle" => Value(e, "radius") > 0
<1> DEFINE schema == ENTITY_DIMENSION_SCHEMAS[e.kind]
<1>1. e.kind \in DOMAIN ENTITY_DIMENSION_SCHEMAS
  BY DEF Requirements, ENTITY_DIMENSION_SCHEMAS
<1>2. /\ \A name \in DOMAIN schema : schema[name].required => name \in DOMAIN e.dimensions
      /\ \A name \in DOMAIN e.dimensions :
            name \in DOMAIN schema /\ FitsType(e.dimensions[name], schema[name].type)
  BY <1>1 DEF DimensionsFit
<1>3. NumbersFinite(e)
  BY <1>2 DEF NumbersFinite, FitsType
<1>4. CASE e.kind = "text"
  <2>1. "height" \in DOMAIN schema /\ schema["height"].required
    BY <1>4 DEF ENTITY_DIMENSION_SCHEMAS, Needed, Field
  <2>2. Read[e.kind] = {"height"}
    BY <1>4 DEF Read, Indexed
  <2> QED  BY <1>2, <1>3, <1>4, <2>1, <2>2
<1>5. CASE e.kind = "circle"
  <2>1. /\ "radius" \in DOMAIN schema
        /\ schema["radius"].required /\ schema["radius"].type = "positive"
    BY <1>5 DEF ENTITY_DIMENSION_SCHEMAS, Needed, Field
  <2>2. Read[e.kind] = {"radius"}
    BY <1>5 DEF Read, Indexed
  <2>3. e.dimensions["radius"].v > 0
    BY <1>2, <2>1 DEF FitsType
  <2> QED  BY <1>2, <1>3, <2>1, <2>2, <2>3 DEF Value
<1>6. CASE e.kind = "arc"
  <2>1. \A name \in {"radius", "start_angle", "end_angle"} :
           name \in DOMAIN schema /\ schema[name].required
    BY <1>6 DEF ENTITY_DIMENSION_SCHEMAS, Needed, Field
  <2>2. Read[e.kind] = {"radius", "start_angle", "end_angle"}
    BY <1>6 DEF Read, Indexed
  <2> QED  BY <1>2, <1>3, <1>6, <2>1, <2>2
<1>7. CASE e.kind \notin {"text", "circle", "arc"}
  <2>1. Read[e.kind] = {}
    BY <1>7 DEF Read, Indexed, Requirements
  <2> QED  BY <1>3, <1>7, <2>1
<1> QED  BY <1>4, <1>5, <1>6, <1>7

\* An accepted plan can be executed or is of an operation nobody executes.
LEMMA AcceptedExecutes ==
    ASSUME NEW p \in Plans, Accepted(p)
    PROVE  Executable(p.entity) \/ LeftToOthers(p.entity)
<1> DEFINE e == p.entity
<1> SUFFICES ASSUME ~LeftToOthers(e) PROVE Executable(e)
  OBVIOUS
<1>1. \/ e.operation = "create"
      \/ e.operation = "layout_only" /\ e.targets = 1
  BY PlanAssumption DEF LeftToOthers, Operation
<1>2. DimensionsFit(e) /\ DimensionSafe(e)
  BY DEF Accepted
<1>3. CASE e.operation = "layout_only" /\ e.targets = 1
  <2>1. LayoutSound(e)
    BY <1>3 DEF Accepted
  <2> QED  BY <1>3, <2>1 DEF Executable, CanLayout, LayoutSound
<1>4. CASE e.operation = "create"
  <2>1. GeometrySound(e)
    BY <1>4 DEF Accepted
  <2>2. e.kind \in DOMAIN Requirements /\ \A name \in Requirements[e.kind] : Has(e, name)
    BY <2>1 DEF GeometrySound
  <2>3. e.kind \in DOMAIN Indexed /\ Indexed[e.kind] = Requirements[e.kind]
    BY <2>2 DEF Indexed, Requirements
  <2>4. /\ Read[e.kind] \subseteq DOMAIN e.dimensions
        /\ NumbersFinite(e)
        /\ e.kind = "circle" => Value(e, "radius") > 0
    BY <1>2, <2>2, DimensionsSuffice
  <2>5. ASSUME e.kind = "polyline"
        PROVE  /\ "points" \in DOMAIN e.coordinates
               /\ Len(e.coordinates["points"]) >= 2
               /\ \A i \in 1 .. Len(e.coordinates["points"]) :
                     IsPoint(e.coordinates["points"][i])
    <3>1. PolylineSound(e)
      BY <2>1, <2>5 DEF GeometrySound, ShapeSound
    <3> QED  BY <3>1 DEF PolylineSound
  <2>6. e.kind \in DIMENSION_TYPES /\ "text_position" \in DOMAIN e.coordinates
           => Has(e, "text_position")
    BY <1>2, <1>4 DEF DimensionSafe
  <2> QED
    BY <1>4, <2>2, <2>3, <2>4, <2>5, <2>6 DEF Executable, CanCreate, DrawsNothingInvalid
<1> QED  BY <1>1, <1>3, <1>4

\* A plan that passed the validator is remembered until it is drawn or raises.
PlanInv ==
    /\ plan \in Plans
    /\ pc = "accepted" => Accepted(plan)
    /\ AcceptedIsDrawn

\* Whatever the plans and the drawing, the executor raises of itself only for
\* operations that are validated but not executed (PlanExecutor.execute).
THEOREM AcceptedPlansAreDrawn == PlanSpec => []AcceptedIsDrawn
<1>1. PlanInit => PlanInv
  BY DEF PlanInit, PlanInv, AcceptedIsDrawn
<1>2. PlanInv /\ [PlanNext]_planVars => PlanInv'
  <2> SUFFICES ASSUME PlanInv, [PlanNext]_planVars PROVE PlanInv'
    OBVIOUS
  <2>1. CASE Validate
    BY <2>1 DEF Validate, PlanInv, AcceptedIsDrawn, entity
  <2>2. CASE Create \/ Layout
    BY <2>2 DEF Create, Layout, PlanInv, AcceptedIsDrawn, entity
  <2>3. CASE Raise
    <3>1. Executable(entity) \/ LeftToOthers(entity)
      BY <2>3, AcceptedExecutes DEF Raise, PlanInv, entity
    <3> QED  BY <2>3, <3>1 DEF Raise, PlanInv, AcceptedIsDrawn, entity
  <2>4. CASE Edit
    BY <2>4 DEF Edit, Alter, PlanInv, AcceptedIsDrawn, entity
  <2>5. CASE Verify
    BY <2>5 DEF Verify, PlanInv, AcceptedIsDrawn, entity
  <2>6. CASE UNCHANGED planVars
    BY <2>6 DEF planVars, PlanInv, AcceptedIsDrawn, entity
  <2> QED  BY <2>1, <2>2, <2>3, <2>4, <2>5, <2>6 DEF PlanNext
<1>3. PlanInv => AcceptedIsDrawn
  BY DEF PlanInv
<1> QED  BY <1>1, <1>2, <1>3, PTL DEF PlanSpec

-----------------------------------------------------------------------------
(* PlanCheck: what the verifier compares.                                  *)

IsXYZ(p) == DOMAIN p = 1 .. 3 /\ \A i \in 1 .. 3 : p[i] \in Int

\* What is known of an entity that was accepted and can be drawn.
Typed(e) ==
    /\ e.operation \in {"create", "layout_only"}
    /\ \A name \in DOMAIN e.coordinates :
          e.coordinates[name] \in IF name = "points" THEN Seq(Seq(Int)) ELSE Seq(Int)
    /\ \A name \in DOMAIN e.dimensions : e.dimensions[name].v \in Int
    /\ e.background_fill \in BOOLEAN

\* What the validator and the executor have made sure of when they draw it.
Ready(e) ==
    /\ Typed(e) /\ DimensionsFit(e) /\ DimensionSafe(e)
    /\ e.operation = "create" => GeometrySound(e) /\ CanCreate(e)
    /\ e.operation = "layout_only" => LayoutSound(e)

\* What the verifier can compare under this name.
TypedValue(name, v) ==
    /\ name \in PointNames => IsXYZ(v)
    /\ name \in AngleNames => v \in 0 .. 359
    /\ name \in {"radius", "text_height"} => v \in Int
    /\ name = "vertices" => /\ Len(v) \in Nat \ {0} /\ DOMAIN v = 1 .. Len(v)
                            /\ \A i \in 1 .. Len(v) : IsXYZ(v[i])
    /\ name \in {"closed", "background_fill"} => v \in BOOLEAN

\* A point of the plan has three coordinates once it is normalised.
LEMMA XYZTyped ==
    ASSUME NEW p \in Seq(Int), IsPoint(p)
    PROVE  IsXYZ(XYZ(p))
  <1>1. Len(p) = 2 \/ Len(p) = 3
    BY DEF IsPoint
  <1>2. CASE Len(p) = 2
    <2>1. XYZ(p) = Append(p, 0)
      BY <1>2 DEF XYZ
    <2>2. /\ Append(p, 0) \in Seq(Int) /\ Len(Append(p, 0)) = Len(p) + 1
          /\ DOMAIN Append(p, 0) = 1 .. Len(Append(p, 0))
      OBVIOUS
    <2>3. \A i \in 1 .. Len(Append(p, 0)) : Append(p, 0)[i] \in Int
      BY <2>2
    <2>4. Len(Append(p, 0)) = 3
      BY <1>2, <2>2
    <2> QED
      BY <2>1, <2>2, <2>3, <2>4 DEF IsXYZ
  <1>3. CASE Len(p) = 3
    <2>1. XYZ(p) = p /\ DOMAIN p = 1 .. 3
      BY <1>3 DEF XYZ
    <2>2. \A i \in 1 .. 3 : p[i] \in Int
      BY <2>1
    <2> QED
      BY <2>1, <2>2 DEF IsXYZ
  <1> QED
    BY <1>1, <1>2, <1>3

\* The points the executor reads are points.
LEMMA AtTyped ==
    ASSUME NEW e, Typed(e), NEW name, name # "points", Has(e, name)
    PROVE  IsXYZ(At(e, name))
  BY XYZTyped DEF Typed, Has, At

\* The rows of a line: their targets are well typed, and every property of the
\* object that can be compared has one.
LEMMA LineFacts ==
    ASSUME NEW e, Ready(e), e.operation = "create", e.kind = "line"
    PROVE  /\ \A name \in DOMAIN ShapeChecks(e) : TypedValue(name, ShapeChecks(e)[name])
           /\ DOMAIN Shape(e) \subseteq DOMAIN ShapeChecks(e) \cup {"object_type"}
  <1>1. IsXYZ(At(e, "start")) /\ IsXYZ(At(e, "end"))
    BY AtTyped DEF Ready, CanCreate, Indexed
  <1>2. Shape(e) = draw_line(e)
    BY DEF Shape
  <1>3. ShapeChecks(e) = [start |-> At(e, "start"), end |-> At(e, "end"),
                          length |-> Flat(At(e, "start"), At(e, "end"))]
    BY DEF ShapeChecks
  <1>4. DOMAIN Shape(e) = {"object_type", "start", "end"}
    BY <1>2 DEF draw_line
  <1>5. DOMAIN ShapeChecks(e) = {"start", "end", "length"}
    BY <1>3
  <1>6. TypedValue("start", At(e, "start")) /\ TypedValue("end", At(e, "end"))
    BY <1>1 DEF TypedValue, AngleNames
  <1>7. TypedValue("length", ShapeChecks(e)["length"])
    BY DEF TypedValue, PointNames, AngleNames
  <1> QED
    BY <1>3, <1>4, <1>5, <1>6, <1>7

\* The rows of a text; its rotation has none.
LEMMA TextFacts ==
    ASSUME NEW e, Ready(e), e.operation = "create", e.kind = "text"
    PROVE  /\ \A name \in DOMAIN ShapeChecks(e) : TypedValue(name, ShapeChecks(e)[name])
           /\ DOMAIN Shape(e) \subseteq DOMAIN ShapeChecks(e) \cup {"object_type", "rotation"}
  <1>1. IsXYZ(At(e, "position"))
    BY AtTyped DEF Ready, CanCreate, Indexed
  <1>2. Value(e, "height") \in Int
    BY DEF Ready, Typed, CanCreate, Read, Indexed, Value
  <1>3. Shape(e) = draw_text(e)
    BY DEF Shape
  <1>4. ShapeChecks(e) = [position |-> At(e, "position"), text |-> e.text,
                          text_height |-> Value(e, "height")]
    BY DEF ShapeChecks
  <1>5. DOMAIN Shape(e) = {"object_type", "position", "text", "text_height", "rotation"}
    BY <1>3 DEF draw_text
  <1>6. DOMAIN ShapeChecks(e) = {"position", "text", "text_height"}
    BY <1>4
  <1>7. TypedValue("position", At(e, "position"))
    BY <1>1 DEF TypedValue, AngleNames
  <1>8. TypedValue("text_height", Value(e, "height"))
    BY <1>2 DEF TypedValue, PointNames, AngleNames
  <1>9. TypedValue("text", e.text)
    BY DEF TypedValue, PointNames, AngleNames
  <1> QED
    BY <1>4, <1>5, <1>6, <1>7, <1>8, <1>9

\* The rows of a rectangle.
LEMMA RectangleFacts ==
    ASSUME NEW e, Ready(e), e.operation = "create", e.kind = "rectangle"
    PROVE  /\ \A name \in DOMAIN ShapeChecks(e) : TypedValue(name, ShapeChecks(e)[name])
           /\ DOMAIN Shape(e) \subseteq DOMAIN ShapeChecks(e) \cup {"object_type"}
  <1> DEFINE p == At(e, "corner1")
             q == At(e, "corner2")
             more == Optional(e, {"width", "height"})
  <1>1. IsXYZ(p) /\ IsXYZ(q)
    BY AtTyped DEF Ready, CanCreate, Indexed
  <1>2. Shape(e) = draw_polyline(Corners(p, q), TRUE)
    BY DEF Shape
  <1>3. ShapeChecks(e) = Merged([closed |-> TRUE, vertices |-> Corners(p, q),
                                 vertex_count |-> 5], more)
    BY DEF ShapeChecks
  <1>4. DOMAIN more \subseteq {"width", "height"}
    BY DEF Optional
  <1> HIDE DEF p, q, more
  <1>5. TypedValue("vertices", Corners(p, q))
    BY <1>1 DEF TypedValue, Corners, IsXYZ, PointNames, AngleNames
  <1>6. /\ DOMAIN ShapeChecks(e) = {"closed", "vertices", "vertex_count"} \cup DOMAIN more
        /\ ShapeChecks(e)["closed"] = TRUE
        /\ ShapeChecks(e)["vertices"] = Corners(p, q)
    BY <1>3 DEF Merged
  <1>7. DOMAIN Shape(e) = {"object_type", "closed", "vertices"}
    BY <1>2 DEF draw_polyline
  <1>8. \A name \in {"width", "height", "vertex_count"} : TypedValue(name, ShapeChecks(e)[name])
    BY DEF TypedValue, PointNames, AngleNames
  <1>9. TypedValue("closed", TRUE)
    BY DEF TypedValue, PointNames, AngleNames
  <1> QED
    BY <1>4, <1>5, <1>6, <1>7, <1>8, <1>9

\* The rows of a polyline; whether it is closed has one when the plan says so.
LEMMA PolylineFacts ==
    ASSUME NEW e, Ready(e), e.operation = "create", e.kind = "polyline"
    PROVE  /\ \A name \in DOMAIN ShapeChecks(e) : TypedValue(name, ShapeChecks(e)[name])
           /\ DOMAIN Shape(e) \subseteq DOMAIN ShapeChecks(e) \cup {"object_type", "closed"}
           /\ "closed" \in DOMAIN e.dimensions => "closed" \in DOMAIN ShapeChecks(e)
  <1> DEFINE points == e.coordinates["points"]
             more == [name \in {"closed"} \cap DOMAIN e.dimensions |-> IsClosed(e)]
  <1>1. /\ "points" \in DOMAIN e.coordinates /\ points \in Seq(Seq(Int)) /\ Len(points) >= 2
        /\ \A i \in 1 .. Len(points) : IsPoint(points[i])
    BY DEF Ready, Typed, CanCreate, DrawsNothingInvalid
  <1>2. Shape(e) = draw_polyline(Vertices(e), IsClosed(e))
    BY DEF Shape
  <1>3. ShapeChecks(e) = Merged([vertices |-> Vertices(e), vertex_count |-> Len(Vertices(e))], more)
    BY DEF ShapeChecks
  <1>4. \A i \in 1 .. Len(points) : IsXYZ(XYZ(points[i]))
    BY <1>1, XYZTyped
  <1>5. TypedValue("vertices", Vertices(e))
    <2>1. Vertices(e) = [i \in 1 .. Len(points) |-> XYZ(points[i])]
      BY DEF Vertices
    <2> HIDE DEF points
    <2>2. DOMAIN Vertices(e) = 1 .. Len(points) /\ Len(points) \in Nat
      BY <1>1, <2>1
    <2>3. Len(Vertices(e)) = Len(points)
      BY <2>1, <2>2
    <2> QED
      BY <1>1, <1>4, <2>1, <2>2, <2>3 DEF TypedValue, PointNames, AngleNames
  <1>6. \A name \in DOMAIN more : TypedValue(name, more[name])
    BY DEF TypedValue, PointNames, AngleNames, IsClosed
  <1>7. /\ DOMAIN more \subseteq {"closed"}
        /\ "closed" \in DOMAIN e.dimensions => "closed" \in DOMAIN more
    OBVIOUS
  <1>8. TypedValue("vertex_count", Len(Vertices(e)))
    BY DEF TypedValue, PointNames, AngleNames
  <1> HIDE DEF more
  <1>9. DOMAIN Shape(e) = {"object_type", "closed", "vertices"}
    BY <1>2 DEF draw_polyline
  <1>10. /\ DOMAIN ShapeChecks(e) = {"vertices", "vertex_count"} \cup DOMAIN more
         /\ ShapeChecks(e)["vertices"] = Vertices(e)
         /\ ShapeChecks(e)["vertex_count"] = Len(Vertices(e))
         /\ \A name \in DOMAIN more : ShapeChecks(e)[name] = more[name]
    BY <1>3, <1>7 DEF Merged
  <1> QED
    BY <1>5, <1>6, <1>7, <1>8, <1>9, <1>10

\* The rows of a circle, which has one for its diameter as well.
LEMMA CircleFacts ==
    ASSUME NEW e, Ready(e), e.operation = "create", e.kind = "circle"
    PROVE  /\ \A name \in DOMAIN ShapeChecks(e) : TypedValue(name, ShapeChecks(e)[name])
           /\ DOMAIN Shape(e) \subseteq DOMAIN ShapeChecks(e) \cup {"object_type"}
           /\ {"radius", "diameter"} \subseteq DOMAIN ShapeChecks(e)
           /\ ShapeChecks(e).diameter = 2 * ShapeChecks(e).radius
  <1>1. IsXYZ(At(e, "center"))
    BY AtTyped DEF Ready, CanCreate, Indexed
  <1>2. Value(e, "radius") \in Int
    BY DEF Ready, Typed, CanCreate, Read, Indexed, Value
  <1>3. Shape(e) = draw_circle(e)
    BY DEF Shape
  <1>4. ShapeChecks(e) = [center |-> At(e, "center"), radius |-> Value(e, "radius"),
                          diameter |-> 2 * Value(e, "radius")]
    BY DEF ShapeChecks
  <1>5. DOMAIN Shape(e) = {"object_type", "center", "radius"}
    BY <1>3 DEF draw_circle
  <1>6. DOMAIN ShapeChecks(e) = {"center", "radius", "diameter"}
    BY <1>4
  <1>7. TypedValue("center", At(e, "center"))
    BY <1>1 DEF TypedValue, AngleNames
  <1>8. TypedValue("radius", Value(e, "radius"))
    BY <1>2 DEF TypedValue, PointNames, AngleNames
  <1>9. TypedValue("diameter", 2 * Value(e, "radius"))
    BY DEF TypedValue, PointNames, AngleNames
  <1> QED
    BY <1>4, <1>5, <1>6, <1>7, <1>8, <1>9

\* The rows of an arc.
LEMMA ArcFacts ==
    ASSUME NEW e, Ready(e), e.operation = "create", e.kind = "arc"
    PROVE  /\ \A name \in DOMAIN ShapeChecks(e) : TypedValue(name, ShapeChecks(e)[name])
           /\ DOMAIN Shape(e) \subseteq DOMAIN ShapeChecks(e) \cup {"object_type"}
  <1> DEFINE names == {"radius", "start_angle", "end_angle"}
  <1>1. IsXYZ(At(e, "center"))
    BY AtTyped DEF Ready, CanCreate, Indexed
  <1>2. names \subseteq DOMAIN e.dimensions /\ \A name \in names : Value(e, name) \in Int
    BY DEF Ready, Typed, CanCreate, Read, Indexed, Value
  <1>3. \A name \in AngleNames : Value(e, name) \in 0 .. 359
    <2>1. ENTITY_DIMENSION_SCHEMAS["arc"] =
            [radius |-> Needed("positive"), start_angle |-> Needed("angle"),
             end_angle |-> Needed("angle")]
      BY DEF ENTITY_DIMENSION_SCHEMAS
    <2>2. "arc" \in DOMAIN ENTITY_DIMENSION_SCHEMAS
      BY DEF ENTITY_DIMENSION_SCHEMAS
    <2>3. \A name \in AngleNames : FitsType(e.dimensions[name], "angle")
      BY <1>2, <2>1, <2>2 DEF Ready, DimensionsFit, Needed, AngleNames
    <2> QED
      BY <2>3 DEF FitsType, Value
  <1>4. Shape(e) = draw_arc(e)
    BY DEF Shape
  <1>5. ShapeChecks(e) = Merged([center |-> At(e, "center")], Optional(e, names))
    BY DEF ShapeChecks
  <1>6. Optional(e, names) = [name \in names |-> Value(e, name)]
    BY <1>2 DEF Optional
  <1>7. DOMAIN Shape(e) = {"object_type", "center", "radius", "start_angle", "end_angle"}
    BY <1>4 DEF draw_arc
  <1>8. /\ DOMAIN ShapeChecks(e) = {"center"} \cup names
        /\ ShapeChecks(e)["center"] = At(e, "center")
        /\ \A name \in names : ShapeChecks(e)[name] = Value(e, name)
    BY <1>5, <1>6 DEF Merged
  <1>9. TypedValue("center", At(e, "center"))
    BY <1>1 DEF TypedValue, AngleNames
  <1>10. TypedValue("radius", Value(e, "radius"))
    BY <1>2 DEF TypedValue, PointNames, AngleNames
  <1>11. \A name \in AngleNames : TypedValue(name, Value(e, name))
    BY <1>3 DEF TypedValue, PointNames, AngleNames
  <1> QED
    BY <1>7, <1>8, <1>9, <1>10, <1>11 DEF AngleNames

\* The four kinds of dimension, created or laid out.
LEMMA DimensionFacts ==
    ASSUME NEW e, Ready(e), e.kind \in DIMENSION_TYPES
    PROVE  /\ \A name \in DOMAIN DimensionChecks(e) : TypedValue(name, DimensionChecks(e)[name])
           /\ {"text_override", "background_fill"} \subseteq DOMAIN DimensionChecks(e)
           /\ "text_height" \in DOMAIN e.dimensions => "text_height" \in DOMAIN DimensionChecks(e)
           /\ "text_position" \in DOMAIN e.coordinates
                 => "text_position" \in DOMAIN DimensionChecks(e)
           /\ DOMAIN DefinitionChecks(e) \subseteq DOMAIN DimensionChecks(e)
  <1> DEFINE fixed == [text_override |-> e.text, background_fill |-> e.background_fill]
             measured == MeasurementCheck(e)
             points == DefinitionChecks(e)
             height == Optional(e, {"text_height"})
             place == [name \in {"text_position"} \cap DOMAIN e.coordinates |-> At(e, name)]
  <1>1. DimensionChecks(e) =
            Merged(fixed, Merged(measured, Merged(points, Merged(height, place))))
    BY DEF DimensionChecks
  <1>2. \A name \in DOMAIN fixed : TypedValue(name, fixed[name])
    <2>1. TypedValue("text_override", e.text)
      BY DEF TypedValue, PointNames, AngleNames
    <2>2. TypedValue("background_fill", e.background_fill)
      BY DEF Ready, Typed, TypedValue, PointNames, AngleNames
    <2> QED
      BY <2>1, <2>2
  <1>3. \A name \in DOMAIN measured : TypedValue(name, measured[name])
    <2>1. DOMAIN measured \subseteq {"measurement"}
      BY DEF MeasurementCheck
    <2> QED
      BY <2>1 DEF TypedValue, PointNames, AngleNames
  <1>4. \A name \in DOMAIN points : TypedValue(name, points[name])
    <2>1. CASE e.operation = "layout_only"
      <3>1. points = << >>
        BY <2>1 DEF DefinitionChecks
      <3> QED
        BY <3>1
    <2>2. CASE e.operation = "create"
      <3>1. \A name \in Indexed[e.kind] : name # "points" /\ IsXYZ(At(e, name))
        BY <2>2, AtTyped DEF Ready, CanCreate, Indexed, DIMENSION_TYPES
      <3>2. CASE e.kind \in {"aligned_dimension", "linear_dimension"}
        <4>1. points = [ext_line1_point |-> At(e, "start"), ext_line2_point |-> At(e, "end")]
          BY <2>2, <3>2 DEF DefinitionChecks
        <4>2. IsXYZ(At(e, "start")) /\ IsXYZ(At(e, "end"))
          BY <3>1, <3>2 DEF Indexed
        <4>3. /\ TypedValue("ext_line1_point", At(e, "start"))
              /\ TypedValue("ext_line2_point", At(e, "end"))
          BY <4>2 DEF TypedValue, AngleNames
        <4> QED
          BY <4>1, <4>3
      <3>3. CASE e.kind = "radial_dimension"
        <4>1. points = [name \in {"center", "chord_point"} |-> At(e, name)]
          BY <2>2, <3>3 DEF DefinitionChecks, Requirements
        <4>2. IsXYZ(At(e, "center")) /\ IsXYZ(At(e, "chord_point"))
          BY <3>1, <3>3 DEF Indexed
        <4> QED
          BY <4>1, <4>2 DEF TypedValue, AngleNames
      <3>4. CASE e.kind = "diametric_dimension"
        <4>1. points = [name \in {"chord_point", "far_chord_point"} |-> At(e, name)]
          BY <2>2, <3>4 DEF DefinitionChecks, Requirements
        <4>2. IsXYZ(At(e, "chord_point")) /\ IsXYZ(At(e, "far_chord_point"))
          BY <3>1, <3>4 DEF Indexed
        <4> QED
          BY <4>1, <4>2 DEF TypedValue, AngleNames
      <3> QED
        BY <3>2, <3>3, <3>4 DEF DIMENSION_TYPES
    <2> QED
      BY <2>1, <2>2 DEF Ready, Typed
  <1>5. \A name \in DOMAIN height : TypedValue(name, height[name])
    BY DEF Optional, Ready, Typed, Value, TypedValue, PointNames, AngleNames
  <1>6. \A name \in DOMAIN place : TypedValue(name, place[name])
    <2>1. "text_position" \in DOMAIN e.coordinates => IsXYZ(At(e, "text_position"))
      BY AtTyped DEF Ready, Typed, DimensionSafe, LayoutSound
    <2> QED
      BY <2>1 DEF TypedValue, AngleNames
  <1>7. "text_height" \in DOMAIN e.dimensions => "text_height" \in DOMAIN height
    BY DEF Optional
  <1>8. "text_position" \in DOMAIN e.coordinates => "text_position" \in DOMAIN place
    OBVIOUS
  <1>9. {"text_override", "background_fill"} = DOMAIN fixed
    OBVIOUS
  <1> HIDE DEF fixed, measured, points, height, place
  <1>10. \A name \in DOMAIN DimensionChecks(e) : TypedValue(name, DimensionChecks(e)[name])
    BY <1>1, <1>2, <1>3, <1>4, <1>5, <1>6 DEF Merged
  <1>11. DOMAIN DimensionChecks(e) =
            DOMAIN fixed \cup DOMAIN measured \cup DOMAIN points \cup DOMAIN height
            \cup DOMAIN place
    BY <1>1 DEF Merged
  <1> QED
    BY <1>7, <1>8, <1>9, <1>10, <1>11 DEF points

\* What a person may change, and the verifier compares.
Changeable == PointNames \cup AngleNames
    \cup {"vertices", "radius", "text_height", "closed", "background_fill", "layer", "linetype",
          "text_override", "text"}

\* The rows every entity has, and those of its shape beside them.
LEMMA CommonFacts ==
    ASSUME NEW e, Ready(e)
    PROVE  /\ DOMAIN Checks(e) = DOMAIN CommonChecks(e) \cup DOMAIN ShapeChecks(e)
           /\ {"layer", "linetype", "object_type"} \subseteq DOMAIN CommonChecks(e)
           /\ DOMAIN CommonChecks(e) \subseteq
                 {"layer", "linetype", "object_type", "effective_linetype"}
           /\ Checks(e)["layer"] = e.layer /\ Checks(e)["linetype"] = e.linetype
           /\ Checks(e)["object_type"] = ExpectedTypes(e.kind)
           /\ \A name \in DOMAIN ShapeChecks(e) \ DOMAIN CommonChecks(e) :
                 Checks(e)[name] = ShapeChecks(e)[name]
           /\ \A name \in DOMAIN CommonChecks(e) : TypedValue(name, Checks(e)[name])
  <1> DEFINE common == CommonChecks(e)
             shape == ShapeChecks(e)
  <1>1. /\ DOMAIN common \subseteq {"layer", "linetype", "object_type", "effective_linetype"}
        /\ {"layer", "linetype", "object_type"} \subseteq DOMAIN common
        /\ common["layer"] = e.layer /\ common["linetype"] = e.linetype
        /\ common["object_type"] = ExpectedTypes(e.kind)
    BY DEF CommonChecks, Merged
  <1>2. Checks(e) = Merged(common, shape)
    BY DEF Checks
  <1> HIDE DEF common, shape
  <1>3. /\ DOMAIN Checks(e) = DOMAIN common \cup DOMAIN shape
        /\ \A name \in DOMAIN common : Checks(e)[name] = common[name]
        /\ \A name \in DOMAIN shape \ DOMAIN common : Checks(e)[name] = shape[name]
    BY <1>2 DEF Merged
  <1>4. \A name \in DOMAIN common : TypedValue(name, Checks(e)[name])
    BY <1>1 DEF TypedValue, PointNames, AngleNames
  <1> QED
    BY <1>1, <1>3, <1>4 DEF common, shape

\* The target of every row is well typed.
LEMMA ChecksTyped ==
    ASSUME NEW e, Ready(e), NEW name \in DOMAIN Checks(e)
    PROVE  TypedValue(name, Checks(e)[name])
  <1>1. CASE name \in DOMAIN CommonChecks(e)
    BY <1>1, CommonFacts
  <1>2. CASE name \notin DOMAIN CommonChecks(e)
    <2>1. name \in DOMAIN ShapeChecks(e) /\ Checks(e)[name] = ShapeChecks(e)[name]
      BY <1>2, CommonFacts
    <2>2. CASE e.kind \in DIMENSION_TYPES
      <3>1. ShapeChecks(e) = DimensionChecks(e)
        BY <2>2 DEF ShapeChecks, DIMENSION_TYPES
      <3> QED
        BY <2>1, <2>2, <3>1, DimensionFacts
    <2>3. CASE e.kind \notin DIMENSION_TYPES
      <3>1. e.operation = "create"
        BY <2>3 DEF Ready, Typed, LayoutSound
      <3>2. e.kind \in {"line", "text", "rectangle", "polyline", "circle", "arc"}
        BY <2>3, <3>1 DEF Ready, CanCreate, Indexed, DIMENSION_TYPES
      <3> QED
        BY <2>1, <3>1, <3>2, LineFacts, TextFacts, RectangleFacts, PolylineFacts, CircleFacts,
           ArcFacts
    <2> QED
      BY <2>2, <2>3
  <1> QED
    BY <1>1, <1>2

\* Every property of a created object is compared or listed as unchecked.
LEMMA ShapeCovered ==
    ASSUME NEW e, Ready(e), e.operation = "create", NEW name \in DOMAIN Shape(e) \cap Changeable
    PROVE  name \in DOMAIN Checks(e) \cup Unchecked(e)
  <1>1. DOMAIN ShapeChecks(e) \subseteq DOMAIN Checks(e)
    BY CommonFacts
  <1>2. name \notin {"object_type", "rotation"}
    BY DEF Changeable, PointNames, AngleNames
  <1>3. CASE e.kind \in DIMENSION_TYPES
    <2>1. ShapeChecks(e) = DimensionChecks(e)
      BY <1>3 DEF ShapeChecks, DIMENSION_TYPES
    <2>2. DOMAIN DimensionStyle(e) =
             {"text_override", "background_fill", "text_height", "text_position"}
      BY DEF DimensionStyle
    <2>3. DOMAIN Shape(e) \subseteq
             DOMAIN DefinitionChecks(e) \cup {"object_type"} \cup DOMAIN DimensionStyle(e)
      <3>1. CASE e.kind \in {"aligned_dimension", "linear_dimension"}
        <4>1. Shape(e) = Merged(add_dimension(e), DimensionStyle(e))
          BY <3>1 DEF Shape
        <4>2. DOMAIN Shape(e) = DOMAIN add_dimension(e) \cup DOMAIN DimensionStyle(e)
          BY <4>1 DEF Merged
        <4>3. DOMAIN DefinitionChecks(e) = {"ext_line1_point", "ext_line2_point"}
          BY <3>1 DEF DefinitionChecks
        <4>4. DOMAIN add_dimension(e) = {"object_type", "ext_line1_point", "ext_line2_point"}
          BY DEF add_dimension
        <4> QED
          BY <4>2, <4>3, <4>4
      <3>2. CASE e.kind \in {"radial_dimension", "diametric_dimension"}
        <4>1. Shape(e) = Merged(native_dimension(e), DimensionStyle(e))
          BY <3>2 DEF Shape
        <4>2. DOMAIN Shape(e) = DOMAIN native_dimension(e) \cup DOMAIN DimensionStyle(e)
          BY <4>1 DEF Merged
        <4>3. DOMAIN DefinitionChecks(e) = Requirements[e.kind]
          BY <3>2 DEF DefinitionChecks
        <4>4. DOMAIN native_dimension(e) = Indexed[e.kind] \cup {"object_type"}
          BY DEF native_dimension, Merged
        <4>5. Indexed[e.kind] = Requirements[e.kind]
          BY <3>2 DEF Indexed, Requirements
        <4> QED
          BY <4>2, <4>3, <4>4, <4>5
      <3> QED
        BY <1>3, <3>1, <3>2 DEF DIMENSION_TYPES
    <2>4. e.kind # "text"
      BY <1>3 DEF DIMENSION_TYPES
    <2>5. /\ "text_height" \in DOMAIN DimensionChecks(e) \/ "text_height" \in Unchecked(e)
          /\ "text_position" \in DOMAIN DimensionChecks(e) \/ "text_position" \in Unchecked(e)
      BY <1>3, <2>4, DimensionFacts DEF Unchecked
    <2> QED
      BY <1>1, <1>2, <1>3, <2>1, <2>2, <2>3, <2>5, DimensionFacts
  <1>4. CASE e.kind = "polyline"
    <2>1. "closed" \in DOMAIN ShapeChecks(e) \/ "closed" \in Unchecked(e)
      BY <1>4, PolylineFacts DEF Unchecked
    <2> QED
      BY <1>1, <1>2, <1>4, <2>1, PolylineFacts
  <1>5. CASE e.kind \in {"line", "text", "rectangle", "circle", "arc"}
    BY <1>1, <1>2, <1>5, LineFacts, TextFacts, RectangleFacts, CircleFacts, ArcFacts
  <1> QED
    BY <1>3, <1>4, <1>5 DEF Ready, CanCreate, Indexed, DIMENSION_TYPES

-----------------------------------------------------------------------------
(* A change of more than the tolerance is a row that fails.                *)

\* A point that was moved by more than the tolerance is not close.
LEMMA MovedPoint ==
    ASSUME NEW v, IsXYZ(v), NEW d \in Int, Abs(d) > Tolerance, NEW value \in Shifted(v, d)
    PROVE  ~ClosePoints(v, value)
  <1>1. PICK i \in 1 .. 3 : value = [v EXCEPT ![i] = @ + d]
    BY DEF Shifted
  <1>2. value[i] = v[i] + d /\ v[i] \in Int
    BY <1>1 DEF IsXYZ
  <1>3. Abs(v[i] - value[i]) > Tolerance
    BY <1>2, ToleranceAssumption DEF Abs
  <1> QED
    BY <1>2, <1>3, ToleranceAssumption DEF ClosePoints, Abs

\* Nor are vertices, one or all of which were.
LEMMA MovedVertices ==
    ASSUME NEW v, TypedValue("vertices", v), NEW d \in Int, Abs(d) > Tolerance,
           NEW value \in ShiftedVertices(v, d)
    PROVE  \E k \in 1 .. Len(v) : ~ClosePoints(v[k], value[k])
  <1>1. /\ Len(v) \in Nat \ {0} /\ DOMAIN v = 1 .. Len(v)
        /\ \A i \in 1 .. Len(v) : IsXYZ(v[i])
    BY DEF TypedValue
  <1>2. CASE \E k \in 1 .. Len(v), i \in {1, 2} : value = [v EXCEPT ![k][i] = @ + d]
    <2>1. PICK k \in 1 .. Len(v), i \in {1, 2} : value = [v EXCEPT ![k][i] = @ + d]
      BY <1>2
    <2>2. value[k] = [v[k] EXCEPT ![i] = @ + d]
      BY <1>1, <2>1
    <2>3. value[k] \in Shifted(v[k], d)
      BY <2>2 DEF Shifted
    <2> QED
      BY <1>1, <2>3, MovedPoint
  <1>3. CASE value = [k \in 1 .. Len(v) |-> [v[k] EXCEPT ![3] = @ + d]]
    <2>1. 1 \in 1 .. Len(v)
      BY <1>1
    <2>2. value[1] \in Shifted(v[1], d)
      BY <1>3, <2>1 DEF Shifted
    <2> QED
      BY <1>1, <2>1, <2>2, MovedPoint
  <1> QED
    BY <1>2, <1>3 DEF ShiftedVertices

\* Nor is an angle, unless every angle is within the tolerance.
LEMMA MovedAngle ==
    ASSUME NEW v \in 0 .. 359, NEW d \in -180 .. 180, Tolerance < 180, Abs(d) > Tolerance
    PROVE  ~(AngleError(v, (v + d) % 360) <= Tolerance)
  <1> DEFINE moved == (v + d) % 360
  <1>1. \A k \in -180 .. 539 :
           k % 360 = IF k < 0 THEN k + 360 ELSE IF k < 360 THEN k ELSE k - 360
    OBVIOUS
  <1>2. v + d \in -180 .. 539
    OBVIOUS
  <1>3. moved \in {v + d, v + d + 360, v + d - 360}
    BY <1>1, <1>2
  <1>4. (moved - v + 180) % 360 = (d + 180) % 360
    <2>1. \A k \in 0 .. 360 : (k + 360) % 360 = k % 360 /\ (k - 360) % 360 = k % 360
      OBVIOUS
    <2>2. d + 180 \in 0 .. 360 /\ moved - v + 180 \in {d + 180, d + 180 + 360, d + 180 - 360}
      BY <1>3
    <2> HIDE DEF moved
    <2> QED
      BY <2>1, <2>2
  <1>5. (d + 180) % 360 = IF d = 180 THEN 0 ELSE d + 180
    OBVIOUS
  <1> QED
    BY <1>4, <1>5, ToleranceAssumption DEF AngleError, Abs

\* A property that was moved by more than the tolerance fails its row.
LEMMA MovedFails ==
    ASSUME NEW name, NEW v, TypedValue(name, v),
           NEW d \in -(Tolerance + 1) .. Tolerance + 1, Abs(d) > Tolerance,
           name \in AngleNames => Tolerance < 180,
           name # "rotation", NEW value \in Moved(name, v, d)
    PROVE  name \in Changeable /\ ~Passes(name, v, value)
  <1>1. d \in Int
    BY ToleranceAssumption
  <1>2. CASE name \in PointNames
    <2>1. value \in Shifted(v, d)
      BY <1>2 DEF Moved, PointNames, AngleNames
    <2>2. IsXYZ(v)
      BY <1>2 DEF TypedValue
    <2>3. Passes(name, v, value) = ClosePoints(v, value)
      BY <1>2 DEF Passes, PointNames, AngleNames, RootNames, NumberNames, SetNames
    <2> QED
      BY <1>1, <1>2, <2>1, <2>2, <2>3, MovedPoint DEF Changeable
  <1>3. CASE name = "vertices"
    <2>1. value \in ShiftedVertices(v, d)
      BY <1>3 DEF Moved, PointNames, AngleNames
    <2>2. \E k \in 1 .. Len(v) : ~ClosePoints(v[k], value[k])
      BY <1>1, <1>3, <2>1, MovedVertices
    <2> QED
      BY <1>3, <2>2 DEF Changeable, Passes, PointNames, AngleNames, RootNames, NumberNames, SetNames
  <1>4. CASE name \in AngleNames
    <2>1. value = (v + d) % 360 /\ v \in 0 .. 359
      BY <1>4 DEF Moved, TypedValue, PointNames, AngleNames
    <2>2. d \in -180 .. 180
      BY <1>4, ToleranceAssumption
    <2>3. ~(AngleError(v, value) <= Tolerance)
      BY <1>4, <2>1, <2>2, MovedAngle
    <2>4. Passes(name, v, value) = (AngleError(v, value) <= Tolerance)
      BY <1>4 DEF Passes, PointNames, AngleNames, RootNames, NumberNames, SetNames
    <2> QED
      BY <1>4, <2>3, <2>4 DEF Changeable
  <1>5. CASE name \in {"radius", "text_height"}
    <2>1. value = v + d /\ v \in Int
      BY <1>5 DEF Moved, TypedValue, PointNames, AngleNames
    <2>2. Passes(name, v, value) = (Abs(v - value) <= Tolerance)
      BY <1>5 DEF Passes, PointNames, AngleNames, RootNames, NumberNames, SetNames
    <2>3. Abs(v - value) > Tolerance
      BY <1>1, <2>1, ToleranceAssumption DEF Abs
    <2>4. ~(Abs(v - value) <= Tolerance)
      BY <1>1, <2>1, <2>3, ToleranceAssumption DEF Abs
    <2>5. name \in Changeable
      BY <1>5 DEF Changeable
    <2> QED
      BY <2>2, <2>4, <2>5
  <1> QED
    BY <1>2, <1>3, <1>4, <1>5 DEF Moved

\* The diameter moves by twice as much as the radius.
LEMMA MovedRadius ==
    ASSUME NEW v \in Int, NEW d \in Int, 2 * Abs(d) > Tolerance
    PROVE  ~Passes("diameter", 2 * v, 2 * (v + d))
  <1>1. Passes("diameter", 2 * v, 2 * (v + d)) = (Abs(2 * v - 2 * (v + d)) <= Tolerance)
    BY DEF Passes, PointNames, AngleNames, RootNames, NumberNames, SetNames
  <1>2. Abs(2 * v - 2 * (v + d)) = 2 * Abs(d) /\ Abs(d) \in Int
    BY DEF Abs
  <1>3. ~(2 * Abs(d) <= Tolerance)
    BY <1>2, ToleranceAssumption
  <1> QED
    BY <1>1, <1>2, <1>3

\* A polyline that lost its first vertex has fewer.
LEMMA TailIsShorter ==
    ASSUME NEW v, NEW n \in Nat \ {0}, Len(v) = n, DOMAIN v = 1 .. n
    PROVE  Len(Tail(v)) # Len(v)
  OBVIOUS

\* A property that was replaced by another value fails its row.
LEMMA ReplacedFails ==
    ASSUME NEW name, NEW v, TypedValue(name, v), NEW value \in Replaced(name, v), value # v
    PROVE  name \in Changeable /\ ~Passes(name, v, value)
  <1>1. CASE name = "vertices"
    <2>1. value = Tail(v)
      BY <1>1 DEF Replaced
    <2>2. Len(v) \in Nat \ {0} /\ DOMAIN v = 1 .. Len(v)
      BY <1>1 DEF TypedValue
    <2>3. Len(Tail(v)) # Len(v)
      BY <2>2, TailIsShorter
    <2> QED
      BY <1>1, <2>1, <2>3
      DEF Changeable, Passes, PointNames, AngleNames, RootNames, NumberNames, SetNames
  <1>2. CASE name = "text"
    <2>1. value = "other"
      BY <1>2 DEF Replaced
    <2>2. Lower(v) # Lower("other")
      BY <2>1 DEF Lower
    <2> QED
      BY <1>2, <2>1, <2>2
      DEF Changeable, Passes, PointNames, AngleNames, RootNames, NumberNames, SetNames
  <1>3. CASE name \in {"closed", "background_fill", "layer", "linetype", "text_override"}
    <2>1. Passes(name, v, value) = (v = value)
      BY <1>3 DEF Passes, PointNames, AngleNames, RootNames, NumberNames, SetNames
    <2> QED
      BY <1>3, <2>1 DEF Changeable
  <1> QED
    BY <1>1, <1>2, <1>3 DEF Replaced

-----------------------------------------------------------------------------
(* The object, from drawing to verification.                               *)

Drawn == pc \in {"drawn", "passed", "failed"}

\* Every property a person may change is compared, or listed as unchecked.
AllCovered ==
    \A name \in DOMAIN object \cap Changeable :
        name \in DOMAIN Checks(entity) \cup Unchecked(entity)

\* The row that fails because of the damage: of the property itself, or of the
\* diameter that is computed from it.
Broken ==
    /\ damage \in DOMAIN object \cap Changeable \cap DOMAIN Checks(entity)
    /\ \/ ~Passes(damage, Checks(entity)[damage], object[damage])
       \/ /\ damage = "radius" /\ object.object_type = "AcDbCircle"
          /\ "diameter" \in DOMAIN Checks(entity)
          /\ ~Passes("diameter", Checks(entity)["diameter"], 2 * object.radius)

DrawnObject ==
    /\ Ready(entity)
    /\ AllCovered
    /\ object.object_type = "AcDbCircle" => entity.kind = "circle"
    /\ "diameter" \notin DOMAIN object
    /\ damage \in Unchecked(entity) \/ Broken
    /\ pc = "passed" => Verified(entity, Observed(object, {unread}, linetype))

DamageInv ==
    /\ plan \in Plans
    /\ pc = "accepted" => Accepted(plan)
    /\ pc \in {"planned", "accepted"} => damage = "none"
    /\ Drawn => DrawnObject

\* What was accepted and can be executed is ready to be drawn.
LEMMA AcceptedReady ==
    ASSUME plan \in Plans, Accepted(plan), Executable(entity)
    PROVE  Ready(entity)
  <1>1. entity.operation \in {"create", "layout_only"}
    BY DEF Executable
  <1>2. Typed(entity)
    BY <1>1, PlanAssumption DEF Typed, entity
  <1> QED
    BY <1>2 DEF Ready, Accepted, Executable, entity

\* What is known of a created object.
LEMMA CreatedFacts ==
    ASSUME NEW e, Ready(e), e.operation = "create", NEW layer
    PROVE  /\ DOMAIN Created(e, layer) = {"layer", "linetype"} \cup DOMAIN Shape(e)
           /\ Created(e, layer).object_type = "AcDbCircle" => e.kind = "circle"
           /\ "diameter" \notin DOMAIN Created(e, layer)
  <1>1. DOMAIN Created(e, layer) = {"layer", "linetype"} \cup DOMAIN Shape(e)
    BY DEF Created, Merged
  <1>2. "object_type" \in DOMAIN Shape(e)
           => Created(e, layer).object_type = Shape(e).object_type
    BY DEF Created, Merged
  <1>3. /\ "object_type" \in DOMAIN Shape(e)
        /\ Shape(e).object_type = "AcDbCircle" => e.kind = "circle"
        /\ "diameter" \notin DOMAIN Shape(e)
    <2>1. CASE e.kind \in {"line", "text", "rectangle", "polyline", "circle", "arc"}
      BY <2>1 DEF Shape, draw_line, draw_text, draw_polyline, draw_circle, draw_arc
    <2>2. CASE e.kind \in {"aligned_dimension", "linear_dimension"}
      <3>1. Shape(e) = Merged(add_dimension(e), DimensionStyle(e))
        BY <2>2 DEF Shape
      <3> QED
        BY <3>1 DEF Merged, add_dimension, DimensionStyle
    <2>3. CASE e.kind \in {"radial_dimension", "diametric_dimension"}
      <3>1. Shape(e) = Merged(native_dimension(e), DimensionStyle(e))
        BY <2>3 DEF Shape
      <3>2. "object_type" \notin Indexed[e.kind] /\ "diameter" \notin Indexed[e.kind]
        BY <2>3 DEF Indexed
      <3>3. /\ DOMAIN native_dimension(e) = Indexed[e.kind] \cup {"object_type"}
            /\ native_dimension(e).object_type \in {"AcDbRadialDimension", "AcDbDiametricDimension"}
        BY <3>2 DEF native_dimension, Merged
      <3>4. "diameter" \notin DOMAIN DimensionStyle(e)
        BY DEF DimensionStyle
      <3> QED
        BY <3>1, <3>2, <3>3, <3>4 DEF Merged
    <2> QED
      BY <2>1, <2>2, <2>3 DEF Ready, CanCreate, Indexed
  <1> QED
    BY <1>1, <1>2, <1>3

\* Drawing leaves an object with every property covered.
LEMMA CreateDraws ==
    ASSUME DamageInv, Create
    PROVE  DamageInv'
  <1>1. PICK layer : object' = Created(entity, layer)
    BY DEF Create
  <1>2. /\ plan' = plan /\ entity' = entity /\ damage' = damage /\ pc' = "drawn"
        /\ entity.operation = "create" /\ Ready(entity) /\ damage = "none"
    BY AcceptedReady DEF Create, DamageInv, entity
  <1>3. \A name \in DOMAIN object' \cap Changeable :
           name \in DOMAIN Checks(entity) \cup Unchecked(entity)
    <2>1. {"layer", "linetype"} \subseteq DOMAIN Checks(entity)
      <3>1. DOMAIN Checks(entity) = DOMAIN CommonChecks(entity) \cup DOMAIN ShapeChecks(entity)
        BY <1>2, CommonFacts
      <3>2. {"layer", "linetype", "object_type"} \subseteq DOMAIN CommonChecks(entity)
        BY <1>2, CommonFacts
      <3> QED
        BY <3>1, <3>2
    <2> QED
      BY <1>1, <1>2, <2>1, CreatedFacts, ShapeCovered
  <1>4. damage' \in Unchecked(entity)
    BY <1>2 DEF Unchecked
  <1>5. Unchecked(entity)' = Unchecked(entity) /\ (DOMAIN Checks(entity))' = DOMAIN Checks(entity)
    BY <1>2
  <1>6. DrawnObject'
    BY <1>1, <1>2, <1>3, <1>4, <1>5, CreatedFacts DEF DrawnObject, AllCovered
  <1> QED
    BY <1>2, <1>6 DEF DamageInv

\* So does laying out a dimension of the user's.
LEMMA LayoutDraws ==
    ASSUME DamageInv, Layout
    PROVE  DamageInv'
  <1>1. PICK dimension \in Dimensions :
           object' = [dimension EXCEPT !.text_position = At(entity, "text_position")]
    BY DEF Layout
  <1>2. /\ plan' = plan /\ entity' = entity /\ damage' = damage /\ pc' = "drawn"
        /\ entity.operation = "layout_only" /\ Ready(entity) /\ damage = "none"
    BY AcceptedReady DEF Layout, DamageInv, entity
  <1>3. /\ DOMAIN object' = DimensionNames \cup DefinitionPoints[dimension.object_type]
        /\ dimension.object_type \in DOMAIN DefinitionPoints
        /\ object'.object_type = dimension.object_type
    BY <1>1, DimensionAssumption DEF DimensionNames
  <1>4. DefinitionPoints[dimension.object_type] \subseteq
           {"ext_line1_point", "ext_line2_point", "center", "chord_point", "far_chord_point"}
    BY <1>3 DEF DefinitionPoints
  <1>5. dimension.object_type # "AcDbCircle"
    BY <1>3 DEF DefinitionPoints
  <1>6. entity.kind \in DIMENSION_TYPES /\ "text_position" \in DOMAIN entity.coordinates
    BY <1>2 DEF Ready, LayoutSound, Has
  <1>7. \A name \in DOMAIN object' \cap Changeable :
           name \in DOMAIN Checks(entity) \cup Unchecked(entity)
    <2>1. /\ {"layer", "linetype", "object_type"} \subseteq DOMAIN Checks(entity)
          /\ DOMAIN ShapeChecks(entity) \subseteq DOMAIN Checks(entity)
      BY <1>2, CommonFacts
    <2>2. ShapeChecks(entity) = DimensionChecks(entity)
      BY <1>6 DEF ShapeChecks, DIMENSION_TYPES
    <2>3. {"text_override", "background_fill", "text_position"} \subseteq DOMAIN Checks(entity)
      BY <1>2, <1>6, <2>1, <2>2, DimensionFacts
    <2>4. "text_height" \in DOMAIN Checks(entity) \cup Unchecked(entity)
      BY <1>2, <1>6, <2>1, <2>2, DimensionFacts DEF Unchecked, DIMENSION_TYPES
    <2>5. DefinitionPoints[dimension.object_type] \subseteq Unchecked(entity)
      BY <1>2, <1>4 DEF Unchecked
    <2> QED
      BY <1>3, <2>1, <2>3, <2>4, <2>5 DEF DimensionNames
  <1>8. damage' \in Unchecked(entity)
    BY <1>2 DEF Unchecked
  <1>9. "diameter" \notin DOMAIN object'
    BY <1>3, <1>4 DEF DimensionNames
  <1>10. Unchecked(entity)' = Unchecked(entity) /\ (DOMAIN Checks(entity))' = DOMAIN Checks(entity)
    BY <1>2
  <1>11. DrawnObject'
    BY <1>2, <1>3, <1>5, <1>7, <1>8, <1>9, <1>10 DEF DrawnObject, AllCovered
  <1> QED
    BY <1>2, <1>11 DEF DamageInv

\* A change of a property leaves it damaged, or is one the verifier does not look at.
LEMMA AlterBreaks ==
    ASSUME DamageInv, pc = "drawn", pc' = pc, damage = "none", UNCHANGED <<plan, linetype>>,
           NEW name \in DOMAIN object, name # "object_type", NEW value, NEW kind,
           Alter(name, value, kind),
           kind \in {"slight", "case"}
           \/ /\ kind = name
              /\ name \in Unchecked(entity) \/ name \in Changeable
              /\ name \in DOMAIN Checks(entity) /\ object[name] = Checks(entity)[name]
                    /\ name \notin Unchecked(entity)
                 => \/ ~Passes(name, Checks(entity)[name], value)
                    \/ /\ name = "radius" /\ object.object_type = "AcDbCircle"
                       /\ "diameter" \in DOMAIN Checks(entity)
                       /\ ~Passes("diameter", Checks(entity)["diameter"], 2 * value)
    PROVE  DamageInv'
  <1>1. DrawnObject
    BY DEF DamageInv, Drawn
  <1>2. /\ DOMAIN object' = DOMAIN object /\ object'[name] = value
        /\ object'.object_type = object.object_type
    BY DEF Alter
  <1>3. entity' = entity /\ plan' = plan
    BY DEF entity
  <1>4. Unchecked(entity)' = Unchecked(entity) /\ Checks(entity)' = Checks(entity)
    BY <1>3
  <1>5. damage' \in Unchecked(entity) \/ Broken'
    <2>1. CASE kind \in {"slight", "case"} \/ ~AsPlanned(name)
      <3>1. damage' \in {"slight", "case", "unplanned"}
        BY <2>1 DEF Alter
      <3> QED
        BY <3>1 DEF Unchecked
    <2>2. CASE kind \notin {"slight", "case"} /\ AsPlanned(name) /\ name \notin Unchecked(entity)
      <3>1. kind = name /\ name \in Changeable /\ damage' = name
        BY <2>2 DEF Alter
      <3>2. name \in DOMAIN Checks(entity)
        BY <1>1, <2>2, <3>1 DEF DrawnObject, AllCovered
      <3>3. object[name] = Checks(entity)[name]
        BY <2>2, <3>2 DEF AsPlanned
      <3> QED
        BY <1>2, <1>4, <2>2, <3>1, <3>2, <3>3 DEF Broken
    <2>3. CASE name \in Unchecked(entity)
      BY <2>1, <2>3 DEF Alter
    <2> QED
      BY <2>1, <2>2, <2>3
  <1>6. DrawnObject'
    BY <1>1, <1>2, <1>3, <1>4, <1>5 DEF DrawnObject, AllCovered
  <1> QED
    BY <1>3, <1>6 DEF DamageInv

\* Every edit is such a change.
LEMMA EditBreaks ==
    ASSUME DamageInv, Edit
    PROVE  DamageInv'
  <1>1. /\ pc = "drawn" /\ pc' = pc /\ damage = "none" /\ UNCHANGED <<plan, linetype>>
        /\ DrawnObject
    BY DEF Edit, DamageInv, Drawn
  <1>2. PICK name \in DOMAIN object :
          \/ \E d \in (-(Tolerance + 1) .. Tolerance + 1) \ {0} :
                \E value \in Moved(name, object[name], d) :
                   Alter(name, value, IF Slight(name, d) THEN "slight" ELSE name)
          \/ \E value \in Replaced(name, object[name]) : Alter(name, value, name)
          \/ name = "text" /\ Alter(name, Lower(object.text), "case")
    BY DEF Edit
  <1>3. Ready(entity)
    BY <1>1 DEF DrawnObject
  <1>4. ASSUME NEW d \in (-(Tolerance + 1) .. Tolerance + 1) \ {0},
               NEW value \in Moved(name, object[name], d),
               Alter(name, value, IF Slight(name, d) THEN "slight" ELSE name)
        PROVE  DamageInv'
    <2>1. name # "object_type"
      BY <1>4 DEF Moved, PointNames, AngleNames
    <2>2. CASE Slight(name, d)
      BY <1>1, <1>4, <2>1, <2>2, AlterBreaks
    <2>3. CASE ~Slight(name, d)
      <3>1. name \in Unchecked(entity) \/ name \in Changeable
        BY <1>4 DEF Moved, Unchecked, Changeable
      <3>2. ASSUME name \in DOMAIN Checks(entity), object[name] = Checks(entity)[name],
                   name \notin Unchecked(entity)
            PROVE  \/ ~Passes(name, Checks(entity)[name], value)
                   \/ /\ name = "radius" /\ object.object_type = "AcDbCircle"
                      /\ "diameter" \in DOMAIN Checks(entity)
                      /\ ~Passes("diameter", Checks(entity)["diameter"], 2 * value)
        <4>1. TypedValue(name, object[name])
          BY <1>3, <3>2, ChecksTyped
        <4>2. name # "rotation" /\ (name \in AngleNames => Tolerance < 180)
          BY <3>2, ToleranceAssumption DEF Unchecked
        <4>3. CASE object.object_type = "AcDbCircle" /\ name = "radius"
          <5>1. entity.kind = "circle" /\ entity.operation = "create"
            BY <1>1, <4>3 DEF DrawnObject, Ready, Typed, LayoutSound, DIMENSION_TYPES
          <5>2. /\ {"radius", "diameter"} \subseteq DOMAIN ShapeChecks(entity)
                /\ ShapeChecks(entity).diameter = 2 * ShapeChecks(entity).radius
            BY <1>3, <5>1, CircleFacts
          <5>3. /\ "diameter" \in DOMAIN Checks(entity)
                /\ Checks(entity)["diameter"] = 2 * Checks(entity)["radius"]
            <6>1. {"radius", "diameter"} \subseteq
                     DOMAIN ShapeChecks(entity) \ DOMAIN CommonChecks(entity)
              BY <1>3, <5>2, CommonFacts
            <6> QED
              BY <1>3, <5>2, <6>1, CommonFacts
          <5>4. value = object.radius + d /\ object.radius \in Int
            BY <1>4, <4>1, <4>3 DEF Moved, TypedValue, PointNames, AngleNames
          <5>5. 2 * Abs(d) > Tolerance /\ d \in Int
            BY <2>3, <4>3, ToleranceAssumption DEF Slight, Abs
          <5> QED
            BY <3>2, <4>3, <5>3, <5>4, <5>5, MovedRadius
        <4>4. CASE ~(object.object_type = "AcDbCircle" /\ name = "radius")
          <5>1. Abs(d) > Tolerance
            BY <2>3, <4>4, ToleranceAssumption DEF Slight, Abs
          <5> QED
            BY <1>4, <3>2, <4>1, <4>2, <5>1, MovedFails
        <4> QED
          BY <4>3, <4>4
      <3> QED
        BY <1>1, <1>4, <2>1, <2>3, <3>1, <3>2, AlterBreaks
    <2> QED
      BY <2>2, <2>3
  <1>5. ASSUME NEW value \in Replaced(name, object[name]), Alter(name, value, name)
        PROVE  DamageInv'
    <2>1. name # "object_type" /\ name \in Changeable
      BY <1>5 DEF Replaced, Changeable
    <2>2. name \in DOMAIN Checks(entity) /\ object[name] = Checks(entity)[name]
             => ~Passes(name, Checks(entity)[name], value)
      <3>1. value # object[name]
        BY <1>5 DEF Alter
      <3> QED
        BY <1>3, <1>5, <3>1, ChecksTyped, ReplacedFails
    <2> QED
      BY <1>1, <1>5, <2>1, <2>2, AlterBreaks
  <1>6. CASE name = "text" /\ Alter(name, Lower(object.text), "case")
    BY <1>1, <1>6, AlterBreaks
  <1> QED
    BY <1>2, <1>4, <1>5, <1>6

\* What is read is what is there, but for the one property that cannot be read.
LEMMA ObservedIsThere ==
    ASSUME NEW o, NEW lost, NEW lt, NEW name \in DOMAIN o \cap Changeable,
           name \in DOMAIN Observed(o, {lost}, lt)
    PROVE  \/ name # lost /\ Observed(o, {lost}, lt)[name] = o[name]
           \/ name = lost /\ name = "background_fill"
  <1> DEFINE native == WithoutProperties(Native(o), {lost})
  <1>1. /\ DOMAIN o \subseteq DOMAIN Native(o)
        /\ \A n \in DOMAIN o : Native(o)[n] = o[n]
    BY DEF Native, Merged
  <1>2. /\ DOMAIN native = DOMAIN Native(o) \ {lost}
        /\ \A n \in DOMAIN native : native[n] = Native(o)[n]
    BY DEF WithoutProperties
  <1> HIDE DEF native
  <1>3. DOMAIN Derived(native, lt) \subseteq
           {"diameter", "vertex_count", "width", "height", "effective_linetype"}
    BY DEF Derived
  <1>4. Observed(o, {lost}, lt) =
           Merged(native, Merged(Derived(native, lt), [background_fill |-> FALSE]))
    BY DEF Observed, native
  <1>5. /\ DOMAIN Observed(o, {lost}, lt)
              = DOMAIN native \cup DOMAIN Derived(native, lt) \cup {"background_fill"}
        /\ \A n \in DOMAIN native : Observed(o, {lost}, lt)[n] = native[n]
    BY <1>4 DEF Merged
  <1>6. name \notin DOMAIN Derived(native, lt)
    BY <1>3 DEF Changeable, PointNames, AngleNames
  <1> QED
    BY <1>1, <1>2, <1>5, <1>6

\* The diameter of a circle is computed from the radius that was read.
LEMMA DiameterIsTwice ==
    ASSUME NEW o, NEW lost, NEW lt, "radius" \in DOMAIN o, lost # "radius",
           "diameter" \notin DOMAIN o
    PROVE  Observed(o, {lost}, lt)["diameter"] = 2 * o.radius
  <1> DEFINE native == WithoutProperties(Native(o), {lost})
  <1>1. /\ DOMAIN o \subseteq DOMAIN Native(o)
        /\ DOMAIN Native(o) \subseteq DOMAIN o \cup {"length", "measurement"}
        /\ \A n \in DOMAIN o : Native(o)[n] = o[n]
    BY DEF Native, Merged
  <1>2. "radius" \in DOMAIN native /\ native.radius = o.radius /\ "diameter" \notin DOMAIN native
    BY <1>1 DEF WithoutProperties
  <1> HIDE DEF native
  <1>3. /\ "diameter" \in DOMAIN Derived(native, lt)
        /\ Derived(native, lt)["diameter"] = 2 * native.radius
    BY <1>2 DEF Derived
  <1>4. Observed(o, {lost}, lt) =
           Merged(native, Merged(Derived(native, lt), [background_fill |-> FALSE]))
    BY DEF Observed, native
  <1> HIDE DEF Observed
  <1> QED
    BY <1>2, <1>3, <1>4 DEF Merged

\* A verification that passes has found the damage, or could not.
THEOREM DamageFound == PlanSpec => []DamageIsFound
  <1>1. PlanInit => DamageInv
    BY DEF PlanInit, DamageInv, Drawn
  <1>2. DamageInv /\ [PlanNext]_planVars => DamageInv'
    <2> SUFFICES ASSUME DamageInv, [PlanNext]_planVars
                 PROVE  DamageInv'
      OBVIOUS
    <2>1. CASE Validate
      BY <2>1 DEF Validate, DamageInv, Drawn
    <2>2. CASE Create
      BY <2>2, CreateDraws
    <2>3. CASE Layout
      BY <2>3, LayoutDraws
    <2>4. CASE Raise
      BY <2>4 DEF Raise, DamageInv, Drawn
    <2>5. CASE Edit
      BY <2>5, EditBreaks
    <2>6. CASE Verify
      <3>1. /\ pc = "drawn" /\ UNCHANGED <<plan, object, linetype, damage>>
            /\ pc' \in {"passed", "failed"}
            /\ pc' = "passed" => Verified(entity, Observed(object, {unread'}, linetype))
        BY <2>6 DEF Verify
      <3>2. entity' = entity
        BY <3>1 DEF entity
      <3>3. DrawnObject
        BY <3>1 DEF DamageInv, Drawn
      <3>4. /\ AllCovered <=> AllCovered'
            /\ Broken <=> Broken'
            /\ Unchecked(entity)' = Unchecked(entity)
        BY <3>1, <3>2 DEF AllCovered, Broken
      <3>5. Verified(entity, Observed(object, {unread}, linetype))'
               <=> Verified(entity, Observed(object, {unread'}, linetype))
        BY <3>1, <3>2
      <3>6. DrawnObject'
        BY <3>1, <3>2, <3>3, <3>4, <3>5 DEF DrawnObject
      <3> QED
        BY <3>1, <3>6 DEF DamageInv
    <2>7. CASE UNCHANGED planVars
      <3>1. UNCHANGED <<plan, pc, object, linetype, damage, unread>>
        BY <2>7 DEF planVars
      <3>2. entity' = entity
        BY <3>1 DEF entity
      <3>3. DrawnObject => DrawnObject'
        BY <3>1, <3>2 DEF DrawnObject, AllCovered, Broken
      <3> QED
        BY <3>1, <3>3 DEF DamageInv, Drawn
    <2> QED
      BY <2>1, <2>2, <2>3, <2>4, <2>5, <2>6, <2>7 DEF PlanNext
  <1>3. DamageInv => DamageIsFound
    <2> SUFFICES ASSUME DamageInv, pc = "passed", damage \notin Unchecked(entity)
                 PROVE  damage = "background_fill" /\ unread = "background_fill"
      BY DEF DamageIsFound
    <2> DEFINE observed == Observed(object, {unread}, linetype)
    <2>1. DrawnObject /\ Broken
      BY DEF DamageInv, Drawn, DrawnObject
    <2>2. \A name \in DOMAIN Checks(entity) :
             name \in DOMAIN observed /\ Passes(name, Checks(entity)[name], observed[name])
      BY <2>1 DEF DrawnObject, Verified
    <2>3. damage \in DOMAIN object \cap Changeable \cap DOMAIN Checks(entity)
      BY <2>1 DEF Broken
    <2>4. \/ damage # unread /\ observed[damage] = object[damage]
          \/ damage = unread /\ damage = "background_fill"
      BY <2>2, <2>3, ObservedIsThere
    <2>5. ASSUME damage # unread, observed[damage] = object[damage]
          PROVE  FALSE
      <3>1. CASE ~Passes(damage, Checks(entity)[damage], object[damage])
        BY <2>2, <2>3, <2>5, <3>1
      <3>2. CASE /\ damage = "radius" /\ "diameter" \in DOMAIN Checks(entity)
                 /\ ~Passes("diameter", Checks(entity)["diameter"], 2 * object.radius)
        <4>1. observed["diameter"] = 2 * object.radius
          BY <2>1, <2>3, <2>5, <3>2, DiameterIsTwice DEF DrawnObject
        <4> HIDE DEF observed
        <4> QED
          BY <2>2, <3>2, <4>1
      <3> QED
        BY <2>1, <3>1, <3>2 DEF Broken
    <2> QED
      BY <2>4, <2>5
  <1> QED
    BY <1>1, <1>2, <1>3, PTL DEF PlanSpec

-----------------------------------------------------------------------------
(* Distances and extents.                                                  *)

\* Moving a point by d moves its distance to another one by at most |d|.
LEMMA CauchyIdentity ==
    ASSUME NEW x \in Int, NEW d \in Int, NEW r \in Int
    PROVE  Square(x * (x + d) + r) + r * Square(d) = (Square(x) + r) * (Square(x + d) + r)
  BY DEF Square

\* Squares grow with the number.
LEMMA SquareMonotone ==
    ASSUME NEW r \in Int, NEW s \in Int, Abs(r) <= s
    PROVE  Square(r) <= Square(s)
  <1>1. CASE r >= 0
    BY <1>1 DEF Abs, Square
  <1>2. CASE r < 0
    <2>1. -r \in Nat /\ -r <= s /\ Square(-r) = Square(r)
      BY <1>2 DEF Abs, Square
    <2>2. (-r) * (-r) <= s * s
      BY <2>1
    <2> QED
      BY <2>1, <2>2 DEF Square
  <1> QED
    BY <1>1, <1>2

\* Squares are natural numbers.
LEMMA SquareTyped ==
    ASSUME NEW x \in Int
    PROVE  Square(x) \in Nat
  <1>1. x * x >= 0
    OBVIOUS
  <1> QED
    BY <1>1 DEF Square

\* Moving one coordinate by d moves the root of a sum of squares by at most d.
LEMMA RootsOfMoved ==
    ASSUME NEW x \in Int, NEW d \in Int, NEW r \in Nat, Abs(d) <= Tolerance
    PROVE  WithinRoots(Square(x) + r, Square(x + d) + r)
  <1> DEFINE m == Square(x) + r
             n == Square(x + d) + r
             rest == m + n - Square(Tolerance)
             product == x * (x + d) + r
  <1>1. m \in Int /\ n \in Int /\ Square(Tolerance) \in Int /\ product \in Int /\ Square(d) \in Nat
    BY SquareTyped, ToleranceAssumption
  <1>2. Square(d) <= Square(Tolerance)
    BY SquareMonotone, ToleranceAssumption
  <1>3. m + n - Square(d) = 2 * product
    BY DEF Square
  <1>4. rest <= 2 * product
    BY <1>1, <1>2, <1>3
  <1>5. Square(product) <= m * n
    <2>1. Square(product) + r * Square(d) = m * n
      BY CauchyIdentity
    <2>2. r * Square(d) >= 0
      BY <1>1
    <2>3. Square(product) \in Int /\ m * n \in Int /\ r * Square(d) \in Int
      BY <1>1, SquareTyped
    <2> HIDE DEF m, n, product
    <2> QED
      BY <2>1, <2>2, <2>3
  <1>6. CASE rest > 0
    <2>1. Abs(rest) <= 2 * product /\ rest \in Int
      BY <1>1, <1>4, <1>6 DEF Abs
    <2>2. Square(rest) <= Square(2 * product)
      BY <1>1, <2>1, SquareMonotone
    <2>3. Square(2 * product) = 4 * Square(product)
      BY <1>1 DEF Square
    <2>4. /\ Square(rest) \in Int /\ Square(product) \in Int /\ m * n \in Int
          /\ 4 * m * n = 4 * (m * n)
      BY <1>1, <2>1, SquareTyped
    <2> HIDE DEF m, n, product, rest
    <2>5. Square(rest) <= 4 * m * n
      BY <1>5, <2>2, <2>3, <2>4
    <2> QED
      BY <2>5 DEF WithinRoots, rest, m, n
  <1>7. CASE ~(rest > 0)
    <2>1. rest <= 0
      BY <1>1, <1>7
    <2> QED
      BY <2>1 DEF WithinRoots
  <1> QED
    BY <1>6, <1>7

\* A square is within the tolerance of itself.
LEMMA RootsOfSame ==
    ASSUME NEW m \in Nat
    PROVE  WithinRoots(m, m)
  <1> DEFINE t == Square(Tolerance)
  <1>1. t \in Nat
    BY SquareTyped, ToleranceAssumption
  <1>2. CASE m + m - t > 0
    <2>1. Abs(m + m - t) <= 2 * m /\ m + m - t \in Int
      BY <1>1, <1>2 DEF Abs
    <2>2. Square(m + m - t) <= Square(2 * m)
      BY <2>1, SquareMonotone
    <2>3. Square(2 * m) = 4 * m * m
      BY DEF Square
    <2> QED
      BY <2>2, <2>3 DEF WithinRoots
  <1>3. CASE m + m - t <= 0
    BY <1>3 DEF WithinRoots
  <1> QED
    BY <1>1, <1>2, <1>3

\* Distances of points.
LEMMA FlatOfMoved ==
    ASSUME NEW p, IsXYZ(p), NEW q, IsXYZ(q), NEW d \in Int, Abs(d) <= Tolerance,
           NEW value, \/ value \in Shifted(p, d) \/ value = p
    PROVE  /\ WithinRoots(Flat(p, q), Flat(value, q))
           /\ p[3] = q[3] => WithinRoots(Flat(p, q), Spatial(value, q))
  <1> DEFINE x == p[1] - q[1]
             y == p[2] - q[2]
             z == p[3] - q[3]
  <1>1. x \in Int /\ y \in Int /\ z \in Int /\ p[1] \in Int /\ p[2] \in Int /\ p[3] \in Int
        /\ q[1] \in Int /\ q[2] \in Int /\ q[3] \in Int
    BY DEF IsXYZ
  <1>2. Square(x) \in Nat /\ Square(y) \in Nat /\ Square(0) = 0
    BY <1>1, SquareTyped DEF Square
  <1>3. CASE value = p
    <2>1. WithinRoots(Flat(p, q), Flat(p, q))
      BY <1>2, RootsOfSame DEF Flat
    <2>2. p[3] = q[3] => Spatial(p, q) = Flat(p, q)
      BY <1>1, <1>2 DEF Spatial, Flat
    <2> QED
      BY <1>3, <2>1, <2>2
  <1>4. CASE value = [p EXCEPT ![1] = @ + d]
    <2>1. value[1] - q[1] = x + d /\ value[2] = p[2] /\ value[3] = p[3]
      BY <1>1, <1>4 DEF IsXYZ
    <2>2. WithinRoots(Square(x) + Square(y), Square(x + d) + Square(y))
      BY <1>1, <1>2, RootsOfMoved
    <2>3. Flat(p, q) = Square(x) + Square(y) /\ Flat(value, q) = Square(x + d) + Square(y)
      BY <2>1 DEF Flat
    <2>4. p[3] = q[3] => Spatial(value, q) = Flat(value, q)
      <3>1. Square(x + d) \in Nat
        BY <1>1, SquareTyped
      <3> QED
        BY <1>1, <1>2, <2>1, <2>3, <3>1 DEF Spatial
    <2> QED
      BY <2>2, <2>3, <2>4
  <1>5. CASE value = [p EXCEPT ![2] = @ + d]
    <2>1. value[2] - q[2] = y + d /\ value[1] = p[1] /\ value[3] = p[3]
      BY <1>1, <1>5 DEF IsXYZ
    <2>2. WithinRoots(Square(y) + Square(x), Square(y + d) + Square(x))
      BY <1>1, <1>2, RootsOfMoved
    <2>3. Flat(p, q) = Square(y) + Square(x) /\ Flat(value, q) = Square(y + d) + Square(x)
      <3>1. Square(y + d) \in Nat
        BY <1>1, SquareTyped
      <3> QED
        BY <1>2, <2>1, <3>1 DEF Flat
    <2>4. p[3] = q[3] => Spatial(value, q) = Flat(value, q)
      <3>1. Square(y + d) \in Nat
        BY <1>1, SquareTyped
      <3> QED
        BY <1>1, <1>2, <2>1, <2>3, <3>1 DEF Spatial
    <2> QED
      BY <2>2, <2>3, <2>4
  <1>6. CASE value = [p EXCEPT ![3] = @ + d]
    <2>1. value[3] = p[3] + d /\ value[1] = p[1] /\ value[2] = p[2]
      BY <1>1, <1>6 DEF IsXYZ
    <2>2. Flat(value, q) = Flat(p, q) /\ Flat(p, q) \in Nat
      BY <1>2, <2>1 DEF Flat
    <2>3. p[3] = q[3] => Spatial(value, q) = Flat(p, q) + Square(0 + d)
      BY <1>1, <2>1, <2>2 DEF Spatial
    <2>4. WithinRoots(Square(0) + Flat(p, q), Square(0 + d) + Flat(p, q))
      BY <2>2, RootsOfMoved
    <2>5. Square(0) + Flat(p, q) = Flat(p, q)
          /\ Square(0 + d) + Flat(p, q) = Flat(p, q) + Square(0 + d)
      <3>1. Square(0 + d) \in Nat
        BY SquareTyped
      <3> QED
        BY <1>2, <2>2, <3>1
    <2> QED
      BY <2>2, <2>3, <2>4, <2>5, RootsOfSame
  <1> QED
    BY <1>3, <1>4, <1>5, <1>6 DEF Shifted

\* The extent is the greatest difference.
LEMMA ExtentIs ==
    ASSUME NEW S \in SUBSET Int, NEW a \in S, NEW b \in S, \A x, y \in S : x - y <= a - b
    PROVE  Extent(S) = a - b
  <1> DEFINE Greatest(d) == d \in {x - y : x, y \in S} /\ \A x, y \in S : x - y <= d
  <1>1. Greatest(a - b)
    OBVIOUS
  <1>2. \A d : Greatest(d) => d = a - b
    <2> SUFFICES ASSUME NEW d, Greatest(d)
                 PROVE  d = a - b
      OBVIOUS
    <2>1. PICK x \in S, y \in S : d = x - y
      OBVIOUS
    <2> QED
      BY <2>1
  <1>3. Extent(S) = CHOOSE d : Greatest(d)
    BY DEF Extent
  <1> HIDE DEF Greatest
  <1>4. Greatest(Extent(S))
    BY <1>1, <1>3
  <1> QED
    BY <1>2, <1>4

\* One more value, next to one of two, widens the extent by the distance at most.
LEMMA ExtentOfMoved ==
    ASSUME NEW p \in Int, NEW q \in Int, NEW r \in Int,
           Abs(r - p) <= Tolerance \/ Abs(r - q) <= Tolerance
    PROVE  Abs(Abs(p - q) - Extent({p, q, r})) <= Tolerance
  <1> DEFINE S == {p, q, r}
  <1>1. PICK high \in S : \A x \in S : x <= high
    OBVIOUS
  <1>2. PICK low \in S : \A x \in S : low <= x
    OBVIOUS
  <1>3. \A x, y \in S : x - y <= high - low
    BY <1>1, <1>2
  <1>4. Extent(S) = high - low
    <2>1. S \in SUBSET Int
      OBVIOUS
    <2> HIDE DEF S
    <2> QED
      BY <1>3, <2>1, ExtentIs
  <1> QED
    BY <1>1, <1>2, <1>4, ToleranceAssumption DEF Abs

\* So does a value that was moved away from one of the two.
LEMMA ExtentOfShifted ==
    ASSUME NEW p \in Int, NEW q \in Int, NEW c \in {p, q}, NEW d \in Int, Abs(d) <= Tolerance
    PROVE  Abs(Abs(p - q) - Extent({p, q, c + d})) <= Tolerance
  <1> DEFINE r == c + d
  <1>1. r \in Int /\ (Abs(r - p) <= Tolerance \/ Abs(r - q) <= Tolerance)
    BY DEF Abs
  <1> HIDE DEF r
  <1>2. Abs(Abs(p - q) - Extent({p, q, r})) <= Tolerance
    BY <1>1, ExtentOfMoved
  <1> QED
    BY <1>2 DEF r

\* Width and height of a rectangle, one vertex of which may have been moved.
LEMMA RectangleExtent ==
    ASSUME NEW p, IsXYZ(p), NEW q, IsXYZ(q), NEW d \in Int, Abs(d) <= Tolerance,
           NEW w, w = Corners(p, q) \/ w \in ShiftedVertices(Corners(p, q), d)
    PROVE  /\ Len(w) = 5
           /\ Abs(Abs(p[1] - q[1]) - Extent(Xs(w))) <= Tolerance
           /\ Abs(Abs(p[2] - q[2]) - Extent(Ys(w))) <= Tolerance
  <1> DEFINE v == Corners(p, q)
  <1>0. p[1] \in Int /\ p[2] \in Int /\ p[3] \in Int /\ q[1] \in Int /\ q[2] \in Int /\ q[3] \in Int
    BY DEF IsXYZ
  <1>1. /\ Len(v) = 5 /\ DOMAIN v = 1 .. 5
        /\ v[1][1] = p[1] /\ v[2][1] = q[1] /\ v[3][1] = q[1] /\ v[4][1] = p[1] /\ v[5][1] = p[1]
        /\ v[1][2] = p[2] /\ v[2][2] = p[2] /\ v[3][2] = q[2] /\ v[4][2] = q[2] /\ v[5][2] = p[2]
        /\ \A k \in 1 .. 5 : DOMAIN v[k] = 1 .. 3
    BY DEF Corners
  <1> HIDE DEF v
  <1>2. \A u : Len(u) = 5 => /\ Xs(u) = {u[1][1], u[2][1], u[3][1], u[4][1], u[5][1]}
                             /\ Ys(u) = {u[1][2], u[2][2], u[3][2], u[4][2], u[5][2]}
    <2> SUFFICES ASSUME NEW u, Len(u) = 5
                 PROVE  /\ Xs(u) = {u[1][1], u[2][1], u[3][1], u[4][1], u[5][1]}
                        /\ Ys(u) = {u[1][2], u[2][2], u[3][2], u[4][2], u[5][2]}
      OBVIOUS
    <2>1. 1 .. 5 = {1, 2, 3, 4, 5}
      OBVIOUS
    <2> QED
      BY <2>1 DEF Xs, Ys
  <1>3. Xs(v) = {p[1], q[1], p[1]} /\ Ys(v) = {p[2], q[2], p[2]}
    BY <1>1, <1>2
  <1>4. ASSUME NEW k \in 1 .. 5, NEW i \in {1, 2}, w = [v EXCEPT ![k][i] = @ + d]
        PROVE  /\ Len(w) = 5
               /\ i = 1 => /\ Ys(w) = Ys(v)
                           /\ \E c \in {p[1], q[1]} : Xs(w) = {p[1], q[1], c + d}
               /\ i = 2 => /\ Xs(w) = Xs(v)
                           /\ \E c \in {p[2], q[2]} : Ys(w) = {p[2], q[2], c + d}
    <2>1. Len(w) = 5 /\ DOMAIN w = 1 .. 5 /\ \A j \in 1 .. 5 : j # k => w[j] = v[j]
      <3>1. DOMAIN w = 1 .. 5 /\ \A j \in 1 .. 5 : j # k => w[j] = v[j]
        BY <1>1, <1>4
      <3> QED
        BY <3>1
    <2>2. w[k] = [v[k] EXCEPT ![i] = @ + d]
      BY <1>1, <1>4
    <2>3. CASE i = 1
      <3>1. w[k][1] = v[k][1] + d /\ w[k][2] = v[k][2]
        BY <1>1, <2>2, <2>3
      <3>2. Ys(w) = Ys(v)
        <4>1. \A j \in 1 .. 5 : w[j][2] = v[j][2]
          BY <2>1, <3>1
        <4> QED
          BY <1>1, <1>2, <2>1, <4>1
      <3>3. Xs(w) = {w[1][1], w[2][1], w[3][1], w[4][1], w[5][1]}
        BY <1>2, <2>1
      <3>4. ASSUME k = 1
            PROVE  \E c \in {p[1], q[1]} : Xs(w) = {p[1], q[1], c + d}
        BY <1>1, <2>1, <3>1, <3>3, <3>4
      <3>5. ASSUME k = 2
            PROVE  \E c \in {p[1], q[1]} : Xs(w) = {p[1], q[1], c + d}
        BY <1>1, <2>1, <3>1, <3>3, <3>5
      <3>6. ASSUME k = 3
            PROVE  \E c \in {p[1], q[1]} : Xs(w) = {p[1], q[1], c + d}
        BY <1>1, <2>1, <3>1, <3>3, <3>6
      <3>7. ASSUME k = 4
            PROVE  \E c \in {p[1], q[1]} : Xs(w) = {p[1], q[1], c + d}
        BY <1>1, <2>1, <3>1, <3>3, <3>7
      <3>8. ASSUME k = 5
            PROVE  \E c \in {p[1], q[1]} : Xs(w) = {p[1], q[1], c + d}
        BY <1>1, <2>1, <3>1, <3>3, <3>8
      <3>9. \E c \in {p[1], q[1]} : Xs(w) = {p[1], q[1], c + d}
        BY <3>4, <3>5, <3>6, <3>7, <3>8
      <3> QED
        BY <2>1, <2>3, <3>2, <3>9
    <2>4. CASE i = 2
      <3>1. w[k][2] = v[k][2] + d /\ w[k][1] = v[k][1]
        BY <1>1, <2>2, <2>4
      <3>2. Xs(w) = Xs(v)
        <4>1. \A j \in 1 .. 5 : w[j][1] = v[j][1]
          BY <2>1, <3>1
        <4> QED
          BY <1>1, <1>2, <2>1, <4>1
      <3>3. Ys(w) = {w[1][2], w[2][2], w[3][2], w[4][2], w[5][2]}
        BY <1>2, <2>1
      <3>4. ASSUME k = 1
            PROVE  \E c \in {p[2], q[2]} : Ys(w) = {p[2], q[2], c + d}
        BY <1>1, <2>1, <3>1, <3>3, <3>4
      <3>5. ASSUME k = 2
            PROVE  \E c \in {p[2], q[2]} : Ys(w) = {p[2], q[2], c + d}
        BY <1>1, <2>1, <3>1, <3>3, <3>5
      <3>6. ASSUME k = 3
            PROVE  \E c \in {p[2], q[2]} : Ys(w) = {p[2], q[2], c + d}
        BY <1>1, <2>1, <3>1, <3>3, <3>6
      <3>7. ASSUME k = 4
            PROVE  \E c \in {p[2], q[2]} : Ys(w) = {p[2], q[2], c + d}
        BY <1>1, <2>1, <3>1, <3>3, <3>7
      <3>8. ASSUME k = 5
            PROVE  \E c \in {p[2], q[2]} : Ys(w) = {p[2], q[2], c + d}
        BY <1>1, <2>1, <3>1, <3>3, <3>8
      <3>9. \E c \in {p[2], q[2]} : Ys(w) = {p[2], q[2], c + d}
        BY <3>4, <3>5, <3>6, <3>7, <3>8
      <3> QED
        BY <2>1, <2>4, <3>2, <3>9
    <2> QED
      BY <2>3, <2>4
  <1>5. ASSUME w = [k \in 1 .. Len(v) |-> [v[k] EXCEPT ![3] = @ + d]]
        PROVE  Len(w) = 5 /\ Xs(w) = Xs(v) /\ Ys(w) = Ys(v)
    <2>1. DOMAIN w = 1 .. 5 /\ \A j \in 1 .. 5 : w[j][1] = v[j][1] /\ w[j][2] = v[j][2]
      BY <1>1, <1>5
    <2>2. Len(w) = 5
      BY <2>1
    <2> QED
      BY <1>1, <1>2, <2>1, <2>2
  <1>6. /\ Abs(Abs(p[1] - q[1]) - Extent(Xs(v))) <= Tolerance
        /\ Abs(Abs(p[2] - q[2]) - Extent(Ys(v))) <= Tolerance
    <2>1. Abs(p[1] - p[1]) <= Tolerance /\ Abs(p[2] - p[2]) <= Tolerance
      BY <1>0, ToleranceAssumption DEF Abs
    <2> QED
      BY <1>0, <1>3, <2>1, ExtentOfMoved
  <1>8. CASE w = v
    BY <1>1, <1>6, <1>8
  <1>9. CASE w = [k \in 1 .. Len(v) |-> [v[k] EXCEPT ![3] = @ + d]]
    BY <1>5, <1>6, <1>9
  <1>10. CASE \E k \in 1 .. Len(v), i \in {1, 2} : w = [v EXCEPT ![k][i] = @ + d]
    <2>1. PICK k \in 1 .. 5, i \in {1, 2} : w = [v EXCEPT ![k][i] = @ + d]
      BY <1>1, <1>10
    <2>2. CASE i = 1
      <3>1. PICK c \in {p[1], q[1]} : Xs(w) = {p[1], q[1], c + d}
        BY <1>4, <2>1, <2>2
      <3>2. Abs(Abs(p[1] - q[1]) - Extent({p[1], q[1], c + d})) <= Tolerance
        BY <1>0, ExtentOfShifted
      <3> QED
        BY <1>4, <1>6, <2>1, <2>2, <3>1, <3>2
    <2>3. CASE i = 2
      <3>1. PICK c \in {p[2], q[2]} : Ys(w) = {p[2], q[2], c + d}
        BY <1>4, <2>1, <2>3
      <3>2. Abs(Abs(p[2] - q[2]) - Extent({p[2], q[2], c + d})) <= Tolerance
        BY <1>0, ExtentOfShifted
      <3> QED
        BY <1>4, <1>6, <2>1, <2>3, <3>1, <3>2
    <2> QED
      BY <2>2, <2>3
  <1> QED
    BY <1>8, <1>9, <1>10 DEF ShiftedVertices, v

\* An angle that was moved within the tolerance is close, also across zero.
LEMMA SlightAngle ==
    ASSUME NEW v \in 0 .. 359, NEW d \in Int, Abs(d) <= Tolerance
    PROVE  AngleError(v, (v + d) % 360) <= Tolerance
  <1> DEFINE moved == (v + d) % 360
             turned == (moved - v + 180) % 360
  <1>1. CASE Tolerance >= 180
    <2>1. moved \in 0 .. 359
      OBVIOUS
    <2> HIDE DEF moved
    <2>2. turned \in 0 .. 359
      BY <2>1
    <2> HIDE DEF turned
    <2>3. Abs(turned - 180) <= 180
      BY <2>2 DEF Abs
    <2>4. AngleError(v, moved) = Abs(turned - 180) /\ Abs(turned - 180) \in Int
      BY <2>2 DEF AngleError, turned, Abs
    <2> QED
      BY <1>1, <2>3, <2>4, ToleranceAssumption DEF moved
  <1>2. CASE Tolerance < 180
    <2>1. \A k \in -179 .. 538 :
             k % 360 = IF k < 0 THEN k + 360 ELSE IF k < 360 THEN k ELSE k - 360
      OBVIOUS
    <2>2. d \in -179 .. 179 /\ v + d \in -179 .. 538
      BY <1>2, ToleranceAssumption DEF Abs
    <2>3. moved \in {v + d, v + d + 360, v + d - 360}
      BY <2>1, <2>2
    <2>4. turned = (d + 180) % 360
      <3>1. \A k \in 0 .. 360 : (k + 360) % 360 = k % 360 /\ (k - 360) % 360 = k % 360
        OBVIOUS
      <3>2. d + 180 \in 0 .. 360 /\ moved - v + 180 \in {d + 180, d + 180 + 360, d + 180 - 360}
        BY <2>2, <2>3
      <3> HIDE DEF moved
      <3> QED
        BY <3>1, <3>2
    <2>5. (d + 180) % 360 = d + 180
      BY <2>2
    <2> QED
      BY <2>4, <2>5 DEF AngleError
  <1> QED
    BY <1>1, <1>2, ToleranceAssumption

\* A property that is as planned passes its row.
LEMMA SamePasses ==
    ASSUME NEW name \in Changeable, NEW v, TypedValue(name, v)
    PROVE  Passes(name, v, v)
  <1>1. \A p : IsXYZ(p) => ClosePoints(p, p)
    BY ToleranceAssumption DEF IsXYZ, ClosePoints, Abs
  <1>2. CASE name \in PointNames
    BY <1>1, <1>2 DEF TypedValue, Passes, PointNames, AngleNames, RootNames, NumberNames, SetNames
  <1>3. CASE name = "vertices"
    BY <1>1, <1>3 DEF TypedValue, Passes, PointNames, AngleNames, RootNames, NumberNames, SetNames
  <1>4. CASE name \in AngleNames
    <2>1. v \in 0 .. 359
      BY <1>4 DEF TypedValue
    <2>2. AngleError(v, v) = 0
      BY <2>1 DEF AngleError, Abs
    <2> QED
      BY <1>4, <2>2, ToleranceAssumption
      DEF Passes, PointNames, AngleNames, RootNames, NumberNames, SetNames
  <1>5. CASE name \in {"radius", "text_height"}
    <2>1. v \in Int
      BY <1>5 DEF TypedValue
    <2> QED
      BY <1>5, <2>1, ToleranceAssumption
      DEF Passes, PointNames, AngleNames, RootNames, NumberNames, SetNames, Abs
  <1>6. CASE name \in {"closed", "background_fill", "layer", "linetype", "text_override", "text"}
    BY <1>6 DEF Passes, PointNames, AngleNames, RootNames, NumberNames, SetNames
  <1> QED
    BY <1>2, <1>3, <1>4, <1>5, <1>6 DEF Changeable

\* A point that was moved within the tolerance is close.
LEMMA SlightPoint ==
    ASSUME NEW v, IsXYZ(v), NEW d \in Int, Abs(d) <= Tolerance, NEW value \in Shifted(v, d)
    PROVE  ClosePoints(v, value)
  <1>1. PICK i \in 1 .. 3 : value = [v EXCEPT ![i] = @ + d]
    BY DEF Shifted
  <1>2. /\ value[i] = v[i] + d /\ \A j \in 1 .. 3 : v[j] \in Int
        /\ \A j \in 1 .. 3 : j # i => value[j] = v[j]
    BY <1>1 DEF IsXYZ
  <1> QED
    BY <1>2, ToleranceAssumption DEF ClosePoints, Abs

\* Moving vertices leaves their number as it is.
LEMMA ShiftedLength ==
    ASSUME NEW v, TypedValue("vertices", v), NEW d \in Int, NEW value \in ShiftedVertices(v, d)
    PROVE  Len(value) = Len(v)
  <1>1. Len(v) \in Nat /\ DOMAIN v = 1 .. Len(v)
    BY DEF TypedValue
  <1>2. DOMAIN value = 1 .. Len(v)
    BY <1>1 DEF ShiftedVertices
  <1> QED
    BY <1>1, <1>2

\* A property that was moved within the tolerance passes its row.
LEMMA SlightPasses ==
    ASSUME NEW name \in Changeable, NEW v, TypedValue(name, v), NEW d \in Int,
           Abs(d) <= Tolerance, NEW value \in Moved(name, v, d)
    PROVE  Passes(name, v, value)
  <1>1. CASE name \in PointNames
    <2>1. value \in Shifted(v, d)
      BY <1>1 DEF Moved, PointNames, AngleNames
    <2>2. IsXYZ(v)
      BY <1>1 DEF TypedValue
    <2>3. Passes(name, v, value) = ClosePoints(v, value)
      BY <1>1 DEF Passes, PointNames, AngleNames, RootNames, NumberNames, SetNames
    <2> QED
      BY <2>1, <2>2, <2>3, SlightPoint
  <1>2. CASE name = "vertices"
    <2>1. value \in ShiftedVertices(v, d)
      BY <1>2 DEF Moved, PointNames, AngleNames
    <2>2. /\ Len(v) \in Nat \ {0} /\ DOMAIN v = 1 .. Len(v)
          /\ \A k \in 1 .. Len(v) : IsXYZ(v[k])
      BY <1>2 DEF TypedValue
    <2>3. ASSUME NEW k \in 1 .. Len(v)
          PROVE  value[k] = v[k] \/ value[k] \in Shifted(v[k], d)
      <3>1. CASE \E j \in 1 .. Len(v), i \in {1, 2} : value = [v EXCEPT ![j][i] = @ + d]
        <4>1. PICK j \in 1 .. Len(v), i \in {1, 2} : value = [v EXCEPT ![j][i] = @ + d]
          BY <3>1
        <4>2. CASE k = j
          <5>1. value[k] = [v[k] EXCEPT ![i] = @ + d]
            BY <2>2, <4>1, <4>2
          <5> QED
            BY <5>1 DEF Shifted
        <4>3. CASE k # j
          BY <2>2, <4>1, <4>3
        <4> QED
          BY <4>2, <4>3
      <3>2. CASE value = [j \in 1 .. Len(v) |-> [v[j] EXCEPT ![3] = @ + d]]
        BY <3>2 DEF Shifted
      <3> QED
        BY <2>1, <3>1, <3>2 DEF ShiftedVertices
    <2>4. \A k \in 1 .. Len(v) : ClosePoints(v[k], value[k])
      <3>1. \A p : IsXYZ(p) => ClosePoints(p, p)
        BY ToleranceAssumption DEF IsXYZ, ClosePoints, Abs
      <3> QED
        BY <2>2, <2>3, <3>1, SlightPoint
    <2>5. Len(value) = Len(v)
      BY <1>2, <2>1, ShiftedLength
    <2> QED
      BY <1>2, <2>4, <2>5 DEF Passes, PointNames, AngleNames, RootNames, NumberNames, SetNames
  <1>3. CASE name \in AngleNames
    <2>1. value = (v + d) % 360 /\ v \in 0 .. 359
      BY <1>3 DEF Moved, TypedValue, PointNames, AngleNames
    <2>2. AngleError(v, value) <= Tolerance
      BY <2>1, SlightAngle
    <2> QED
      BY <1>3, <2>2 DEF Passes, PointNames, AngleNames, RootNames, NumberNames, SetNames
  <1>4. CASE name \in {"radius", "text_height"}
    <2>1. value = v + d /\ v \in Int
      BY <1>4 DEF Moved, TypedValue, PointNames, AngleNames
    <2>2. Passes(name, v, value) = (Abs(v - value) <= Tolerance)
      BY <1>4 DEF Passes, PointNames, AngleNames, RootNames, NumberNames, SetNames
    <2>3. Abs(v - value) = Abs(d)
      BY <2>1 DEF Abs
    <2> QED
      BY <2>2, <2>3
  <1> QED
    BY <1>1, <1>2, <1>3, <1>4 DEF Moved, Changeable

\* What the verifier reads of an object, when every read succeeds.
LEMMA ObservedValues ==
    ASSUME NEW x, NEW lt, DOMAIN x \subseteq Changeable \cup {"object_type", "rotation"}
    PROVE  LET observed == Observed(x, {"none"}, lt)
           IN  /\ \A name \in DOMAIN x : name \in DOMAIN observed /\ observed[name] = x[name]
               /\ \A name \in DOMAIN Native(x) :
                     name \in DOMAIN observed /\ observed[name] = Native(x)[name]
               /\ "radius" \in DOMAIN x =>
                     "diameter" \in DOMAIN observed /\ observed["diameter"] = 2 * x.radius
               /\ "vertices" \in DOMAIN x =>
                     /\ {"vertex_count", "width", "height"} \subseteq DOMAIN observed
                     /\ observed["vertex_count"] = Len(x.vertices)
                     /\ observed["width"] = Extent(Xs(x.vertices))
                     /\ observed["height"] = Extent(Ys(x.vertices))
               /\ {"layer", "linetype"} \subseteq DOMAIN x /\ x.linetype = "bylayer" =>
                     /\ "effective_linetype" \in DOMAIN observed
                     /\ observed["effective_linetype"] = lt
  <1> DEFINE native == WithoutProperties(Native(x), {"none"})
             derived == Derived(native, lt)
             observed == Observed(x, {"none"}, lt)
             computed == {"diameter", "vertex_count", "width", "height", "effective_linetype"}
  <1>1. /\ DOMAIN x \subseteq DOMAIN Native(x)
        /\ DOMAIN Native(x) \subseteq DOMAIN x \cup {"length", "measurement"}
        /\ \A name \in DOMAIN x : Native(x)[name] = x[name]
    BY DEF Native, Merged
  <1>2. "none" \notin DOMAIN Native(x)
    BY <1>1 DEF Changeable, PointNames, AngleNames
  <1>3. /\ DOMAIN native = DOMAIN Native(x)
        /\ \A name \in DOMAIN native : native[name] = Native(x)[name]
    BY <1>2 DEF WithoutProperties
  <1>4. computed \cap DOMAIN native = {}
    BY <1>1, <1>3 DEF Changeable, PointNames, AngleNames
  <1> HIDE DEF native
  <1>5. /\ "radius" \in DOMAIN native =>
              "diameter" \in DOMAIN derived /\ derived["diameter"] = 2 * native.radius
        /\ "vertices" \in DOMAIN native =>
              /\ {"vertex_count", "width", "height"} \subseteq DOMAIN derived
              /\ derived["vertex_count"] = Len(native.vertices)
              /\ derived["width"] = Extent(Xs(native.vertices))
              /\ derived["height"] = Extent(Ys(native.vertices))
        /\ {"layer", "linetype"} \subseteq DOMAIN native /\ native.linetype = "bylayer" =>
              "effective_linetype" \in DOMAIN derived /\ derived["effective_linetype"] = lt
    BY DEF Derived
  <1> HIDE DEF derived
  <1>6. observed = Merged(native, Merged(derived, [background_fill |-> FALSE]))
    BY DEF Observed, native, derived
  <1> HIDE DEF observed
  <1>7. /\ \A name \in DOMAIN native : name \in DOMAIN observed /\ observed[name] = native[name]
        /\ \A name \in DOMAIN derived \ DOMAIN native :
              name \in DOMAIN observed /\ observed[name] = derived[name]
    BY <1>6 DEF Merged
  <1>8. \A name \in DOMAIN x : native[name] = x[name] /\ name \in DOMAIN native
    BY <1>1, <1>3
  <1>9. \A name \in DOMAIN x : name \in DOMAIN observed /\ observed[name] = x[name]
    BY <1>7, <1>8
  <1>10. \A name \in DOMAIN Native(x) : name \in DOMAIN observed /\ observed[name] = Native(x)[name]
    BY <1>3, <1>7
  <1>11. \A name \in computed \cap DOMAIN derived :
            name \in DOMAIN observed /\ observed[name] = derived[name]
    BY <1>4, <1>7
  <1>12. "radius" \in DOMAIN x =>
            "diameter" \in DOMAIN observed /\ observed["diameter"] = 2 * x.radius
    BY <1>5, <1>8, <1>11
  <1>13. "vertices" \in DOMAIN x =>
            /\ {"vertex_count", "width", "height"} \subseteq DOMAIN observed
            /\ observed["vertex_count"] = Len(x.vertices)
            /\ observed["width"] = Extent(Xs(x.vertices))
            /\ observed["height"] = Extent(Ys(x.vertices))
    BY <1>5, <1>8, <1>11
  <1>14. {"layer", "linetype"} \subseteq DOMAIN x /\ x.linetype = "bylayer" =>
            "effective_linetype" \in DOMAIN observed /\ observed["effective_linetype"] = lt
    BY <1>5, <1>8, <1>11
  <1> QED
    BY <1>9, <1>10, <1>12, <1>13, <1>14 DEF observed

-----------------------------------------------------------------------------
(* The object as it was drawn, and with a slight change.                   *)

\* What a plan that was drawn has made.
Original(o) ==
    \/ entity.operation = "create" /\ \E layer : o = Created(entity, layer)
    \/ /\ entity.operation = "layout_only"
       /\ \E dimension \in Dimensions :
             o = [dimension EXCEPT !.text_position = At(entity, "text_position")]

IsSlight(o, name, d) ==
    /\ Abs(d) <= Tolerance
    /\ o.object_type = "AcDbCircle" /\ name = "radius" => 2 * Abs(d) <= Tolerance

\* x is o, or differs from it by a slight change.
Nearly(o, x) ==
    \/ x = o
    \/ \E name \in DOMAIN o, d \in Int :
          /\ IsSlight(o, name, d)
          /\ \E value \in Moved(name, o[name], d) : x = [o EXCEPT ![name] = value]

\* An object that is nearly another one has its properties, and at most one of
\* them was moved.
LEMMA NearlyFacts ==
    ASSUME NEW o, NEW x, Nearly(o, x)
    PROVE  /\ DOMAIN x = DOMAIN o
           /\ \A name \in DOMAIN o :
                 \/ x[name] = o[name]
                 \/ \E d \in Int : IsSlight(o, name, d) /\ x[name] \in Moved(name, o[name], d)
           /\ \A name1, name2 \in DOMAIN o :
                 name1 # name2 => x[name1] = o[name1] \/ x[name2] = o[name2]
  <1>1. CASE x = o
    BY <1>1
  <1>2. CASE x # o
    <2>1. PICK name \in DOMAIN o, d \in Int :
             /\ IsSlight(o, name, d)
             /\ \E value \in Moved(name, o[name], d) : x = [o EXCEPT ![name] = value]
      BY <1>2 DEF Nearly
    <2>2. PICK value \in Moved(name, o[name], d) : x = [o EXCEPT ![name] = value]
      BY <2>1
    <2>3. DOMAIN x = DOMAIN o /\ x[name] = value /\ \A n \in DOMAIN o : n # name => x[n] = o[n]
      BY <2>2
    <2> QED
      BY <2>1, <2>3
  <1> QED
    BY <1>1, <1>2

\* A property that cannot be moved is as it was.
LEMMA NearlyFixed ==
    ASSUME NEW o, NEW x, Nearly(o, x), NEW name \in DOMAIN o,
           name \notin PointNames \cup AngleNames
                        \cup {"vertices", "rotation", "radius", "text_height"}
    PROVE  x[name] = o[name]
  <1>1. \A d : Moved(name, o[name], d) = {}
    BY DEF Moved
  <1> QED
    BY <1>1, NearlyFacts

\* Distances are symmetric.
LEMMA FlatSymmetric ==
    ASSUME NEW p, IsXYZ(p), NEW q, IsXYZ(q)
    PROVE  Flat(p, q) = Flat(q, p) /\ Spatial(p, q) = Spatial(q, p)
  <1>1. \A x, y \in Int : Square(x - y) = Square(y - x)
    BY DEF Square
  <1> QED
    BY <1>1 DEF IsXYZ, Flat, Spatial

\* A moved point is a point.
LEMMA ShiftedTyped ==
    ASSUME NEW p, IsXYZ(p), NEW d \in Int, NEW value \in Shifted(p, d)
    PROVE  IsXYZ(value)
  BY DEF IsXYZ, Shifted

\* The distance of two points of the object is nearly what it was.
LEMMA NearlyDistance ==
    ASSUME NEW o, NEW x, Nearly(o, x),
           NEW name1 \in PointNames \cap DOMAIN o, NEW name2 \in PointNames \cap DOMAIN o,
           name1 # name2, IsXYZ(o[name1]), IsXYZ(o[name2])
    PROVE  /\ WithinRoots(Flat(o[name1], o[name2]), Flat(x[name1], x[name2]))
           /\ o[name1][3] = o[name2][3] =>
                 WithinRoots(Flat(o[name1], o[name2]), Spatial(x[name1], x[name2]))
  <1>1. \A name \in PointNames : \A d : Moved(name, o[name], d) = Shifted(o[name], d)
    BY DEF Moved, PointNames, AngleNames
  <1>2. ASSUME NEW name \in {name1, name2}
        PROVE  \E d \in Int : /\ Abs(d) <= Tolerance
                              /\ x[name] = o[name] \/ x[name] \in Shifted(o[name], d)
    <2>1. CASE x[name] = o[name]
      <3>1. Abs(0) <= Tolerance
        BY ToleranceAssumption DEF Abs
      <3> QED
        BY <2>1, <3>1
    <2>2. CASE x[name] # o[name]
      BY <1>1, <2>2, NearlyFacts DEF IsSlight
    <2> QED
      BY <2>1, <2>2
  <1>3. CASE x[name2] = o[name2]
    <2>1. PICK d \in Int : /\ Abs(d) <= Tolerance
                           /\ x[name1] = o[name1] \/ x[name1] \in Shifted(o[name1], d)
      BY <1>2
    <2> QED
      BY <1>3, <2>1, FlatOfMoved
  <1>4. CASE x[name1] = o[name1]
    <2>1. PICK d \in Int : /\ Abs(d) <= Tolerance
                           /\ x[name2] = o[name2] \/ x[name2] \in Shifted(o[name2], d)
      BY <1>2
    <2>2. IsXYZ(x[name2])
      BY <2>1, ShiftedTyped
    <2>3. /\ WithinRoots(Flat(o[name2], o[name1]), Flat(x[name2], o[name1]))
          /\ o[name2][3] = o[name1][3] =>
                WithinRoots(Flat(o[name2], o[name1]), Spatial(x[name2], o[name1]))
      BY <2>1, FlatOfMoved
    <2> QED
      BY <1>4, <2>2, <2>3, FlatSymmetric
  <1> QED
    BY <1>3, <1>4, NearlyFacts

\* Vertices are as they were, or slightly moved.
LEMMA NearlyVertices ==
    ASSUME NEW o, NEW x, Nearly(o, x), "vertices" \in DOMAIN o
    PROVE  \E d \in Int : /\ Abs(d) <= Tolerance
                          /\ \/ x["vertices"] = o["vertices"]
                             \/ x["vertices"] \in ShiftedVertices(o["vertices"], d)
  <1>1. \A d : Moved("vertices", o["vertices"], d) = ShiftedVertices(o["vertices"], d)
    BY DEF Moved, PointNames, AngleNames
  <1>2. Abs(0) <= Tolerance /\ 0 \in Int
    BY ToleranceAssumption DEF Abs
  <1> QED
    BY <1>1, <1>2, NearlyFacts DEF IsSlight

\* The compared property of an object that is nearly as planned.
LEMMA NearlyPasses ==
    ASSUME NEW o, NEW x, Nearly(o, x), NEW name \in DOMAIN o \cap Changeable,
           TypedValue(name, o[name])
    PROVE  Passes(name, o[name], x[name])
  <1>1. CASE x[name] = o[name]
    BY <1>1, SamePasses
  <1>2. CASE x[name] # o[name]
    <2>1. PICK d \in Int : Abs(d) <= Tolerance /\ x[name] \in Moved(name, o[name], d)
      BY <1>2, NearlyFacts DEF IsSlight
    <2> QED
      BY <2>1, SlightPasses
  <1> QED
    BY <1>1, <1>2

-----------------------------------------------------------------------------
(* What is drawn is what the plan says.                                    *)

\* The rows of a dimension.
LEMMA DimensionRows ==
    ASSUME NEW e, Ready(e), e.kind \in DIMENSION_TYPES
    PROVE  /\ DOMAIN DimensionChecks(e) =
                 {"text_override", "background_fill"} \cup DOMAIN MeasurementCheck(e)
                 \cup DOMAIN DefinitionChecks(e) \cup ({"text_height"} \cap DOMAIN e.dimensions)
                 \cup ({"text_position"} \cap DOMAIN e.coordinates)
           /\ DOMAIN MeasurementCheck(e) \subseteq {"measurement"}
           /\ DOMAIN DefinitionChecks(e) \subseteq
                 {"ext_line1_point", "ext_line2_point", "center", "chord_point", "far_chord_point"}
           /\ DimensionChecks(e)["text_override"] = e.text
           /\ DimensionChecks(e)["background_fill"] = e.background_fill
           /\ \A name \in DOMAIN MeasurementCheck(e) :
                 DimensionChecks(e)[name] = MeasurementCheck(e)[name]
           /\ \A name \in DOMAIN DefinitionChecks(e) :
                 DimensionChecks(e)[name] = DefinitionChecks(e)[name]
           /\ "text_height" \in DOMAIN e.dimensions =>
                 DimensionChecks(e)["text_height"] = Value(e, "text_height")
           /\ "text_position" \in DOMAIN e.coordinates =>
                 DimensionChecks(e)["text_position"] = At(e, "text_position")
  <1> DEFINE fixed == [text_override |-> e.text, background_fill |-> e.background_fill]
             measured == MeasurementCheck(e)
             points == DefinitionChecks(e)
             height == Optional(e, {"text_height"})
             place == [name \in {"text_position"} \cap DOMAIN e.coordinates |-> At(e, name)]
  <1>1. DimensionChecks(e) =
            Merged(fixed, Merged(measured, Merged(points, Merged(height, place))))
    BY DEF DimensionChecks
  <1>2. DOMAIN measured \subseteq {"measurement"}
    BY DEF MeasurementCheck
  <1>3. DOMAIN points \subseteq
           {"ext_line1_point", "ext_line2_point", "center", "chord_point", "far_chord_point"}
    <2>1. CASE e.operation = "layout_only"
      <3>1. points = << >>
        BY <2>1 DEF DefinitionChecks
      <3> QED
        BY <3>1
    <2>2. CASE e.operation = "create" /\ e.kind \in {"aligned_dimension", "linear_dimension"}
      BY <2>2 DEF DefinitionChecks
    <2>3. CASE e.operation = "create" /\ e.kind \notin {"aligned_dimension", "linear_dimension"}
      <3>1. points = [name \in Requirements[e.kind] |-> At(e, name)]
        BY <2>3 DEF DefinitionChecks
      <3>2. Requirements[e.kind] \subseteq {"center", "chord_point", "far_chord_point"}
        BY <2>3 DEF Requirements, DIMENSION_TYPES
      <3> QED
        BY <3>1, <3>2
    <2> QED
      BY <2>1, <2>2, <2>3 DEF Ready, Typed
  <1>4. /\ DOMAIN fixed = {"text_override", "background_fill"}
        /\ fixed["text_override"] = e.text /\ fixed["background_fill"] = e.background_fill
    OBVIOUS
  <1>5. /\ DOMAIN height = {"text_height"} \cap DOMAIN e.dimensions
        /\ "text_height" \in DOMAIN height => height["text_height"] = Value(e, "text_height")
    BY DEF Optional
  <1>6. /\ DOMAIN place = {"text_position"} \cap DOMAIN e.coordinates
        /\ "text_position" \in DOMAIN place => place["text_position"] = At(e, "text_position")
    OBVIOUS
  <1> HIDE DEF fixed, measured, points, height, place
  <1>7. DOMAIN DimensionChecks(e) =
            DOMAIN fixed \cup DOMAIN measured \cup DOMAIN points \cup DOMAIN height
            \cup DOMAIN place
    BY <1>1 DEF Merged
  <1>8. \A name \in DOMAIN fixed : DimensionChecks(e)[name] = fixed[name]
    BY <1>1 DEF Merged
  <1>9. \A name \in DOMAIN measured : DimensionChecks(e)[name] = measured[name]
    BY <1>1, <1>2, <1>4 DEF Merged
  <1>10. \A name \in DOMAIN points : DimensionChecks(e)[name] = points[name]
    BY <1>1, <1>2, <1>3, <1>4 DEF Merged
  <1>11. \A name \in DOMAIN height : DimensionChecks(e)[name] = height[name]
    BY <1>1, <1>2, <1>3, <1>4, <1>5 DEF Merged
  <1>12. \A name \in DOMAIN place : DimensionChecks(e)[name] = place[name]
    BY <1>1, <1>2, <1>3, <1>4, <1>5, <1>6 DEF Merged
  <1> QED
    BY <1>2, <1>3, <1>4, <1>5, <1>6, <1>7, <1>8, <1>9, <1>10, <1>11, <1>12 DEF measured, points

\* A dimension is drawn with the properties its rows compare.
LEMMA DimensionDrawn ==
    ASSUME NEW e, Ready(e), e.operation = "create", e.kind \in DIMENSION_TYPES,
           NEW name \in DOMAIN DimensionChecks(e), name # "measurement"
    PROVE  name \in DOMAIN Shape(e) /\ Shape(e)[name] = DimensionChecks(e)[name]
  <1> DEFINE style == DimensionStyle(e)
  <1>1. /\ DOMAIN style = {"text_override", "background_fill", "text_height", "text_position"}
        /\ style["text_override"] = "" /\ style["background_fill"] = FALSE
        /\ "text_height" \in DOMAIN e.dimensions => style["text_height"] = Value(e, "text_height")
        /\ Has(e, "text_position") => style["text_position"] = At(e, "text_position")
    BY DEF DimensionStyle, Given
  <1>2. /\ e.text = "" /\ e.background_fill = FALSE
        /\ "text_position" \in DOMAIN e.coordinates => Has(e, "text_position")
    BY DEF Ready, Typed, DimensionSafe
  <1>3. \E points :
           /\ Shape(e) = Merged(points, style)
           /\ DOMAIN points = DOMAIN DefinitionChecks(e) \cup {"object_type"}
           /\ \A n \in DOMAIN DefinitionChecks(e) : points[n] = DefinitionChecks(e)[n]
    <2>1. CASE e.kind \in {"aligned_dimension", "linear_dimension"}
      <3>1. Shape(e) = Merged(add_dimension(e), style)
        BY <2>1 DEF Shape
      <3>2. DefinitionChecks(e) =
               [ext_line1_point |-> At(e, "start"), ext_line2_point |-> At(e, "end")]
        BY <2>1 DEF DefinitionChecks
      <3>3. /\ DOMAIN add_dimension(e) = {"object_type", "ext_line1_point", "ext_line2_point"}
            /\ add_dimension(e)["ext_line1_point"] = At(e, "start")
            /\ add_dimension(e)["ext_line2_point"] = At(e, "end")
        BY DEF add_dimension
      <3> HIDE DEF style
      <3> QED
        BY <3>1, <3>2, <3>3
    <2>2. CASE e.kind \in {"radial_dimension", "diametric_dimension"}
      <3>1. Shape(e) = Merged(native_dimension(e), style)
        BY <2>2 DEF Shape
      <3>2. DefinitionChecks(e) = [n \in Requirements[e.kind] |-> At(e, n)]
        BY <2>2 DEF DefinitionChecks
      <3>3. Requirements[e.kind] = Indexed[e.kind] /\ "object_type" \notin Indexed[e.kind]
        BY <2>2 DEF Requirements, Indexed
      <3>4. /\ DOMAIN native_dimension(e) = Indexed[e.kind] \cup {"object_type"}
            /\ \A n \in Indexed[e.kind] : native_dimension(e)[n] = At(e, n)
        BY DEF native_dimension, Merged
      <3> HIDE DEF style
      <3> QED
        BY <3>1, <3>2, <3>3, <3>4
    <2> QED
      BY <2>1, <2>2 DEF DIMENSION_TYPES
  <1>4. PICK points :
           /\ Shape(e) = Merged(points, style)
           /\ DOMAIN points = DOMAIN DefinitionChecks(e) \cup {"object_type"}
           /\ \A n \in DOMAIN DefinitionChecks(e) : points[n] = DefinitionChecks(e)[n]
    BY <1>3
  <1> HIDE DEF style
  <1>5. /\ DOMAIN Shape(e) = DOMAIN points \cup DOMAIN style
        /\ \A n \in DOMAIN points : Shape(e)[n] = points[n]
        /\ \A n \in DOMAIN style \ DOMAIN points : Shape(e)[n] = style[n]
    BY <1>4 DEF Merged
  <1>6. \A n \in DOMAIN DefinitionChecks(e) : DimensionChecks(e)[n] = DefinitionChecks(e)[n]
    BY DimensionRows
  <1>7. DOMAIN DefinitionChecks(e) \subseteq
           {"ext_line1_point", "ext_line2_point", "center", "chord_point", "far_chord_point"}
    BY DimensionRows
  <1>8. /\ DimensionChecks(e)["text_override"] = e.text
        /\ DimensionChecks(e)["background_fill"] = e.background_fill
        /\ "text_height" \in DOMAIN e.dimensions =>
              DimensionChecks(e)["text_height"] = Value(e, "text_height")
        /\ "text_position" \in DOMAIN e.coordinates =>
              DimensionChecks(e)["text_position"] = At(e, "text_position")
    BY DimensionRows
  <1>9. DOMAIN DimensionChecks(e) \subseteq
           {"text_override", "background_fill", "measurement"} \cup DOMAIN DefinitionChecks(e)
           \cup ({"text_height"} \cap DOMAIN e.dimensions)
           \cup ({"text_position"} \cap DOMAIN e.coordinates)
    <2>1. DOMAIN DimensionChecks(e) =
             {"text_override", "background_fill"} \cup DOMAIN MeasurementCheck(e)
             \cup DOMAIN DefinitionChecks(e) \cup ({"text_height"} \cap DOMAIN e.dimensions)
             \cup ({"text_position"} \cap DOMAIN e.coordinates)
      BY DimensionRows
    <2>2. DOMAIN MeasurementCheck(e) \subseteq {"measurement"}
      BY DimensionRows
    <2> QED
      BY <2>1, <2>2
  <1>10. CASE name \in DOMAIN DefinitionChecks(e)
    BY <1>4, <1>5, <1>6, <1>10
  <1>11. CASE name \in {"text_override", "background_fill", "text_height", "text_position"}
    <2>1. name \in DOMAIN style \ DOMAIN points
      BY <1>1, <1>4, <1>7, <1>11
    <2>2. name \in DOMAIN Shape(e) /\ Shape(e)[name] = style[name]
      BY <1>5, <2>1
    <2>3. CASE name = "text_height"
      <3>1. "text_height" \in DOMAIN e.dimensions
        BY <1>7, <1>9, <2>3
      <3> QED
        BY <1>1, <1>8, <2>2, <2>3, <3>1
    <2>4. CASE name = "text_position"
      <3>1. "text_position" \in DOMAIN e.coordinates
        BY <1>7, <1>9, <2>4
      <3> QED
        BY <1>1, <1>2, <1>8, <2>2, <2>4, <3>1
    <2>5. CASE name \in {"text_override", "background_fill"}
      BY <1>1, <1>2, <1>8, <2>2, <2>5
    <2> QED
      BY <1>11, <2>3, <2>4, <2>5
  <1> QED
    BY <1>9, <1>10, <1>11

\* The properties and the type of what is drawn.
LEMMA ShapeNames ==
    ASSUME NEW e, Ready(e), e.operation = "create"
    PROVE  /\ DOMAIN Shape(e) \subseteq
                 (Changeable \ {"layer", "linetype"}) \cup {"object_type", "rotation"}
           /\ "object_type" \in DOMAIN Shape(e)
           /\ Shape(e).object_type \in ExpectedTypes(e.kind)
  <1>1. CASE e.kind \in {"line", "text", "rectangle", "polyline", "circle", "arc"}
    <2>1. /\ "object_type" \in DOMAIN Shape(e)
          /\ Shape(e).object_type \in ExpectedTypes(e.kind)
      BY <1>1 DEF Shape, ExpectedTypes, draw_line, draw_text, draw_polyline, draw_circle, draw_arc
    <2>2. DOMAIN Shape(e) \subseteq
             {"object_type", "start", "end", "position", "text", "text_height", "rotation",
              "closed", "vertices", "center", "radius", "start_angle", "end_angle"}
      BY <1>1 DEF Shape, draw_line, draw_text, draw_polyline, draw_circle, draw_arc
    <2> QED
      BY <2>1, <2>2 DEF Changeable, PointNames, AngleNames
  <1>2. CASE e.kind \in {"aligned_dimension", "linear_dimension"}
    <2>1. Shape(e) = Merged(add_dimension(e), DimensionStyle(e))
      BY <1>2 DEF Shape
    <2>2. /\ DOMAIN add_dimension(e) = {"object_type", "ext_line1_point", "ext_line2_point"}
          /\ add_dimension(e).object_type = "AcDbAlignedDimension"
          /\ DOMAIN DimensionStyle(e) =
                {"text_override", "background_fill", "text_height", "text_position"}
      BY DEF add_dimension, DimensionStyle
    <2>3. "AcDbAlignedDimension" \in ExpectedTypes(e.kind)
      BY <1>2 DEF ExpectedTypes
    <2>4. /\ DOMAIN Shape(e) = DOMAIN add_dimension(e) \cup DOMAIN DimensionStyle(e)
          /\ Shape(e).object_type = add_dimension(e).object_type
      BY <2>1, <2>2 DEF Merged
    <2> QED
      BY <2>2, <2>3, <2>4 DEF Changeable, PointNames, AngleNames
  <1>3. CASE e.kind \in {"radial_dimension", "diametric_dimension"}
    <2>1. Shape(e) = Merged(native_dimension(e), DimensionStyle(e))
      BY <1>3 DEF Shape
    <2>2. /\ Indexed[e.kind] \subseteq {"center", "chord_point", "far_chord_point"}
          /\ "object_type" \notin Indexed[e.kind]
      BY <1>3 DEF Indexed
    <2>3. /\ DOMAIN native_dimension(e) = Indexed[e.kind] \cup {"object_type"}
          /\ native_dimension(e).object_type
                = IF e.kind = "radial_dimension" THEN "AcDbRadialDimension"
                                                 ELSE "AcDbDiametricDimension"
      BY <2>2 DEF native_dimension, Merged
    <2>4. DOMAIN DimensionStyle(e) =
             {"text_override", "background_fill", "text_height", "text_position"}
      BY DEF DimensionStyle
    <2>5. native_dimension(e).object_type \in ExpectedTypes(e.kind)
      BY <1>3, <2>3 DEF ExpectedTypes
    <2>6. /\ DOMAIN Shape(e) = DOMAIN native_dimension(e) \cup DOMAIN DimensionStyle(e)
          /\ Shape(e).object_type = native_dimension(e).object_type
      BY <2>1, <2>3 DEF Merged
    <2> QED
      BY <2>2, <2>3, <2>4, <2>5, <2>6 DEF Changeable, PointNames, AngleNames
  <1> QED
    BY <1>1, <1>2, <1>3 DEF Ready, CanCreate, Indexed

\* A sequence of three is the function of its elements.
LEMMA TripleIsFunction ==
    ASSUME NEW u \in Seq(Int), DOMAIN u = 1 .. 3
    PROVE  u = [j \in 1 .. 3 |-> u[j]]
  <1>1. u = [j \in DOMAIN u |-> u[j]]
    OBVIOUS
  <1> QED
    BY <1>1

\* A polyline whose vertices have one elevation is drawn as planned.
LEMMA LevelPolyline ==
    ASSUME NEW v \in Seq(Seq(Int)),
           \A i \in 1 .. Len(v) : IsXYZ(v[i]) /\ v[i][3] = v[1][3]
    PROVE  AddPolyline(v) = v
  <1>1. \A i \in 1 .. Len(v) : [v[i] EXCEPT ![3] = v[1][3]] = v[i]
    <2> TAKE i \in 1 .. Len(v)
    <2> DEFINE w == [v[i] EXCEPT ![3] = v[1][3]]
    <2>1. v[i] \in Seq(Int) /\ DOMAIN v[i] = 1 .. 3
      BY DEF IsXYZ
    <2>2. v[i] = [j \in 1 .. 3 |-> v[i][j]]
      BY <2>1, TripleIsFunction
    <2>3. w = [j \in 1 .. 3 |-> v[i][j]]
      BY <2>1
    <2> QED
      BY <2>2, <2>3
  <1>2. AddPolyline(v) = [i \in 1 .. Len(v) |-> [v[i] EXCEPT ![3] = v[1][3]]]
    BY DEF AddPolyline
  <1>3. v = [i \in 1 .. Len(v) |-> v[i]]
    OBVIOUS
  <1> QED
    BY <1>1, <1>2, <1>3

\* Every property that is compared as it was drawn, was drawn as planned.
LEMMA StoredRow ==
    ASSUME NEW e, Ready(e), e.operation = "create", StatedTwiceAgrees(e),
           NEW name \in DOMAIN ShapeChecks(e) \cap Changeable
    PROVE  name \in DOMAIN Shape(e) /\ Shape(e)[name] = ShapeChecks(e)[name]
  <1>1. CASE e.kind \in DIMENSION_TYPES
    <2>1. ShapeChecks(e) = DimensionChecks(e)
      BY <1>1 DEF ShapeChecks, DIMENSION_TYPES
    <2>2. name # "measurement"
      BY DEF Changeable, PointNames, AngleNames
    <2> QED
      BY <1>1, <2>1, <2>2, DimensionDrawn
  <1>2. CASE e.kind = "line"
    <2>1. ShapeChecks(e) = [start |-> At(e, "start"), end |-> At(e, "end"),
                            length |-> Flat(At(e, "start"), At(e, "end"))]
      BY <1>2 DEF ShapeChecks
    <2>2. Shape(e) = draw_line(e)
      BY <1>2 DEF Shape
    <2>3. name \in {"start", "end"}
      BY <2>1 DEF Changeable, PointNames, AngleNames
    <2> QED
      BY <2>1, <2>2, <2>3 DEF draw_line
  <1>3. CASE e.kind = "text"
    <2>1. ShapeChecks(e) = [position |-> At(e, "position"), text |-> e.text,
                            text_height |-> Value(e, "height")]
      BY <1>3 DEF ShapeChecks
    <2>2. Shape(e) = draw_text(e)
      BY <1>3 DEF Shape
    <2> QED
      BY <2>1, <2>2 DEF draw_text
  <1>4. CASE e.kind = "circle"
    <2>1. ShapeChecks(e) = [center |-> At(e, "center"), radius |-> Value(e, "radius"),
                            diameter |-> 2 * Value(e, "radius")]
      BY <1>4 DEF ShapeChecks
    <2>2. Shape(e) = draw_circle(e)
      BY <1>4 DEF Shape
    <2>3. name \in {"center", "radius"}
      BY <2>1 DEF Changeable, PointNames, AngleNames
    <2> QED
      BY <2>1, <2>2, <2>3 DEF draw_circle
  <1>5. CASE e.kind = "arc"
    <2>1. ShapeChecks(e) = Merged([center |-> At(e, "center")],
                                  Optional(e, {"radius", "start_angle", "end_angle"}))
      BY <1>5 DEF ShapeChecks
    <2>2. Shape(e) = draw_arc(e)
      BY <1>5 DEF Shape
    <2>3. name = "center" \/ name \in {"radius", "start_angle", "end_angle"}
      BY <2>1 DEF Merged, Optional
    <2>4. name \in {"radius", "start_angle", "end_angle"} =>
             ShapeChecks(e)[name] = Value(e, name)
      BY <2>1 DEF Merged, Optional
    <2>5. name = "center" => ShapeChecks(e)[name] = At(e, "center")
      BY <2>1 DEF Merged, Optional
    <2> QED
      BY <2>2, <2>3, <2>4, <2>5 DEF draw_arc
  <1>6. CASE e.kind = "rectangle"
    <2> DEFINE p == At(e, "corner1")
               q == At(e, "corner2")
               v == Corners(p, q)
               fixed == [closed |-> TRUE, vertices |-> v, vertex_count |-> 5]
    <2>1. ShapeChecks(e) = Merged(fixed, Optional(e, {"width", "height"}))
      BY <1>6 DEF ShapeChecks
    <2>2. Shape(e) = draw_polyline(v, TRUE)
      BY <1>6 DEF Shape
    <2>3. DOMAIN Optional(e, {"width", "height"}) \subseteq {"width", "height"}
      BY DEF Optional
    <2>4. name \in {"closed", "vertices"} /\ ShapeChecks(e)[name] = fixed[name]
      BY <2>1, <2>3 DEF Merged, Changeable, PointNames, AngleNames
    <2>5. AddPolyline(v) = v
      <3>1. p[3] = q[3]
        BY <1>6 DEF StatedTwiceAgrees
      <3>2. IsXYZ(p) /\ IsXYZ(q)
        BY <1>6, AtTyped DEF Ready, CanCreate, Indexed
      <3>3. v \in Seq(Seq(Int)) /\ Len(v) = 5
        BY <3>2 DEF Corners, IsXYZ
      <3>4. \A i \in 1 .. 5 : IsXYZ(v[i]) /\ v[i][3] = v[1][3]
        BY <3>1, <3>2 DEF Corners, IsXYZ
      <3> HIDE DEF v
      <3> QED
        BY <3>3, <3>4, LevelPolyline
    <2>6. fixed["closed"] = TRUE /\ fixed["vertices"] = v
      OBVIOUS
    <2>7. /\ {"closed", "vertices"} \subseteq DOMAIN Shape(e)
          /\ Shape(e)["closed"] = TRUE /\ Shape(e)["vertices"] = v
      <3> HIDE DEF v
      <3> QED
        BY <2>2, <2>5 DEF draw_polyline
    <2> HIDE DEF fixed, v
    <2> QED
      BY <2>4, <2>6, <2>7
  <1>7. CASE e.kind = "polyline"
    <2> DEFINE points == e.coordinates["points"]
               v == Vertices(e)
               more == [n \in {"closed"} \cap DOMAIN e.dimensions |-> IsClosed(e)]
               fixed == [vertices |-> v, vertex_count |-> Len(v)]
    <2>1. ShapeChecks(e) = Merged(fixed, more)
      BY <1>7 DEF ShapeChecks
    <2>2. Shape(e) = draw_polyline(v, IsClosed(e))
      BY <1>7 DEF Shape
    <2>3. /\ DOMAIN more \subseteq {"closed"}
          /\ "closed" \in DOMAIN more => more["closed"] = IsClosed(e)
      OBVIOUS
    <2> HIDE DEF more
    <2>4. \/ name = "vertices" /\ ShapeChecks(e)[name] = v
          \/ name = "closed" /\ ShapeChecks(e)[name] = IsClosed(e)
      BY <2>1, <2>3 DEF Merged, Changeable, PointNames, AngleNames
    <2>5. AddPolyline(v) = v
      <3>1. /\ "points" \in DOMAIN e.coordinates /\ points \in Seq(Seq(Int)) /\ Len(points) >= 2
            /\ \A i \in 1 .. Len(points) : IsPoint(points[i])
        BY <1>7 DEF Ready, Typed, CanCreate, DrawsNothingInvalid
      <3>2. v = [i \in 1 .. Len(points) |-> XYZ(points[i])]
        BY DEF Vertices
      <3>3. \A i \in 1 .. Len(points) : XYZ(points[i]) \in Seq(Int) /\ IsXYZ(XYZ(points[i]))
        <4> TAKE i \in 1 .. Len(points)
        <4>1. points[i] \in Seq(Int) /\ IsPoint(points[i])
          BY <3>1
        <4>2. XYZ(points[i]) \in Seq(Int)
          BY <4>1 DEF XYZ
        <4> QED
          BY <4>1, <4>2, XYZTyped
      <3>4. \A i \in 1 .. Len(v) : v[i][3] = v[1][3]
        BY <1>7 DEF StatedTwiceAgrees
      <3> HIDE DEF points, v
      <3>5. v \in Seq(Seq(Int)) /\ Len(v) = Len(points)
        BY <3>1, <3>2, <3>3
      <3> QED
        BY <3>2, <3>3, <3>4, <3>5, LevelPolyline
    <2> HIDE DEF v
    <2> QED
      BY <2>2, <2>4, <2>5 DEF draw_polyline
  <1> QED
    BY <1>1, <1>2, <1>3, <1>4, <1>5, <1>6, <1>7 DEF Ready, CanCreate, Indexed, DIMENSION_TYPES

\* A created object has the shape of the plan, with a layer and a linetype.
LEMMA CreatedValues ==
    ASSUME NEW e, Ready(e), e.operation = "create", NEW layer
    PROVE  /\ DOMAIN Created(e, layer) = {"layer", "linetype"} \cup DOMAIN Shape(e)
           /\ \A name \in DOMAIN Shape(e) : Created(e, layer)[name] = Shape(e)[name]
           /\ e.linetype # "" => Created(e, layer)["linetype"] = e.linetype
           /\ DOMAIN Created(e, layer) \subseteq Changeable \cup {"object_type", "rotation"}
           /\ Created(e, layer)["object_type"] = Shape(e)["object_type"]
  <1> DEFINE common == [layer |-> layer,
                        linetype |-> IF e.linetype = "" THEN "bylayer" ELSE e.linetype]
  <1>1. Created(e, layer) = Merged(common, Shape(e))
    BY DEF Created
  <1>2. DOMAIN Shape(e) \subseteq
           (Changeable \ {"layer", "linetype"}) \cup {"object_type", "rotation"}
    BY ShapeNames
  <1>3. /\ DOMAIN common = {"layer", "linetype"}
        /\ e.linetype # "" => common["linetype"] = e.linetype
    OBVIOUS
  <1>4. {"layer", "linetype"} \subseteq Changeable
    BY DEF Changeable
  <1> HIDE DEF common
  <1>5. "layer" \notin DOMAIN Shape(e) /\ "linetype" \notin DOMAIN Shape(e)
    BY <1>2
  <1>6. /\ DOMAIN Created(e, layer) = DOMAIN common \cup DOMAIN Shape(e)
        /\ \A name \in DOMAIN common : Created(e, layer)[name] = common[name]
        /\ \A name \in DOMAIN Shape(e) \ DOMAIN common : Created(e, layer)[name] = Shape(e)[name]
    BY <1>1 DEF Merged
  <1>7. \A name \in DOMAIN Shape(e) : Created(e, layer)[name] = Shape(e)[name]
    BY <1>3, <1>5, <1>6
  <1>8. "object_type" \in DOMAIN Shape(e)
    BY ShapeNames
  <1> QED
    BY <1>2, <1>3, <1>4, <1>6, <1>7, <1>8

\* The length of a line and the measurement of a dimension.
LEMMA NativeLength ==
    ASSUME NEW y, y["object_type"] = "AcDbLine", "length" \notin DOMAIN y
    PROVE  "length" \in DOMAIN Native(y) /\ Native(y)["length"] = Spatial(y["start"], y["end"])
  <1>1. Ends(y) = <<y["start"], y["end"]>>
    BY DEF Ends
  <1>2. Native(y) = Merged(y, [length |-> Spatial(y["start"], y["end"])])
    BY <1>1 DEF Native
  <1> QED
    BY <1>2 DEF Merged

EndNames ==
    [AcDbAlignedDimension |-> <<"ext_line1_point", "ext_line2_point">>,
     AcDbDiametricDimension |-> <<"chord_point", "far_chord_point">>,
     AcDbRadialDimension |-> <<"center", "chord_point">>]

\* A dimension measures the distance of its two points in the plane.
LEMMA NativeMeasurement ==
    ASSUME NEW y, y["object_type"] \in DOMAIN EndNames, "measurement" \notin DOMAIN y
    PROVE  /\ "measurement" \in DOMAIN Native(y)
           /\ Native(y)["measurement"] =
                 Flat(y[EndNames[y["object_type"]][1]], y[EndNames[y["object_type"]][2]])
  <1> DEFINE a == y[EndNames[y["object_type"]][1]]
             b == y[EndNames[y["object_type"]][2]]
  <1>1. Ends(y) = <<a, b>> /\ y["object_type"] # "AcDbLine"
    BY DEF Ends, EndNames
  <1> HIDE DEF a, b
  <1>2. Native(y) = Merged(y, [measurement |-> Flat(a, b)])
    BY <1>1 DEF Native
  <1>3. "measurement" \in DOMAIN Native(y) /\ Native(y)["measurement"] = Flat(a, b)
    BY <1>2 DEF Merged
  <1> QED
    BY <1>3 DEF a, b

\* The length of a line, one end of which may have been moved.
LEMMA LineLength ==
    ASSUME NEW e, Ready(e), e.operation = "create", e.kind = "line", StatedTwiceAgrees(e),
           NEW layer, NEW x, Nearly(Created(e, layer), x), NEW lt
    PROVE  /\ "length" \in DOMAIN Observed(x, {"none"}, lt)
           /\ Passes("length", ShapeChecks(e)["length"], Observed(x, {"none"}, lt)["length"])
  <1> DEFINE o == Created(e, layer)
             p == At(e, "start")
             q == At(e, "end")
  <1>1. /\ DOMAIN Shape(e) = {"object_type", "start", "end"}
        /\ Shape(e)["object_type"] = "AcDbLine"
        /\ Shape(e)["start"] = p /\ Shape(e)["end"] = q
    BY DEF Shape, draw_line
  <1>2. ShapeChecks(e)["length"] = Flat(p, q)
    BY DEF ShapeChecks
  <1>3. IsXYZ(p) /\ IsXYZ(q) /\ p[3] = q[3]
    BY AtTyped DEF Ready, CanCreate, Indexed, StatedTwiceAgrees
  <1> HIDE DEF p, q
  <1>4. /\ {"start", "end", "object_type"} \subseteq DOMAIN o
        /\ o["start"] = p /\ o["end"] = q /\ o["object_type"] = "AcDbLine"
        /\ DOMAIN o \subseteq Changeable \cup {"object_type", "rotation"}
    <2>1. /\ DOMAIN o = {"layer", "linetype"} \cup DOMAIN Shape(e)
          /\ \A name \in DOMAIN Shape(e) : o[name] = Shape(e)[name]
          /\ DOMAIN o \subseteq Changeable \cup {"object_type", "rotation"}
      BY CreatedValues
    <2> HIDE DEF o
    <2> QED
      BY <1>1, <2>1
  <1> HIDE DEF o
  <1>5. Nearly(o, x)
    BY DEF o
  <1>6. DOMAIN x = DOMAIN o /\ x["object_type"] = "AcDbLine"
    BY <1>4, <1>5, NearlyFacts, NearlyFixed DEF PointNames, AngleNames
  <1>7. WithinRoots(Flat(p, q), Spatial(x["start"], x["end"]))
    <2>1. {"start", "end"} \subseteq PointNames
      BY DEF PointNames
    <2> QED
      BY <1>3, <1>4, <1>5, <2>1, NearlyDistance
  <1>8. "length" \in DOMAIN Native(x) /\ Native(x)["length"] = Spatial(x["start"], x["end"])
    <2>1. "length" \notin DOMAIN x
      BY <1>4, <1>6 DEF Changeable, PointNames, AngleNames
    <2> QED
      BY <1>6, <2>1, NativeLength
  <1>9. /\ "length" \in DOMAIN Observed(x, {"none"}, lt)
        /\ Observed(x, {"none"}, lt)["length"] = Native(x)["length"]
    BY <1>4, <1>6, <1>8, ObservedValues
  <1> QED
    BY <1>2, <1>7, <1>8, <1>9
    DEF Passes, PointNames, AngleNames, RootNames, NumberNames, SetNames

\* The measurement of a dimension, one point of which may have been moved.
LEMMA CreatedMeasurement ==
    ASSUME NEW e, Ready(e), e.operation = "create", e.kind \in DIMENSION_TYPES,
           StatedTwiceAgrees(e), "measurement" \in DOMAIN MeasurementCheck(e),
           NEW layer, NEW x, Nearly(Created(e, layer), x), NEW lt
    PROVE  /\ "measurement" \in DOMAIN Observed(x, {"none"}, lt)
           /\ Passes("measurement", MeasurementCheck(e)["measurement"],
                     Observed(x, {"none"}, lt)["measurement"])
  <1> DEFINE o == Created(e, layer)
             s == Shape(e)
             n1 == EndNames[s["object_type"]][1]
             n2 == EndNames[s["object_type"]][2]
  <1>1. /\ s["object_type"] \in DOMAIN EndNames /\ n1 # n2
        /\ {n1, n2} \subseteq DOMAIN s \cap PointNames
        /\ IsXYZ(s[n1]) /\ IsXYZ(s[n2])
    <2>1. s["object_type"] \in ExpectedTypes(e.kind)
      BY ShapeNames
    <2>2. CASE e.kind \in {"aligned_dimension", "linear_dimension"}
      <3>1. s = Merged(add_dimension(e), DimensionStyle(e))
        BY <2>2 DEF Shape
      <3>2. /\ DOMAIN add_dimension(e) = {"object_type", "ext_line1_point", "ext_line2_point"}
            /\ add_dimension(e)["object_type"] = "AcDbAlignedDimension"
            /\ add_dimension(e)["ext_line1_point"] = At(e, "start")
            /\ add_dimension(e)["ext_line2_point"] = At(e, "end")
        BY DEF add_dimension
      <3>3. /\ DOMAIN add_dimension(e) \subseteq DOMAIN s
            /\ \A n \in DOMAIN add_dimension(e) : s[n] = add_dimension(e)[n]
        BY <3>1 DEF Merged
      <3>4. IsXYZ(At(e, "start")) /\ IsXYZ(At(e, "end"))
        BY <2>2, AtTyped DEF Ready, CanCreate, Indexed
      <3>5. s["object_type"] = "AcDbAlignedDimension"
        BY <3>2, <3>3
      <3> HIDE DEF s
      <3> QED
        BY <3>2, <3>3, <3>4, <3>5 DEF EndNames, PointNames
    <2>3. CASE e.kind \in {"radial_dimension", "diametric_dimension"}
      <3>1. s = Merged(native_dimension(e), DimensionStyle(e))
        BY <2>3 DEF Shape
      <3>2. "object_type" \notin Indexed[e.kind] /\ Indexed[e.kind] \subseteq PointNames
        BY <2>3 DEF Indexed, PointNames
      <3>3. /\ DOMAIN native_dimension(e) = Indexed[e.kind] \cup {"object_type"}
            /\ \A n \in Indexed[e.kind] : native_dimension(e)[n] = At(e, n)
            /\ native_dimension(e)["object_type"]
                  = IF e.kind = "radial_dimension" THEN "AcDbRadialDimension"
                                                   ELSE "AcDbDiametricDimension"
        BY <3>2 DEF native_dimension, Merged
      <3>4. /\ DOMAIN native_dimension(e) \subseteq DOMAIN s
            /\ \A n \in DOMAIN native_dimension(e) : s[n] = native_dimension(e)[n]
        BY <3>1 DEF Merged
      <3>5. \A n \in Indexed[e.kind] : n \in DOMAIN s \cap PointNames /\ IsXYZ(s[n])
        <4>1. \A n \in Indexed[e.kind] : n # "points" /\ Has(e, n)
          BY <3>2 DEF Ready, CanCreate, PointNames
        <4>2. \A n \in Indexed[e.kind] : IsXYZ(At(e, n))
          BY <4>1, AtTyped DEF Ready
        <4> HIDE DEF s
        <4> QED
          BY <3>2, <3>3, <3>4, <4>2
      <3>6. s["object_type"] = native_dimension(e)["object_type"]
        BY <3>3, <3>4
      <3> HIDE DEF s
      <3>7. CASE e.kind = "radial_dimension"
        <4>1. Indexed[e.kind] = {"center", "chord_point"}
          BY <3>7 DEF Indexed
        <4> QED
          BY <3>3, <3>5, <3>6, <3>7, <4>1 DEF EndNames
      <3>8. CASE e.kind = "diametric_dimension"
        <4>1. Indexed[e.kind] = {"chord_point", "far_chord_point"}
          BY <3>8 DEF Indexed
        <4> QED
          BY <3>3, <3>5, <3>6, <3>8, <4>1 DEF EndNames
      <3> QED
        BY <2>3, <3>7, <3>8
    <2> QED
      BY <2>2, <2>3 DEF DIMENSION_TYPES
  <1>2. MeasurementCheck(e)["measurement"] = Flat(s[n1], s[n2])
    <2>1. MeasurementCheck(e) # << >>
      <3>1. DOMAIN << >> = {}
        OBVIOUS
      <3> QED
        BY <3>1
    <2>2. MeasurementCheck(e).measurement = Native(Shape(e)).measurement
      BY <2>1 DEF StatedTwiceAgrees
    <2>3. "measurement" \notin DOMAIN s
      BY ShapeNames DEF Changeable, PointNames, AngleNames
    <2> HIDE DEF s
    <2>4. Native(s)["measurement"] = Flat(s[n1], s[n2])
      BY <1>1, <2>3, NativeMeasurement
    <2> QED
      BY <2>2, <2>4 DEF s
  <1>3. /\ {n1, n2, "object_type"} \subseteq DOMAIN o
        /\ o[n1] = s[n1] /\ o[n2] = s[n2] /\ o["object_type"] = s["object_type"]
        /\ DOMAIN o \subseteq Changeable \cup {"object_type", "rotation"}
    <2>1. "object_type" \in DOMAIN s
      BY ShapeNames
    <2>2. /\ DOMAIN o = {"layer", "linetype"} \cup DOMAIN s
          /\ \A name \in DOMAIN s : o[name] = s[name]
          /\ DOMAIN o \subseteq Changeable \cup {"object_type", "rotation"}
      BY CreatedValues
    <2> HIDE DEF o, s
    <2> QED
      BY <1>1, <2>1, <2>2
  <1>4. Nearly(o, x)
    OBVIOUS
  <1> HIDE DEF o
  <1>5. DOMAIN x = DOMAIN o /\ x["object_type"] = s["object_type"]
    BY <1>3, <1>4, NearlyFacts, NearlyFixed DEF PointNames, AngleNames
  <1>6. WithinRoots(Flat(s[n1], s[n2]), Flat(x[n1], x[n2]))
    BY <1>1, <1>3, <1>4, NearlyDistance
  <1>7. "measurement" \notin DOMAIN x
    BY <1>3, <1>5 DEF Changeable, PointNames, AngleNames
  <1> HIDE DEF s
  <1>8. "measurement" \in DOMAIN Native(x) /\ Native(x)["measurement"] = Flat(x[n1], x[n2])
    BY <1>1, <1>5, <1>7, NativeMeasurement
  <1>9. /\ "measurement" \in DOMAIN Observed(x, {"none"}, lt)
        /\ Observed(x, {"none"}, lt)["measurement"] = Native(x)["measurement"]
    BY <1>3, <1>5, <1>8, ObservedValues
  <1> QED
    BY <1>2, <1>6, <1>8, <1>9
    DEF Passes, PointNames, AngleNames, RootNames, NumberNames, SetNames

\* The diameter of a circle, whose radius may have been changed.
LEMMA CircleDiameter ==
    ASSUME NEW e, Ready(e), e.operation = "create", e.kind = "circle",
           NEW layer, NEW x, Nearly(Created(e, layer), x), NEW lt
    PROVE  /\ "diameter" \in DOMAIN Observed(x, {"none"}, lt)
           /\ Passes("diameter", ShapeChecks(e)["diameter"], Observed(x, {"none"}, lt)["diameter"])
  <1> DEFINE o == Created(e, layer)
             radius == Value(e, "radius")
  <1>1. /\ DOMAIN Shape(e) = {"object_type", "center", "radius"}
        /\ Shape(e)["object_type"] = "AcDbCircle" /\ Shape(e)["radius"] = radius
    BY DEF Shape, draw_circle
  <1>2. ShapeChecks(e)["diameter"] = 2 * radius /\ radius \in Int
    BY DEF ShapeChecks, Ready, Typed, CanCreate, Read, Indexed, Value
  <1> HIDE DEF radius
  <1>3. /\ "radius" \in DOMAIN o /\ o["radius"] = radius /\ o["object_type"] = "AcDbCircle"
        /\ DOMAIN o \subseteq Changeable \cup {"object_type", "rotation"}
    <2>1. /\ DOMAIN o = {"layer", "linetype"} \cup DOMAIN Shape(e)
          /\ \A name \in DOMAIN Shape(e) : o[name] = Shape(e)[name]
          /\ DOMAIN o \subseteq Changeable \cup {"object_type", "rotation"}
      BY CreatedValues
    <2> HIDE DEF o
    <2> QED
      BY <1>1, <2>1
  <1> HIDE DEF o
  <1>4. Nearly(o, x)
    BY DEF o
  <1>5. PICK d \in Int : 2 * Abs(d) <= Tolerance /\ x["radius"] = radius + d
    <2>1. CASE x["radius"] = radius
      <3>1. 2 * Abs(0) <= Tolerance /\ radius = radius + 0
        BY <1>2, ToleranceAssumption DEF Abs
      <3> QED
        BY <2>1, <3>1
    <2>2. CASE x["radius"] # radius
      <3>1. PICK d \in Int : IsSlight(o, "radius", d) /\ x["radius"] \in Moved("radius", radius, d)
        BY <1>3, <1>4, <2>2, NearlyFacts
      <3>2. x["radius"] = radius + d
        BY <3>1 DEF Moved, PointNames, AngleNames
      <3> QED
        BY <1>3, <3>1, <3>2 DEF IsSlight
    <2> QED
      BY <2>1, <2>2
  <1>6. /\ "diameter" \in DOMAIN Observed(x, {"none"}, lt)
        /\ Observed(x, {"none"}, lt)["diameter"] = 2 * x["radius"]
    BY <1>3, <1>4, NearlyFacts, ObservedValues
  <1>7. Abs(2 * radius - 2 * (radius + d)) = 2 * Abs(d)
    BY <1>2 DEF Abs
  <1>8. Abs(2 * radius - 2 * x["radius"]) <= Tolerance
    BY <1>5, <1>7
  <1> QED
    BY <1>2, <1>6, <1>8 DEF Passes, PointNames, AngleNames, RootNames, NumberNames, SetNames

\* The number of vertices does not change.
LEMMA VertexCount ==
    ASSUME NEW v, TypedValue("vertices", v), NEW o, NEW x, Nearly(o, x),
           "vertices" \in DOMAIN o, o["vertices"] = v,
           DOMAIN o \subseteq Changeable \cup {"object_type", "rotation"}, NEW lt
    PROVE  /\ "vertex_count" \in DOMAIN Observed(x, {"none"}, lt)
           /\ Passes("vertex_count", Len(v), Observed(x, {"none"}, lt)["vertex_count"])
  <1>1. "vertices" \in DOMAIN x /\ DOMAIN x = DOMAIN o
    BY NearlyFacts
  <1>2. Len(x["vertices"]) = Len(v)
    BY NearlyVertices, ShiftedLength
  <1>3. /\ "vertex_count" \in DOMAIN Observed(x, {"none"}, lt)
        /\ Observed(x, {"none"}, lt)["vertex_count"] = Len(x["vertices"])
    BY <1>1, ObservedValues
  <1>4. Len(v) \in Nat
    BY DEF TypedValue
  <1>5. Abs(Len(v) - Len(v)) <= Tolerance
    BY <1>4, ToleranceAssumption DEF Abs
  <1> QED
    BY <1>2, <1>3, <1>5 DEF Passes, PointNames, AngleNames, RootNames, NumberNames, SetNames

\* The rows of a rectangle that are computed from its vertices.
LEMMA RectangleRows ==
    ASSUME NEW e, Ready(e), e.operation = "create", e.kind = "rectangle", StatedTwiceAgrees(e),
           NEW layer, NEW x, Nearly(Created(e, layer), x), NEW lt,
           NEW name \in {"vertex_count", "width", "height"} \cap DOMAIN ShapeChecks(e)
    PROVE  /\ name \in DOMAIN Observed(x, {"none"}, lt)
           /\ Passes(name, ShapeChecks(e)[name], Observed(x, {"none"}, lt)[name])
  <1> DEFINE o == Created(e, layer)
             p == At(e, "corner1")
             q == At(e, "corner2")
             fixed == [closed |-> TRUE, vertices |-> Corners(p, q), vertex_count |-> 5]
             extent == Optional(e, {"width", "height"})
             observed == Observed(x, {"none"}, lt)
  <1>1. ShapeChecks(e) = Merged(fixed, extent)
    BY DEF ShapeChecks
  <1>2. /\ DOMAIN extent = {"width", "height"} \cap DOMAIN e.dimensions
        /\ \A n \in DOMAIN extent : extent[n] = Value(e, n)
    BY DEF Optional
  <1>3. DOMAIN fixed = {"closed", "vertices", "vertex_count"} /\ fixed["vertex_count"] = 5
        /\ fixed["vertices"] = Corners(p, q)
    OBVIOUS
  <1>4. IsXYZ(p) /\ IsXYZ(q)
    BY AtTyped DEF Ready, CanCreate, Indexed
  <1> HIDE DEF fixed, extent
  <1>5. /\ ShapeChecks(e)["vertex_count"] = 5
        /\ ShapeChecks(e)["vertices"] = Corners(p, q)
        /\ {"vertices", "vertex_count"} \subseteq DOMAIN ShapeChecks(e)
        /\ \A n \in {"width", "height"} \cap DOMAIN ShapeChecks(e) :
              n \in DOMAIN e.dimensions /\ ShapeChecks(e)[n] = Value(e, n)
    BY <1>1, <1>2, <1>3 DEF Merged
  <1>6. /\ "width" \in DOMAIN e.dimensions => Value(e, "width") = Abs(p[1] - q[1])
        /\ "height" \in DOMAIN e.dimensions => Value(e, "height") = Abs(p[2] - q[2])
    BY DEF StatedTwiceAgrees
  <1>7. "vertices" \in DOMAIN Shape(e) /\ Shape(e)["vertices"] = Corners(p, q)
    BY <1>5, StoredRow DEF Changeable
  <1> HIDE DEF p, q
  <1>8. /\ "vertices" \in DOMAIN o /\ o["vertices"] = Corners(p, q)
        /\ DOMAIN o \subseteq Changeable \cup {"object_type", "rotation"}
    <2>1. /\ DOMAIN o = {"layer", "linetype"} \cup DOMAIN Shape(e)
          /\ \A n \in DOMAIN Shape(e) : o[n] = Shape(e)[n]
          /\ DOMAIN o \subseteq Changeable \cup {"object_type", "rotation"}
      BY CreatedValues
    <2> HIDE DEF o
    <2> QED
      BY <1>7, <2>1
  <1> HIDE DEF o
  <1>9. Nearly(o, x)
    BY DEF o
  <1>10. "vertices" \in DOMAIN x /\ DOMAIN x = DOMAIN o
    BY <1>8, <1>9, NearlyFacts
  <1>11. /\ Len(x["vertices"]) = 5
         /\ Abs(Abs(p[1] - q[1]) - Extent(Xs(x["vertices"]))) <= Tolerance
         /\ Abs(Abs(p[2] - q[2]) - Extent(Ys(x["vertices"]))) <= Tolerance
    <2>1. PICK d \in Int :
             /\ Abs(d) <= Tolerance
             /\ \/ x["vertices"] = Corners(p, q)
                \/ x["vertices"] \in ShiftedVertices(Corners(p, q), d)
      BY <1>8, <1>9, NearlyVertices
    <2> QED
      BY <1>4, <2>1, RectangleExtent
  <1>12. /\ {"vertex_count", "width", "height"} \subseteq DOMAIN observed
         /\ observed["vertex_count"] = Len(x["vertices"])
         /\ observed["width"] = Extent(Xs(x["vertices"]))
         /\ observed["height"] = Extent(Ys(x["vertices"]))
    BY <1>8, <1>10, ObservedValues
  <1> HIDE DEF observed
  <1>13. Abs(5 - 5) <= Tolerance
    BY ToleranceAssumption DEF Abs
  <1>14. \A n \in {"vertex_count", "width", "height"} : \A target, actual :
            Abs(target - actual) <= Tolerance => Passes(n, target, actual)
    BY DEF Passes, PointNames, AngleNames, RootNames, NumberNames, SetNames
  <1>15. CASE name = "vertex_count"
    <2>1. Passes("vertex_count", 5, 5)
      BY <1>13, <1>14
    <2> QED
      BY <1>5, <1>11, <1>12, <1>15, <2>1 DEF observed
  <1>16. CASE name = "width"
    <2>1. ShapeChecks(e)["width"] = Abs(p[1] - q[1])
      BY <1>5, <1>6, <1>16
    <2>2. Passes("width", Abs(p[1] - q[1]), Extent(Xs(x["vertices"])))
      BY <1>11, <1>14
    <2> QED
      BY <1>12, <1>16, <2>1, <2>2 DEF observed
  <1>17. CASE name = "height"
    <2>1. ShapeChecks(e)["height"] = Abs(p[2] - q[2])
      BY <1>5, <1>6, <1>17
    <2>2. Passes("height", Abs(p[2] - q[2]), Extent(Ys(x["vertices"])))
      BY <1>11, <1>14
    <2> QED
      BY <1>12, <1>17, <2>1, <2>2 DEF observed
  <1> QED
    BY <1>15, <1>16, <1>17

\* The row of a polyline that is computed from its vertices.
LEMMA PolylineCount ==
    ASSUME NEW e, Ready(e), e.operation = "create", e.kind = "polyline", StatedTwiceAgrees(e),
           NEW layer, NEW x, Nearly(Created(e, layer), x), NEW lt
    PROVE  /\ "vertex_count" \in DOMAIN Observed(x, {"none"}, lt)
           /\ Passes("vertex_count", ShapeChecks(e)["vertex_count"],
                     Observed(x, {"none"}, lt)["vertex_count"])
  <1> DEFINE o == Created(e, layer)
             v == Vertices(e)
  <1>1. /\ {"vertices", "vertex_count"} \subseteq DOMAIN ShapeChecks(e)
        /\ ShapeChecks(e)["vertices"] = v /\ ShapeChecks(e)["vertex_count"] = Len(v)
    BY DEF ShapeChecks, Merged
  <1> HIDE DEF v
  <1>2. TypedValue("vertices", v)
    BY <1>1, PolylineFacts
  <1>3. "vertices" \in DOMAIN Shape(e) /\ Shape(e)["vertices"] = v
    BY <1>1, StoredRow DEF Changeable
  <1>4. /\ "vertices" \in DOMAIN o /\ o["vertices"] = v
        /\ DOMAIN o \subseteq Changeable \cup {"object_type", "rotation"}
    <2>1. /\ DOMAIN o = {"layer", "linetype"} \cup DOMAIN Shape(e)
          /\ \A n \in DOMAIN Shape(e) : o[n] = Shape(e)[n]
          /\ DOMAIN o \subseteq Changeable \cup {"object_type", "rotation"}
      BY CreatedValues
    <2> HIDE DEF o
    <2> QED
      BY <1>3, <2>1
  <1> HIDE DEF o
  <1>5. Nearly(o, x)
    BY DEF o
  <1> QED
    BY <1>1, <1>2, <1>4, <1>5, VertexCount

\* Every row of the shape of what was created.
LEMMA ShapeRow ==
    ASSUME NEW e, Ready(e), e.operation = "create", StatedTwiceAgrees(e),
           NEW layer, NEW x, Nearly(Created(e, layer), x), NEW lt,
           NEW name \in DOMAIN ShapeChecks(e)
    PROVE  /\ name \in DOMAIN Observed(x, {"none"}, lt)
           /\ Passes(name, ShapeChecks(e)[name], Observed(x, {"none"}, lt)[name])
  <1> DEFINE o == Created(e, layer)
             observed == Observed(x, {"none"}, lt)
  <1>1. CASE name \in Changeable
    <2>1. name \in DOMAIN Shape(e) /\ Shape(e)[name] = ShapeChecks(e)[name]
      BY <1>1, StoredRow
    <2>2. /\ DOMAIN o = {"layer", "linetype"} \cup DOMAIN Shape(e)
          /\ \A n \in DOMAIN Shape(e) : o[n] = Shape(e)[n]
          /\ DOMAIN o \subseteq Changeable \cup {"object_type", "rotation"}
      BY CreatedValues
    <2>3. TypedValue(name, ShapeChecks(e)[name])
      <3>1. CASE e.kind \in DIMENSION_TYPES
        <4>1. ShapeChecks(e) = DimensionChecks(e)
          BY <3>1 DEF ShapeChecks, DIMENSION_TYPES
        <4> QED
          BY <3>1, <4>1, DimensionFacts
      <3>2. CASE e.kind \notin DIMENSION_TYPES
        BY <3>2, LineFacts, TextFacts, RectangleFacts, PolylineFacts, CircleFacts, ArcFacts
        DEF Ready, CanCreate, Indexed, DIMENSION_TYPES
      <3> QED
        BY <3>1, <3>2
    <2>4. Nearly(o, x)
      OBVIOUS
    <2> HIDE DEF o
    <2>5. name \in DOMAIN o /\ o[name] = ShapeChecks(e)[name]
      BY <2>1, <2>2
    <2>6. Passes(name, o[name], x[name])
      BY <1>1, <2>3, <2>4, <2>5, NearlyPasses
    <2>7. DOMAIN x = DOMAIN o
      BY <2>4, NearlyFacts
    <2>8. name \in DOMAIN observed /\ observed[name] = x[name]
      BY <2>2, <2>5, <2>7, ObservedValues
    <2> QED
      BY <2>5, <2>6, <2>8
  <1>2. CASE name \notin Changeable
    <2>1. CASE e.kind \in DIMENSION_TYPES
      <3>1. ShapeChecks(e) = DimensionChecks(e)
        BY <2>1 DEF ShapeChecks, DIMENSION_TYPES
      <3>2. name \in DOMAIN MeasurementCheck(e) /\ name = "measurement"
        <4>1. DOMAIN DimensionChecks(e) \subseteq
                 DOMAIN MeasurementCheck(e) \cup DOMAIN DefinitionChecks(e)
                 \cup {"text_override", "background_fill", "text_height", "text_position"}
          BY <2>1, DimensionRows
        <4>2. /\ DOMAIN MeasurementCheck(e) \subseteq {"measurement"}
              /\ DOMAIN DefinitionChecks(e) \subseteq
                   {"ext_line1_point", "ext_line2_point", "center", "chord_point",
                    "far_chord_point"}
          BY <2>1, DimensionRows
        <4> QED
          BY <1>2, <3>1, <4>1, <4>2 DEF Changeable, PointNames, AngleNames
      <3>3. DimensionChecks(e)[name] = MeasurementCheck(e)[name]
        BY <2>1, <3>2, DimensionRows
      <3> QED
        BY <2>1, <3>1, <3>2, <3>3, CreatedMeasurement
    <2>2. CASE e.kind = "line"
      <3>1. name = "length"
        BY <1>2, <2>2 DEF ShapeChecks, Changeable, PointNames, AngleNames
      <3> QED
        BY <2>2, <3>1, LineLength
    <2>3. CASE e.kind = "text"
      BY <1>2, <2>3 DEF ShapeChecks, Changeable, PointNames, AngleNames
    <2>4. CASE e.kind = "circle"
      <3>1. name = "diameter"
        BY <1>2, <2>4 DEF ShapeChecks, Changeable, PointNames, AngleNames
      <3> QED
        BY <2>4, <3>1, CircleDiameter
    <2>5. CASE e.kind = "arc"
      <3>1. name \in {"center", "radius", "start_angle", "end_angle"}
        BY <2>5 DEF ShapeChecks, Merged, Optional
      <3> QED
        BY <1>2, <3>1 DEF Changeable, PointNames, AngleNames
    <2>6. CASE e.kind = "rectangle"
      <3>1. name \in {"closed", "vertices", "vertex_count", "width", "height"}
        BY <2>6 DEF ShapeChecks, Merged, Optional
      <3> QED
        BY <1>2, <2>6, <3>1, RectangleRows DEF Changeable
    <2>7. CASE e.kind = "polyline"
      <3>1. name \in {"closed", "vertices", "vertex_count"}
        BY <2>7 DEF ShapeChecks, Merged
      <3>2. name = "vertex_count"
        BY <1>2, <3>1 DEF Changeable
      <3> QED
        BY <2>7, <3>2, PolylineCount
    <2> QED
      BY <2>1, <2>2, <2>3, <2>4, <2>5, <2>6, <2>7
      DEF Ready, CanCreate, Indexed, DIMENSION_TYPES
  <1> QED
    BY <1>1, <1>2

\* The rows every kind of entity has.
LEMMA CommonRow ==
    ASSUME NEW e, Ready(e), NEW x, NEW lt,
           DOMAIN x \subseteq Changeable \cup {"object_type", "rotation"},
           {"layer", "linetype", "object_type"} \subseteq DOMAIN x,
           x["layer"] = e.layer, x["linetype"] = e.linetype,
           x["object_type"] \in ExpectedTypes(e.kind),
           e.linetype = "bylayer" /\ e.layer \in DOMAIN Family => lt \in Family[e.layer],
           NEW name \in DOMAIN CommonChecks(e)
    PROVE  /\ name \in DOMAIN Observed(x, {"none"}, lt)
           /\ Passes(name, Checks(e)[name], Observed(x, {"none"}, lt)[name])
  <1> DEFINE observed == Observed(x, {"none"}, lt)
  <1>1. /\ \A n \in {"layer", "linetype", "object_type"} :
              n \in DOMAIN observed /\ observed[n] = x[n]
        /\ e.linetype = "bylayer" =>
              "effective_linetype" \in DOMAIN observed /\ observed["effective_linetype"] = lt
    BY ObservedValues
  <1>2. /\ Checks(e)["layer"] = e.layer /\ Checks(e)["linetype"] = e.linetype
        /\ Checks(e)["object_type"] = ExpectedTypes(e.kind)
    BY CommonFacts
  <1>3. \/ name \in {"layer", "linetype", "object_type"}
        \/ /\ name = "effective_linetype"
           /\ e.linetype = "bylayer" /\ e.layer \in DOMAIN Family
           /\ Checks(e)["effective_linetype"] = Family[e.layer]
    BY DEF Checks, CommonChecks, Merged
  <1> HIDE DEF observed
  <1>4. /\ \A n \in SetNames : \A target, actual : actual \in target => Passes(n, target, actual)
        /\ \A n \in {"layer", "linetype"} : \A v : Passes(n, v, v)
    BY DEF Passes, PointNames, AngleNames, RootNames, NumberNames, SetNames
  <1>5. {"object_type", "effective_linetype"} = SetNames
    BY DEF SetNames
  <1> QED
    BY <1>1, <1>2, <1>3, <1>4, <1>5 DEF observed

\* What was created from a coherent plan passes every row.
LEMMA CreateVerifies ==
    ASSUME Ready(entity), entity.operation = "create", NEW layer,
           Nearly(Created(entity, layer), object), Coherent(entity)
    PROVE  Verified(entity, Observed(object, {"none"}, linetype))
  <1> DEFINE o == Created(entity, layer)
             observed == Observed(object, {"none"}, linetype)
  <1>1. /\ object.layer = entity.layer /\ LinetypeStated(entity) /\ StatedTwiceAgrees(entity)
    BY DEF Coherent
  <1>2. /\ DOMAIN o = {"layer", "linetype"} \cup DOMAIN Shape(entity)
        /\ o["linetype"] = entity.linetype
        /\ o["object_type"] = Shape(entity)["object_type"]
        /\ DOMAIN o \subseteq Changeable \cup {"object_type", "rotation"}
    BY <1>1, CreatedValues DEF LinetypeStated
  <1>3. /\ "object_type" \in DOMAIN Shape(entity)
        /\ Shape(entity)["object_type"] \in ExpectedTypes(entity.kind)
    BY ShapeNames
  <1>4. Nearly(o, object)
    OBVIOUS
  <1> HIDE DEF o
  <1>5. /\ DOMAIN object = DOMAIN o
        /\ object["linetype"] = entity.linetype
        /\ object["object_type"] \in ExpectedTypes(entity.kind)
    <2>1. object["linetype"] = o["linetype"]
      BY <1>2, <1>4, NearlyFixed DEF PointNames, AngleNames
    <2>2. object["object_type"] = o["object_type"]
      BY <1>2, <1>3, <1>4, NearlyFixed DEF PointNames, AngleNames
    <2>3. DOMAIN object = DOMAIN o
      BY <1>4, NearlyFacts
    <2> QED
      BY <1>2, <1>3, <2>1, <2>2, <2>3
  <1>6. ASSUME NEW name \in DOMAIN Checks(entity)
        PROVE  name \in DOMAIN observed /\ Passes(name, Checks(entity)[name], observed[name])
    <2>1. CASE name \in DOMAIN CommonChecks(entity)
      BY <1>1, <1>2, <1>3, <1>5, <2>1, CommonRow DEF LinetypeStated
    <2>2. CASE name \notin DOMAIN CommonChecks(entity)
      <3>1. name \in DOMAIN ShapeChecks(entity)
            /\ Checks(entity)[name] = ShapeChecks(entity)[name]
        BY <2>2, CommonFacts
      <3> QED
        BY <1>1, <3>1, ShapeRow
    <2> QED
      BY <2>1, <2>2
  <1> QED
    BY <1>6 DEF Verified

\* So does what was laid out.
LEMMA LayoutVerifies ==
    ASSUME Ready(entity), entity.operation = "layout_only", NEW dimension \in Dimensions,
           Nearly([dimension EXCEPT !.text_position = At(entity, "text_position")], object),
           Coherent(entity)
    PROVE  Verified(entity, Observed(object, {"none"}, linetype))
  <1> DEFINE o == [dimension EXCEPT !.text_position = At(entity, "text_position")]
             observed == Observed(object, {"none"}, linetype)
             e == entity
  <1>1. /\ object.layer = e.layer /\ LinetypeStated(e) /\ StatedTwiceAgrees(e) /\ LayoutOf(e)
        /\ e.kind \in DIMENSION_TYPES /\ Has(e, "text_position")
        /\ e.text = "" /\ e.background_fill = FALSE
    BY DEF Coherent, Ready, Typed, LayoutSound, DimensionSafe
  <1>2. /\ DOMAIN o = DimensionNames \cup DefinitionPoints[dimension.object_type]
        /\ dimension.object_type \in DOMAIN DefinitionPoints
        /\ o["text_position"] = At(e, "text_position")
        /\ o["object_type"] = dimension.object_type
    BY DimensionAssumption DEF DimensionNames
  <1>3. DOMAIN o \subseteq Changeable \cup {"object_type"}
    <2>1. DefinitionPoints[dimension.object_type] \subseteq PointNames
      BY <1>2 DEF DefinitionPoints, PointNames
    <2> QED
      BY <1>2, <2>1 DEF DimensionNames, Changeable, PointNames
  <1>4. Nearly(o, object)
    OBVIOUS
  <1>5. DimensionNames \subseteq DOMAIN o
    BY <1>2
  <1> HIDE DEF o
  <1>6. DOMAIN object = DOMAIN o /\ object["object_type"] \in DOMAIN DefinitionPoints
    BY <1>2, <1>4, <1>5, NearlyFacts, NearlyFixed DEF PointNames, AngleNames, DimensionNames
  <1>7. \A name \in DOMAIN object : name \in DOMAIN observed /\ observed[name] = object[name]
    BY <1>3, <1>6, ObservedValues
  <1>8. ShapeChecks(e) = DimensionChecks(e)
    BY <1>1 DEF ShapeChecks, DIMENSION_TYPES
  <1>9. object["background_fill"] \in BOOLEAN
    <2>1. o["background_fill"] = dimension["background_fill"]
      BY <1>2 DEF o, DimensionNames
    <2>2. object["background_fill"] = o["background_fill"]
      BY <1>4, <1>5, NearlyFixed DEF PointNames, AngleNames, DimensionNames
    <2> QED
      BY <2>1, <2>2, DimensionAssumption
  <1>10. DOMAIN DefinitionChecks(e) = {}
    <2>1. DefinitionChecks(e) = << >>
      BY DEF DefinitionChecks
    <2> QED
      BY <2>1
  <1>11. ASSUME NEW name \in DOMAIN CommonChecks(e)
         PROVE  name \in DOMAIN observed /\ Passes(name, Checks(e)[name], observed[name])
    BY <1>1, <1>3, <1>5, <1>6, CommonRow DEF LayoutOf, LinetypeStated, DimensionNames
  <1>12. ASSUME "measurement" \in DOMAIN MeasurementCheck(e)
         PROVE  /\ "measurement" \in DOMAIN observed
                /\ Passes("measurement", DimensionChecks(e)["measurement"], observed["measurement"])
    <2>1. MeasurementCheck(e) # << >>
      <3>1. DOMAIN << >> = {}
        OBVIOUS
      <3> QED
        BY <1>12, <3>1
    <2>2. MeasurementCheck(e)["measurement"] = Native(object)["measurement"]
      BY <1>1, <2>1 DEF StatedTwiceAgrees
    <2>3. "measurement" \in DOMAIN Native(object)
      <3>1. "measurement" \notin DOMAIN object
        BY <1>3, <1>6 DEF Changeable, PointNames, AngleNames
      <3>2. object["object_type"] \in DOMAIN EndNames
        BY <1>6 DEF EndNames, DefinitionPoints
      <3> QED
        BY <3>1, <3>2, NativeMeasurement
    <2>4. /\ "measurement" \in DOMAIN observed
          /\ observed["measurement"] = Native(object)["measurement"]
      BY <1>3, <1>6, <2>3, ObservedValues
    <2>5. MeasurementCheck(e)["measurement"] \in Nat
      <3> DEFINE otherwise == CASE e.kind = "diametric_dimension" -> {"diameter"}
                                [] e.kind = "radial_dimension" -> {"radius"}
                                [] OTHER -> {}
                 source == IF "measurement" \in DOMAIN e.dimensions THEN {"measurement"}
                           ELSE otherwise \cap DOMAIN e.dimensions
      <3>1. MeasurementCheck(e) = [name \in IF source = {} THEN {} ELSE {"measurement"} |->
                                     Square(Value(e, CHOOSE field \in source : TRUE))]
        BY DEF MeasurementCheck
      <3>2. source \subseteq DOMAIN e.dimensions
        OBVIOUS
      <3> HIDE DEF source
      <3>3. source # {} /\ MeasurementCheck(e)["measurement"]
                              = Square(Value(e, CHOOSE field \in source : TRUE))
        BY <1>12, <3>1
      <3>4. (CHOOSE field \in source : TRUE) \in DOMAIN e.dimensions
        BY <3>2, <3>3
      <3>5. Value(e, CHOOSE field \in source : TRUE) \in Int
        BY <3>4 DEF Value, Ready, Typed
      <3> QED
        BY <3>3, <3>5, SquareTyped
    <2>6. DimensionChecks(e)["measurement"] = MeasurementCheck(e)["measurement"]
      BY <1>1, <1>12, DimensionRows
    <2>7. WithinRoots(MeasurementCheck(e)["measurement"], MeasurementCheck(e)["measurement"])
      BY <2>5, RootsOfSame
    <2> HIDE DEF observed, e
    <2> QED
      BY <2>2, <2>4, <2>6, <2>7
      DEF Passes, PointNames, AngleNames, RootNames, NumberNames, SetNames
  <1>13. ASSUME NEW name \in DOMAIN DimensionChecks(e), name # "measurement"
         PROVE  name \in DOMAIN observed /\ Passes(name, DimensionChecks(e)[name], observed[name])
    <2>1. TypedValue(name, DimensionChecks(e)[name])
      BY <1>1, DimensionFacts
    <2>2. \/ name \in {"text_override", "background_fill"}
          \/ name = "text_height" /\ "text_height" \in DOMAIN e.dimensions
          \/ name = "text_position" /\ "text_position" \in DOMAIN e.coordinates
      <3>1. DOMAIN DimensionChecks(e) =
               {"text_override", "background_fill"} \cup DOMAIN MeasurementCheck(e)
               \cup DOMAIN DefinitionChecks(e) \cup ({"text_height"} \cap DOMAIN e.dimensions)
               \cup ({"text_position"} \cap DOMAIN e.coordinates)
        BY <1>1, DimensionRows
      <3>2. DOMAIN MeasurementCheck(e) \subseteq {"measurement"}
        BY <1>1, DimensionRows
      <3> QED
        BY <1>10, <1>13, <3>1, <3>2
    <2>3. /\ name \in Changeable /\ name \in DOMAIN object
      BY <1>5, <1>6, <2>2 DEF Changeable, PointNames, DimensionNames
    <2>4. /\ DimensionChecks(e)["text_override"] = ""
          /\ DimensionChecks(e)["background_fill"] = FALSE
          /\ "text_height" \in DOMAIN e.dimensions =>
                DimensionChecks(e)["text_height"] = Value(e, "text_height")
          /\ "text_position" \in DOMAIN e.coordinates =>
                DimensionChecks(e)["text_position"] = At(e, "text_position")
      BY <1>1, DimensionRows
    <2>5. CASE name = "text_position"
      <3>1. o[name] = DimensionChecks(e)[name] /\ name \in DOMAIN o
        BY <1>2, <1>6, <2>2, <2>3, <2>4, <2>5
      <3>2. Passes(name, o[name], object[name])
        BY <1>4, <2>1, <2>3, <3>1, NearlyPasses
      <3> QED
        BY <1>7, <2>3, <3>1, <3>2
    <2>6. CASE name # "text_position"
      <3>1. object[name] = DimensionChecks(e)[name]
        <4>1. /\ object["text_override"] = "" /\ ~object["background_fill"]
              /\ "text_height" \in DOMAIN e.dimensions =>
                    object["text_height"] = Value(e, "text_height")
          BY <1>1 DEF LayoutOf
        <4>2. object["background_fill"] = FALSE
          BY <1>9, <4>1
        <4> QED
          BY <2>2, <2>4, <2>6, <4>1, <4>2
      <3>2. Passes(name, object[name], object[name])
        BY <2>1, <2>3, <3>1, SamePasses
      <3> QED
        BY <1>7, <2>3, <3>1, <3>2
    <2> QED
      BY <2>5, <2>6
  <1>14. ASSUME NEW name \in DOMAIN Checks(e)
         PROVE  name \in DOMAIN observed /\ Passes(name, Checks(e)[name], observed[name])
    <2>1. CASE name \in DOMAIN CommonChecks(e)
      BY <1>11, <2>1
    <2>2. CASE name \notin DOMAIN CommonChecks(e)
      <3>1. name \in DOMAIN DimensionChecks(e) /\ Checks(e)[name] = DimensionChecks(e)[name]
        <4>1. DOMAIN Checks(e) = DOMAIN CommonChecks(e) \cup DOMAIN ShapeChecks(e)
          BY CommonFacts
        <4>2. \A field \in DOMAIN ShapeChecks(e) \ DOMAIN CommonChecks(e) :
                 Checks(e)[field] = ShapeChecks(e)[field]
          BY CommonFacts
        <4> QED
          BY <1>8, <2>2, <4>1, <4>2
      <3>2. name = "measurement" => "measurement" \in DOMAIN MeasurementCheck(e)
        <4>1. DOMAIN DimensionChecks(e) =
                 {"text_override", "background_fill"} \cup DOMAIN MeasurementCheck(e)
                 \cup DOMAIN DefinitionChecks(e) \cup ({"text_height"} \cap DOMAIN e.dimensions)
                 \cup ({"text_position"} \cap DOMAIN e.coordinates)
          BY <1>1, DimensionRows
        <4> QED
          BY <1>10, <3>1, <4>1
      <3> QED
        BY <1>12, <1>13, <3>1, <3>2
    <2> QED
      BY <2>1, <2>2
  <1> QED
    BY <1>14 DEF Verified

\* A verification that failed had something to find, and the object is what was
\* drawn, or nearly.
FaithfulInv ==
    /\ plan \in Plans
    /\ pc = "accepted" => Accepted(plan)
    /\ pc \in {"planned", "accepted"} => damage = "none"
    /\ Drawn => /\ Ready(entity)
                /\ damage = "none" => Original(object)
                /\ damage \in {"none", "slight"} => \E o : Original(o) /\ Nearly(o, object)
    /\ pc = "failed" => ~Verified(entity, Observed(object, {unread}, linetype))

\* What was drawn is the original.
LEMMA OriginalDrawn ==
    ASSUME FaithfulInv, Create \/ Layout
    PROVE  FaithfulInv'
  <1>1. /\ plan' = plan /\ entity' = entity /\ pc' = "drawn" /\ Ready(entity)
    BY AcceptedReady DEF Create, Layout, FaithfulInv, entity
  <1>2. \/ entity.operation = "create" /\ \E layer : object' = Created(entity, layer)
        \/ /\ entity.operation = "layout_only"
           /\ \E dimension \in Dimensions :
                 object' = [dimension EXCEPT !.text_position = At(entity, "text_position")]
    BY DEF Create, Layout
  <1>3. Original(object)'
    BY <1>1, <1>2 DEF Original
  <1>4. (\E o : Original(o) /\ Nearly(o, object))'
    BY <1>3 DEF Nearly
  <1>5. Ready(entity)'
    BY <1>1
  <1> QED
    BY <1>1, <1>3, <1>4, <1>5 DEF FaithfulInv, Drawn

\* After a slight change the object is nearly the original.
LEMMA EditNearly ==
    ASSUME FaithfulInv, Edit
    PROVE  FaithfulInv'
  <1>1. /\ pc = "drawn" /\ pc' = pc /\ damage = "none" /\ plan' = plan /\ linetype' = linetype
        /\ entity' = entity
    BY DEF Edit, entity
  <1>2. Ready(entity) /\ Original(object)
    BY <1>1 DEF FaithfulInv, Drawn
  <1>3. PICK name \in DOMAIN object :
          \/ \E d \in (-(Tolerance + 1) .. Tolerance + 1) \ {0} :
                \E value \in Moved(name, object[name], d) :
                   Alter(name, value, IF Slight(name, d) THEN "slight" ELSE name)
          \/ \E value \in Replaced(name, object[name]) : Alter(name, value, name)
          \/ name = "text" /\ Alter(name, Lower(object.text), "case")
    BY DEF Edit
  <1> DEFINE Told ==
           /\ damage' # "none"
           /\ damage' = "slight" =>
                 \E d \in Int : \E value \in Moved(name, object[name], d) :
                    Slight(name, d) /\ object' = [object EXCEPT ![name] = value]
  <1>4. Told
    <2>1. ASSUME NEW d \in (-(Tolerance + 1) .. Tolerance + 1) \ {0},
                 NEW value \in Moved(name, object[name], d),
                 Alter(name, value, IF Slight(name, d) THEN "slight" ELSE name)
          PROVE  Told
      <3>1. name \notin {"none", "slight"}
        BY <2>1 DEF Moved, PointNames, AngleNames
      <3>2. d \in Int
        BY ToleranceAssumption
      <3> QED
        BY <2>1, <3>1, <3>2 DEF Alter
    <2>2. ASSUME NEW value \in Replaced(name, object[name]), Alter(name, value, name)
          PROVE  Told
      BY <2>2 DEF Replaced, Alter
    <2>3. ASSUME Alter(name, Lower(object.text), "case")
          PROVE  Told
      BY <2>3 DEF Alter
    <2> QED
      BY <1>3, <2>1, <2>2, <2>3
  <1>5. damage' = "slight" => Nearly(object, object')
    <2>1. \A d \in Int : Slight(name, d) => IsSlight(object, name, d)
      BY ToleranceAssumption DEF Slight, IsSlight, Abs
    <2> QED
      BY <1>4, <2>1 DEF Nearly
  <1>6. damage' \in {"none", "slight"} => (\E o : Original(o) /\ Nearly(o, object))'
    <2> SUFFICES ASSUME damage' = "slight"
                 PROVE  (\E o : Original(o) /\ Nearly(o, object))'
      BY <1>4
    <2>1. \E o : Original(o) /\ Nearly(o, object')
      BY <1>2, <1>5
    <2> QED
      BY <1>1, <2>1 DEF Original, Nearly, IsSlight
  <1>7. Ready(entity)'
    BY <1>1, <1>2
  <1> QED
    BY <1>1, <1>4, <1>6, <1>7 DEF FaithfulInv, Drawn

\* The verifier fails only what has a failing row.
LEMMA VerifyStays ==
    ASSUME FaithfulInv, Verify
    PROVE  FaithfulInv'
  <1>1. /\ pc = "drawn" /\ UNCHANGED <<plan, object, linetype, damage>>
        /\ pc' \in {"passed", "failed"}
        /\ pc' = "failed" => ~Verified(entity, Observed(object, {unread'}, linetype))
        /\ entity' = entity
    BY DEF Verify, entity
  <1>2. Drawn /\ Drawn'
    BY <1>1 DEF Drawn
  <1>3. Original(object)' <=> Original(object)
    BY <1>1 DEF Original
  <1>4. (\E o : Original(o) /\ Nearly(o, object))' <=> (\E o : Original(o) /\ Nearly(o, object))
    BY <1>1 DEF Original
  <1>5. Ready(entity)' <=> Ready(entity)
    BY <1>1
  <1>6. Verified(entity, Observed(object, {unread}, linetype))'
           <=> Verified(entity, Observed(object, {unread'}, linetype))
    BY <1>1
  <1> QED
    BY <1>1, <1>2, <1>3, <1>4, <1>5, <1>6 DEF FaithfulInv

\* A plan that says what it means and was carried out is not failed.
THEOREM FaithfulPasses == PlanSpec => []FaithfulVerifies
  <1>1. PlanInit => FaithfulInv
    BY DEF PlanInit, FaithfulInv, Drawn
  <1>2. FaithfulInv /\ [PlanNext]_planVars => FaithfulInv'
    <2> SUFFICES ASSUME FaithfulInv, [PlanNext]_planVars
                 PROVE  FaithfulInv'
      OBVIOUS
    <2>1. CASE Validate
      BY <2>1 DEF Validate, FaithfulInv, Drawn
    <2>2. CASE Create
      BY <2>2, OriginalDrawn
    <2>3. CASE Layout
      BY <2>3, OriginalDrawn
    <2>4. CASE Raise
      BY <2>4 DEF Raise, FaithfulInv, Drawn
    <2>5. CASE Edit
      BY <2>5, EditNearly
    <2>6. CASE Verify
      BY <2>6, VerifyStays
    <2>7. CASE UNCHANGED planVars
      <3>1. UNCHANGED <<plan, pc, object, linetype, damage, unread>> /\ entity' = entity
        BY <2>7 DEF planVars, entity
      <3>2. Original(object)' <=> Original(object)
        BY <3>1 DEF Original
      <3>3. (\E o : Original(o) /\ Nearly(o, object))'
               <=> (\E o : Original(o) /\ Nearly(o, object))
        BY <3>1 DEF Original
      <3>4. Ready(entity)' <=> Ready(entity)
        BY <3>1
      <3>5. Verified(entity, Observed(object, {unread}, linetype))'
               <=> Verified(entity, Observed(object, {unread}, linetype))
        BY <3>1
      <3> QED
        BY <3>1, <3>2, <3>3, <3>4, <3>5 DEF FaithfulInv, Drawn
    <2> QED
      BY <2>1, <2>2, <2>3, <2>4, <2>5, <2>6, <2>7 DEF PlanNext
  <1>3. FaithfulInv => FaithfulVerifies
    <2> SUFFICES ASSUME FaithfulInv, pc = "failed", damage \in {"none", "slight"},
                        unread = "none", Coherent(entity)
                 PROVE  FALSE
      BY DEF FaithfulVerifies
    <2>1. Ready(entity) /\ \E o : Original(o) /\ Nearly(o, object)
      BY DEF FaithfulInv, Drawn
    <2>2. PICK o : Original(o) /\ Nearly(o, object)
      BY <2>1
    <2>3. CASE entity.operation = "create"
      <3>1. PICK layer : o = Created(entity, layer)
        BY <2>2, <2>3 DEF Original
      <3>2. Verified(entity, Observed(object, {"none"}, linetype))
        BY <2>1, <2>2, <2>3, <3>1, CreateVerifies
      <3> QED
        BY <3>2 DEF FaithfulInv
    <2>4. CASE entity.operation = "layout_only"
      <3>1. PICK dimension \in Dimensions :
               o = [dimension EXCEPT !.text_position = At(entity, "text_position")]
        BY <2>2, <2>4 DEF Original
      <3>2. Verified(entity, Observed(object, {"none"}, linetype))
        BY <2>1, <2>2, <2>4, <3>1, LayoutVerifies
      <3> QED
        BY <3>2 DEF FaithfulInv
    <2> QED
      BY <2>1, <2>3, <2>4 DEF Ready, Typed
  <1> QED
    BY <1>1, <1>2, <1>3, PTL DEF PlanSpec

-----------------------------------------------------------------------------
(* Induction, and what a fold computes.                                     *)

\* A set that has 0 and the successor of each number it has, has them all.
LEMMA InductionOnNat ==
    ASSUME NEW T, 0 \in T, \A n \in Nat \cap T : n + 1 \in T
    PROVE  Nat \subseteq T
  <1> DEFINE less == OpToRel(<, Nat)
             bad == Nat \ T
  <1>1. IsWellFoundedOn(less, Nat)
    BY NatLessThanWellFounded, Zenon
  <1>2. \A x, y \in Nat : x < y => <<x, y>> \in less
    BY DEF OpToRel
  <1> HIDE DEF less
  <1>3. ASSUME bad # {}
        PROVE  FALSE
    <2>1. PICK x \in bad : \A y \in bad : <<y, x>> \notin less
      BY <1>1, <1>3, WFMin
    <2>2. x \in Nat /\ x # 0 /\ x - 1 \in Nat /\ x - 1 < x
      BY <2>1
    <2>3. x - 1 \notin bad
      BY <1>2, <2>1, <2>2
    <2> QED
      BY <2>1, <2>2, <2>3
  <1> QED
    BY <1>3

\* A set of numbers up to n has a greatest one.
LEMMA MaxIsThere ==
    ASSUME NEW n \in Nat, NEW t \in SUBSET (1 .. n), t # {}
    PROVE  Max(t) \in t /\ \A y \in t : Max(t) >= y
  <1> DEFINE T == {m \in Nat : \A u \in SUBSET (1 .. m) :
                                   u # {} => \E x \in u : \A y \in u : x >= y}
  <1>1. 0 \in T
    <2>1. 1 .. 0 = {}
      OBVIOUS
    <2> QED
      BY <2>1
  <1>2. ASSUME NEW m \in Nat \cap T
        PROVE  m + 1 \in T
    <2>1. ASSUME NEW u \in SUBSET (1 .. m + 1), u # {}
          PROVE  \E x \in u : \A y \in u : x >= y
      <3>1. CASE m + 1 \in u
        BY <3>1
      <3>2. CASE m + 1 \notin u
        <4>1. u \in SUBSET (1 .. m)
          BY <3>2
        <4> QED
          BY <2>1, <4>1
      <3> QED
        BY <3>1, <3>2
    <2> QED
      BY <2>1
  <1>3. n \in T
    <2> HIDE DEF T
    <2> QED
      BY <1>1, <1>2, InductionOnNat
  <1>4. \E x \in t : \A y \in t : x >= y
    BY <1>3
  <1> QED
    BY <1>4 DEF Max

\* And one up to n has a least one.
LEMMA MinIsThere ==
    ASSUME NEW n \in Nat, NEW t \in SUBSET (1 .. n), t # {}
    PROVE  Min(t) \in t
  <1> DEFINE T == {m \in Nat : \A u \in SUBSET (1 .. m) :
                                   u # {} => \E x \in u : \A y \in u : x <= y}
  <1>1. 0 \in T
    <2>1. 1 .. 0 = {}
      OBVIOUS
    <2> QED
      BY <2>1
  <1>2. ASSUME NEW m \in Nat \cap T
        PROVE  m + 1 \in T
    <2>1. ASSUME NEW u \in SUBSET (1 .. m + 1), u # {}
          PROVE  \E x \in u : \A y \in u : x <= y
      <3>1. CASE u \ {m + 1} = {}
        BY <2>1, <3>1
      <3>2. CASE u \ {m + 1} # {}
        <4>1. u \ {m + 1} \in SUBSET (1 .. m)
          OBVIOUS
        <4>2. PICK x \in u \ {m + 1} : \A y \in u \ {m + 1} : x <= y
          BY <3>2, <4>1
        <4>3. x <= m + 1
          BY <4>1, <4>2
        <4> QED
          BY <4>2, <4>3
      <3> QED
        BY <3>1, <3>2
    <2> QED
      BY <2>1
  <1>3. n \in T
    <2> HIDE DEF T
    <2> QED
      BY <1>1, <1>2, InductionOnNat
  <1>4. \E x \in t : \A y \in t : x <= y
    BY <1>3
  <1> QED
    BY <1>4 DEF Min

\* The steps of the folds: of texts, of dimensions, and of the elements of a
\* set.
Extended(op, wanted, items, x) ==
    IF op = "text" THEN AddText(items, x)
    ELSE IF op = "dimension" THEN AddDimension(items, x)
    ELSE IF x \in wanted THEN Append(items, x) ELSE items

\* The table that FoldLeft chooses: the result for every set of positions.
Table(op, wanted, s, n, g) ==
    g = [t \in SUBSET (1 .. n) |->
            IF t = {} THEN <<>> ELSE Extended(op, wanted, g[t \ {Max(t)}], s[Max(t)])]

\* There is one, however many positions there are.
LEMMA TableExists ==
    ASSUME NEW op, NEW wanted, NEW s, NEW n \in Nat
    PROVE  \E g : Table(op, wanted, s, n, g)
  <1> DEFINE T == {m \in Nat : \E g : Table(op, wanted, s, m, g)}
  <1>1. 0 \in T
    <2> DEFINE g == [t \in SUBSET (1 .. 0) |-> <<>>]
    <2>1. \A t \in SUBSET (1 .. 0) : t = {}
      OBVIOUS
    <2>2. Table(op, wanted, s, 0, g)
      BY <2>1 DEF Table
    <2> QED
      BY <2>2
  <1>2. ASSUME NEW m \in Nat \cap T
        PROVE  m + 1 \in T
    <2>1. PICK g : Table(op, wanted, s, m, g)
      OBVIOUS
    <2> DEFINE Entry(f, t) == IF t = {} THEN <<>>
                              ELSE Extended(op, wanted, f[t \ {Max(t)}], s[Max(t)])
               h == [t \in SUBSET (1 .. m + 1) |->
                        IF t \in SUBSET (1 .. m) THEN g[t] ELSE Entry(g, t)]
    <2>2. ASSUME NEW t \in SUBSET (1 .. m + 1)
          PROVE  h[t] = Entry(h, t)
      <3>1. CASE t = {}
        BY <2>1, <3>1 DEF Table
      <3>2. CASE t # {}
        <4>1. Max(t) \in t /\ \A y \in t : Max(t) >= y
          <5>1. m + 1 \in Nat
            OBVIOUS
          <5> HIDE DEF h, Entry, T
          <5> QED
            BY <3>2, <5>1, MaxIsThere
        <4>2. t \ {Max(t)} \in SUBSET (1 .. m)
          <5> HIDE DEF h, Entry, T
          <5>1. ASSUME NEW y \in t, y # Max(t)
                PROVE  y \in 1 .. m
            <6>1. /\ m \in Nat /\ y \in 1 .. m + 1 /\ Max(t) \in 1 .. m + 1
                  /\ Max(t) >= y /\ y # Max(t)
              BY <4>1, <5>1
            <6> DEFINE greatest == Max(t)
            <6> HIDE DEF greatest
            <6>2. greatest \in 1 .. m + 1 /\ greatest >= y /\ y # greatest
              BY <6>1 DEF greatest
            <6> QED
              BY <6>1, <6>2
          <5> QED
            BY <5>1
        <4>3. h[t \ {Max(t)}] = g[t \ {Max(t)}]
          BY <4>2
        <4>4. CASE t \in SUBSET (1 .. m)
          <5>1. g[t] = Entry(g, t)
            BY <2>1, <4>4 DEF Table
          <5> QED
            BY <4>3, <4>4, <5>1
        <4>5. CASE t \notin SUBSET (1 .. m)
          BY <4>3, <4>5
        <4> QED
          BY <4>4, <4>5
      <3> QED
        BY <3>1, <3>2
    <2>3. h = [t \in SUBSET (1 .. m + 1) |-> h[t]]
      OBVIOUS
    <2>4. h = [t \in SUBSET (1 .. m + 1) |-> Entry(h, t)]
      <3> HIDE DEF h, Entry
      <3> QED
        BY <2>2, <2>3
    <2>5. Table(op, wanted, s, m + 1, h)
      <3> HIDE DEF h
      <3> QED
        BY <2>4 DEF Table
    <2> QED
      BY <2>5
  <1>3. n \in T
    <2> HIDE DEF T
    <2> QED
      BY <1>1, <1>2, InductionOnNat
  <1> QED
    BY <1>3

\* Its entries for the first positions are the stages of the fold.
LEMMA TableStages ==
    ASSUME NEW op, NEW wanted, NEW s, NEW n \in Nat, NEW g, Table(op, wanted, s, n, g)
    PROVE  /\ g[1 .. 0] = <<>>
           /\ \A k \in 1 .. n : g[1 .. k] = Extended(op, wanted, g[1 .. (k - 1)], s[k])
  <1>1. g[1 .. 0] = <<>>
    <2>1. 1 .. 0 = {} /\ {} \in SUBSET (1 .. n)
      OBVIOUS
    <2> QED
      BY <2>1 DEF Table
  <1>2. ASSUME NEW k \in 1 .. n
        PROVE  g[1 .. k] = Extended(op, wanted, g[1 .. (k - 1)], s[k])
    <2>1. 1 .. k \in SUBSET (1 .. n) /\ 1 .. k # {} /\ k \in 1 .. k
      OBVIOUS
    <2>2. Max(1 .. k) \in 1 .. k /\ \A y \in 1 .. k : Max(1 .. k) >= y
      BY <2>1, MaxIsThere
    <2>3. Max(1 .. k) = k
      BY <2>1, <2>2
    <2>4. (1 .. k) \ {k} = 1 .. (k - 1)
      OBVIOUS
    <2>5. g[1 .. k] = Extended(op, wanted, g[(1 .. k) \ {Max(1 .. k)}], s[Max(1 .. k)])
      BY <2>1 DEF Table
    <2> QED
      BY <2>3, <2>4, <2>5
  <1> QED
    BY <1>1, <1>2

\* The stages of a fold.
Stage(op, wanted, s, n, F) ==
    F[0] = <<>> /\ \A k \in 1 .. n : F[k] = Extended(op, wanted, F[k - 1], s[k])

\* So every fold has its stages.
LEMMA StagesOf ==
    ASSUME NEW op, NEW wanted, NEW s, NEW n \in Nat, NEW g, Table(op, wanted, s, n, g)
    PROVE  \E F : Stage(op, wanted, s, n, F) /\ F[n] = g[1 .. n]
  <1> DEFINE F == [k \in 0 .. n |-> g[1 .. k]]
  <1>1. g[1 .. 0] = <<>>
    <2> HIDE DEF F
    <2> QED
      BY TableStages
  <1>2. ASSUME NEW k \in 1 .. n
        PROVE  F[k] = Extended(op, wanted, F[k - 1], s[k])
    <2>1. F[k] = g[1 .. k] /\ F[k - 1] = g[1 .. (k - 1)]
      OBVIOUS
    <2> HIDE DEF F
    <2>2. g[1 .. k] = Extended(op, wanted, g[1 .. (k - 1)], s[k])
      BY TableStages
    <2> QED
      BY <2>1, <2>2
  <1>3. F[0] = g[1 .. 0] /\ F[n] = g[1 .. n]
    OBVIOUS
  <1>4. Stage(op, wanted, s, n, F)
    <2> HIDE DEF F
    <2> QED
      BY <1>1, <1>2, <1>3 DEF Stage
  <1> QED
    BY <1>3, <1>4

\* The fold of texts ends with its last stage.
LEMMA FoldOfTexts ==
    ASSUME NEW s, NEW n \in Nat, DOMAIN s = 1 .. n
    PROVE  \E F : Stage("text", {}, s, n, F) /\ F[n] = FoldLeft(AddText, <<>>, s)
  <1> DEFINE Defining(f) ==
                f = [t \in SUBSET DOMAIN s |->
                        IF t = {} THEN <<>> ELSE AddText(f[t \ {Max(t)}], s[Max(t)])]
             iter == CHOOSE iter : Defining(iter)
  <1>1. FoldLeft(AddText, <<>>, s) = iter[DOMAIN s]
    BY DEF FoldLeft, MapThenFoldSet
  <1>2. \A f : Table("text", {}, s, n, f) <=> Defining(f)
    BY DEF Table, Extended
  <1>3. Defining(iter)
    <2> HIDE DEF Defining
    <2> QED
      BY <1>2, TableExists
  <1>4. Table("text", {}, s, n, iter)
    <2> HIDE DEF Defining, iter
    <2> QED
      BY <1>2, <1>3
  <1> QED
    <2> HIDE DEF iter
    <2> QED
      BY <1>1, <1>4, StagesOf

\* The fold of dimensions.
LEMMA FoldOfDimensions ==
    ASSUME NEW s, NEW n \in Nat, DOMAIN s = 1 .. n
    PROVE  \E F : Stage("dimension", {}, s, n, F) /\ F[n] = FoldLeft(AddDimension, <<>>, s)
  <1> DEFINE Defining(f) ==
                f = [t \in SUBSET DOMAIN s |->
                        IF t = {} THEN <<>> ELSE AddDimension(f[t \ {Max(t)}], s[Max(t)])]
             iter == CHOOSE iter : Defining(iter)
  <1>1. FoldLeft(AddDimension, <<>>, s) = iter[DOMAIN s]
    BY DEF FoldLeft, MapThenFoldSet
  <1>2. \A f : Table("dimension", {}, s, n, f) <=> Defining(f)
    BY DEF Table, Extended
  <1>3. Defining(iter)
    <2> HIDE DEF Defining
    <2> QED
      BY <1>2, TableExists
  <1>4. Table("dimension", {}, s, n, iter)
    <2> HIDE DEF Defining, iter
    <2> QED
      BY <1>2, <1>3
  <1> QED
    <2> HIDE DEF iter
    <2> QED
      BY <1>1, <1>4, StagesOf

\* The fold of the elements that are kept.
LEMMA FoldOfKept ==
    ASSUME NEW s, NEW n \in Nat, DOMAIN s = 1 .. n, NEW wanted
    PROVE  \E F : Stage("keep", wanted, s, n, F) /\ F[n] = Kept(s, wanted)
  <1> DEFINE Defining(f) ==
                f = [t \in SUBSET DOMAIN s |->
                        IF t = {} THEN <<>>
                        ELSE IF s[Max(t)] \in wanted
                             THEN Append(f[t \ {Max(t)}], s[Max(t)]) ELSE f[t \ {Max(t)}]]
             iter == CHOOSE iter : Defining(iter)
  <1>1. Kept(s, wanted) = iter[DOMAIN s]
    BY DEF Kept, FoldLeft, MapThenFoldSet
  <1>2. \A f : Table("keep", wanted, s, n, f) <=> Defining(f)
    BY DEF Table, Extended
  <1>3. Defining(iter)
    <2> HIDE DEF Defining
    <2> QED
      BY <1>2, TableExists
  <1>4. Table("keep", wanted, s, n, iter)
    <2> HIDE DEF Defining, iter
    <2> QED
      BY <1>2, <1>3
  <1> QED
    <2> HIDE DEF iter
    <2> QED
      BY <1>1, <1>4, StagesOf

-----------------------------------------------------------------------------
(* Sequences of anything.                                                   *)

IsSequence(s) == \E T : s \in Seq(T)

\* A sequence is a function on the numbers up to its length.
LEMMA SequenceFacts ==
    ASSUME NEW s, IsSequence(s)
    PROVE  Len(s) \in Nat /\ DOMAIN s = 1 .. Len(s) /\ s = [i \in 1 .. Len(s) |-> s[i]]
  BY DEF IsSequence

\* And such a function is a sequence.
LEMMA FunctionIsSequence ==
    ASSUME NEW n \in Nat, NEW f, f = [i \in 1 .. n |-> f[i]]
    PROVE  IsSequence(f) /\ Len(f) = n /\ DOMAIN f = 1 .. n
  <1> DEFINE T == {f[i] : i \in 1 .. n}
  <1>1. f \in [1 .. n -> T]
    OBVIOUS
  <1> HIDE DEF T
  <1>2. f \in Seq(T)
    BY <1>1
  <1>3. Len(f) = n /\ DOMAIN f = 1 .. n
    BY <1>1, <1>2
  <1> QED
    BY <1>2, <1>3 DEF IsSequence

\* An element is appended.
LEMMA AppendedFacts ==
    ASSUME NEW s, IsSequence(s), NEW x
    PROVE  /\ IsSequence(Append(s, x)) /\ Len(Append(s, x)) = Len(s) + 1
           /\ DOMAIN Append(s, x) = 1 .. Len(s) + 1
           /\ \A i \in 1 .. Len(s) : Append(s, x)[i] = s[i]
           /\ Append(s, x)[Len(s) + 1] = x
  <1>1. PICK T : s \in Seq(T)
    BY DEF IsSequence
  <1> DEFINE U == T \union {x}
  <1>2. s \in [1 .. Len(s) -> T] /\ Len(s) \in Nat
    BY <1>1
  <1>3. s \in Seq(U)
    BY <1>1
  <1>4. Append(s, x) \in Seq(U)
    BY <1>3
  <1> QED
    BY <1>3, <1>4 DEF IsSequence

\* An element is overwritten.
LEMMA OverwrittenFacts ==
    ASSUME NEW s, IsSequence(s), NEW i \in DOMAIN s, NEW x
    PROVE  /\ IsSequence([s EXCEPT ![i] = x]) /\ Len([s EXCEPT ![i] = x]) = Len(s)
           /\ DOMAIN [s EXCEPT ![i] = x] = DOMAIN s
           /\ [s EXCEPT ![i] = x][i] = x
           /\ \A j \in DOMAIN s \ {i} : [s EXCEPT ![i] = x][j] = s[j]
  <1> DEFINE f == [s EXCEPT ![i] = x]
  <1>1. Len(s) \in Nat /\ DOMAIN s = 1 .. Len(s)
    BY SequenceFacts
  <1>2. f = [j \in 1 .. Len(s) |-> f[j]]
    BY <1>1
  <1>3. /\ DOMAIN f = DOMAIN s /\ f[i] = x
        /\ \A j \in DOMAIN s \ {i} : f[j] = s[j]
    BY <1>1
  <1> HIDE DEF f
  <1>4. IsSequence(f) /\ Len(f) = Len(s)
    BY <1>1, <1>2, FunctionIsSequence
  <1> QED
    BY <1>3, <1>4 DEF f

\* Two sequences are joined.
LEMMA JoinedFacts ==
    ASSUME NEW s, IsSequence(s), NEW t, IsSequence(t)
    PROVE  /\ IsSequence(s \o t) /\ Len(s \o t) = Len(s) + Len(t)
           /\ \A i \in 1 .. Len(s) : (s \o t)[i] = s[i]
           /\ \A i \in 1 .. Len(t) : (s \o t)[Len(s) + i] = t[i]
           /\ \A k \in 1 .. Len(s) + Len(t) :
                  \/ \E i \in 1 .. Len(s) : (s \o t)[k] = s[i]
                  \/ \E i \in 1 .. Len(t) : (s \o t)[k] = t[i]
  <1>1. /\ Len(s) \in Nat /\ Len(t) \in Nat
    BY SequenceFacts
  <1> DEFINE f == s \o t
  <1>2. f = [k \in 1 .. Len(s) + Len(t) |-> IF k <= Len(s) THEN s[k] ELSE t[k - Len(s)]]
    <2>1. PICK S : s \in Seq(S)
      BY DEF IsSequence
    <2>2. PICK T : t \in Seq(T)
      BY DEF IsSequence
    <2> DEFINE U == S \union T
    <2>3. s \in Seq(U) /\ t \in Seq(U)
      BY <2>1, <2>2
    <2> HIDE DEF U
    <2>4. DOMAIN f = 1 .. Len(s) + Len(t)
      BY <1>1, <2>3
    <2>5. \A k \in 1 .. Len(s) + Len(t) : f[k] = IF k <= Len(s) THEN s[k] ELSE t[k - Len(s)]
      BY <1>1, <2>3
    <2>6. IsSequence(f)
      BY <2>3 DEF IsSequence
    <2>7. f = [k \in DOMAIN f |-> f[k]]
      <3> HIDE DEF f
      <3> QED
        BY <2>6, SequenceFacts
    <2> HIDE DEF f
    <2>8. \A k \in DOMAIN f : f[k] = IF k <= Len(s) THEN s[k] ELSE t[k - Len(s)]
      BY <2>4, <2>5
    <2> QED
      BY <2>4, <2>7, <2>8
  <1>3. f = [k \in 1 .. Len(s) + Len(t) |-> f[k]]
    BY <1>2
  <1>4. /\ \A i \in 1 .. Len(s) : f[i] = s[i]
        /\ \A i \in 1 .. Len(t) : f[Len(s) + i] = t[i]
    BY <1>1, <1>2
  <1>5. ASSUME NEW k \in 1 .. Len(s) + Len(t)
        PROVE  \/ \E i \in 1 .. Len(s) : f[k] = s[i]
               \/ \E i \in 1 .. Len(t) : f[k] = t[i]
    <2>1. CASE k <= Len(s)
      BY <1>1, <1>2, <2>1
    <2>2. CASE ~(k <= Len(s))
      <3>1. k - Len(s) \in 1 .. Len(t) /\ f[k] = t[k - Len(s)]
        BY <1>1, <1>2, <2>2
      <3> QED
        BY <3>1
    <2> QED
      BY <2>1, <2>2
  <1> HIDE DEF f
  <1>6. IsSequence(f) /\ Len(f) = Len(s) + Len(t)
    BY <1>1, <1>3, FunctionIsSequence
  <1> QED
    BY <1>4, <1>5, <1>6 DEF f

\* What holds before the first stage, and of each stage after the one before it,
\* holds of the last.
LEMMA InductionUpTo ==
    ASSUME NEW n \in Nat, NEW T, 0 \in T, \A k \in 1 .. n : k - 1 \in T => k \in T
    PROVE  n \in T
  <1> DEFINE U == {k \in Nat : k \in T \/ k > n}
  <1>1. 0 \in U
    OBVIOUS
  <1>2. \A k \in Nat \cap U : k + 1 \in U
    <2> SUFFICES ASSUME NEW k \in Nat \cap U
                 PROVE  k + 1 \in U
      OBVIOUS
    <2>1. CASE k + 1 > n
      BY <2>1
    <2>2. CASE ~(k + 1 > n)
      <3>1. k + 1 \in 1 .. n /\ (k + 1) - 1 = k /\ k \in T
        BY <2>2
      <3>2. k + 1 \in T
        BY <3>1
      <3> QED
        BY <3>2
    <2> QED
      BY <2>1, <2>2
  <1>3. n \in U
    <2> HIDE DEF U
    <2> QED
      BY <1>1, <1>2, InductionOnNat
  <1> QED
    BY <1>3

\* The elements that are kept are wanted, come from the sequence, and are all
\* that are wanted of it.
LEMMA KeptFacts ==
    ASSUME NEW s, IsSequence(s), NEW wanted
    PROVE  /\ IsSequence(Kept(s, wanted))
           /\ \A i \in DOMAIN Kept(s, wanted) :
                  Kept(s, wanted)[i] \in wanted /\ Kept(s, wanted)[i] \in ToSet(s)
           /\ \A j \in DOMAIN s : s[j] \in wanted =>
                  \E i \in DOMAIN Kept(s, wanted) : Kept(s, wanted)[i] = s[j]
  <1> DEFINE n == Len(s)
  <1>1. n \in Nat /\ DOMAIN s = 1 .. n
    BY SequenceFacts
  <1> HIDE DEF n
  <1>2. PICK F : Stage("keep", wanted, s, n, F) /\ F[n] = Kept(s, wanted)
    BY <1>1, FoldOfKept
  <1> DEFINE Holds(k) ==
                /\ IsSequence(F[k])
                /\ \A i \in DOMAIN F[k] : F[k][i] \in wanted /\ F[k][i] \in ToSet(s)
                /\ \A j \in 1 .. k : s[j] \in wanted => \E i \in DOMAIN F[k] : F[k][i] = s[j]
             T == {k \in 0 .. n : Holds(k)}
  <1>3. 0 \in T
    <2>1. F[0] = <<>> /\ IsSequence(<<>>)
      BY <1>2 DEF Stage, IsSequence
    <2>2. Holds(0)
      BY <2>1
    <2> QED
      BY <1>1, <2>2
  <1>4. ASSUME NEW k \in 1 .. n, k - 1 \in T
        PROVE  k \in T
    <2>1. F[k] = IF s[k] \in wanted THEN Append(F[k - 1], s[k]) ELSE F[k - 1]
      BY <1>2 DEF Stage, Extended
    <2>2. Holds(k - 1)
      BY <1>4
    <2> DEFINE old == F[k - 1]
    <2>3. /\ s[k] \in ToSet(s) /\ k \in Nat /\ k \in 1 .. k
          /\ \A j \in 1 .. k : j # k => j \in 1 .. (k - 1)
      BY <1>1 DEF ToSet
    <2>4. CASE s[k] \in wanted
      <3>1. F[k] = Append(old, s[k])
        BY <2>1, <2>4
      <3>2. IsSequence(old)
        BY <2>2
      <3> HIDE DEF old
      <3>3. /\ IsSequence(F[k]) /\ DOMAIN F[k] = 1 .. Len(old) + 1
            /\ \A i \in 1 .. Len(old) : F[k][i] = old[i]
            /\ F[k][Len(old) + 1] = s[k]
        BY <3>1, <3>2, AppendedFacts
      <3>4. Len(old) \in Nat /\ DOMAIN old = 1 .. Len(old)
        BY <3>2, SequenceFacts
      <3>5. ASSUME NEW i \in DOMAIN F[k]
            PROVE  F[k][i] \in wanted /\ F[k][i] \in ToSet(s)
        <4>1. CASE i = Len(old) + 1
          BY <2>3, <2>4, <3>3, <4>1
        <4>2. CASE i # Len(old) + 1
          <5>1. i \in DOMAIN old /\ F[k][i] = old[i]
            BY <3>3, <3>4, <3>5, <4>2
          <5> QED
            BY <2>2, <5>1 DEF old
        <4> QED
          BY <4>1, <4>2
      <3>6. ASSUME NEW j \in 1 .. k, s[j] \in wanted
            PROVE  \E i \in DOMAIN F[k] : F[k][i] = s[j]
        <4>1. CASE j = k
          <5>1. Len(old) + 1 \in DOMAIN F[k]
            BY <3>3, <3>4
          <5> QED
            BY <3>3, <4>1, <5>1
        <4>2. CASE j # k
          <5>1. PICK i \in DOMAIN old : old[i] = s[j]
            BY <2>2, <2>3, <3>6, <4>2 DEF old
          <5>2. i \in DOMAIN F[k] /\ F[k][i] = old[i]
            BY <3>3, <3>4
          <5> QED
            BY <5>1, <5>2
        <4> QED
          BY <4>1, <4>2
      <3> QED
        BY <3>3, <3>5, <3>6
    <2>5. CASE s[k] \notin wanted
      <3>1. F[k] = old
        BY <2>1, <2>5
      <3> QED
        BY <2>2, <2>3, <2>5, <3>1
    <2> QED
      BY <2>4, <2>5
  <1>5. n \in T
    <2> HIDE DEF T
    <2> QED
      BY <1>1, <1>3, <1>4, InductionUpTo
  <1>6. Holds(n)
    BY <1>5
  <1> QED
    BY <1>1, <1>2, <1>6

-----------------------------------------------------------------------------
(* DimensionEvidence: texts.                                                *)

IsText(x) == x = [value |-> x.value, page |-> x.page, box |-> x.box, passes |-> x.passes,
                  confirm |-> x.confirm]

\* A text is in an item of its value at its place.
Seen(text, item) ==
    /\ item.value = text.value /\ item.page = text.page /\ text.pass \in item.passes
    /\ item.box = text.box \/ SameLocation(item.box, text.box)

\* A text is in the item that is made of it.
LEMMA ObservedIsText ==
    ASSUME NEW text
    PROVE  IsText(ObservedText(text)) /\ Seen(text, ObservedText(text))
  BY DEF IsText, ObservedText, Seen

\* A text that is added is in an item, and what other items hold stays.
LEMMA AddedText ==
    ASSUME NEW items, IsSequence(items), \A i \in DOMAIN items : IsText(items[i]), NEW text,
           NEW new, new = AddText(items, text),
           NEW boxes, text.box \in boxes, \A i \in DOMAIN items : items[i].box \in boxes
    PROVE  /\ IsSequence(new) /\ \A i \in DOMAIN new : IsText(new[i]) /\ new[i].box \in boxes
           /\ \E i \in DOMAIN new : Seen(text, new[i])
           /\ \A i \in DOMAIN items :
                  \A t : Seen(t, items[i]) => i \in DOMAIN new /\ Seen(t, new[i])
  <1>1. Len(items) \in Nat /\ DOMAIN items = 1 .. Len(items)
    BY SequenceFacts
  <1>2. CASE Duplicates(items, text) = {}
    <2> DEFINE x == ObservedText(text)
    <2>1. IsText(x) /\ Seen(text, x)
      BY ObservedIsText
    <2>2. new = Append(items, x)
      BY <1>2 DEF AddText
    <2> HIDE DEF x
    <2>3. /\ IsSequence(new) /\ DOMAIN new = 1 .. Len(items) + 1
          /\ \A i \in 1 .. Len(items) : new[i] = items[i]
          /\ new[Len(items) + 1] = x
      BY <2>2, AppendedFacts
    <2>4. Len(items) + 1 \in DOMAIN new
      BY <1>1, <2>3
    <2>5. \A i \in DOMAIN new : i = Len(items) + 1 \/ i \in DOMAIN items
      BY <1>1, <2>3
    <2>6. DOMAIN items \subseteq DOMAIN new
      BY <1>1, <2>3
    <2>7. x.box \in boxes
      BY DEF x, ObservedText
    <2>8. \A i \in DOMAIN new : IsText(new[i]) /\ new[i].box \in boxes
      BY <2>7, <1>1, <2>1, <2>3, <2>5
    <2>9. \E i \in DOMAIN new : Seen(text, new[i])
      BY <2>1, <2>3, <2>4
    <2> QED
      BY <1>1, <2>3, <2>6, <2>8, <2>9
  <1>3. CASE Duplicates(items, text) # {}
    <2> DEFINE m == Min(Duplicates(items, text))
               old == items[m]
               x == [old EXCEPT !.passes = @ \union {text.pass}]
    <2>1. Duplicates(items, text) \in SUBSET (1 .. Len(items))
      BY <1>1 DEF Duplicates
    <2>2. m \in Duplicates(items, text)
      BY <1>1, <1>3, <2>1, MinIsThere
    <2>3. new = [items EXCEPT ![m] = x]
      BY <1>3 DEF AddText
    <2> HIDE DEF m
    <2>4. /\ m \in DOMAIN items /\ old.value = text.value /\ old.page = text.page
          /\ SameLocation(old.box, text.box)
      BY <2>2 DEF Duplicates
    <2>5. IsText(old) /\ old.box \in boxes
      BY <2>4
    <2> HIDE DEF old
    <2>6. /\ x.value = old.value /\ x.page = old.page /\ x.box = old.box
          /\ x.passes = old.passes \union {text.pass}
          /\ IsText(x)
      BY <2>5 DEF IsText
    <2> HIDE DEF x
    <2>7. /\ IsSequence(new) /\ DOMAIN new = DOMAIN items /\ new[m] = x
          /\ \A i \in DOMAIN items \ {m} : new[i] = items[i]
      <3>1. m \in DOMAIN items
        BY <2>4
      <3>2. /\ IsSequence([items EXCEPT ![m] = x])
            /\ DOMAIN [items EXCEPT ![m] = x] = DOMAIN items /\ [items EXCEPT ![m] = x][m] = x
            /\ \A i \in DOMAIN items \ {m} : [items EXCEPT ![m] = x][i] = items[i]
        BY <3>1, OverwrittenFacts
      <3> QED
        BY <2>3, <3>2
    <2>8. Seen(text, new[m])
      BY <2>4, <2>6, <2>7 DEF Seen
    <2>9. \A t : Seen(t, items[m]) => Seen(t, new[m])
      BY <2>6, <2>7 DEF Seen, old
    <2>10. \A i \in DOMAIN new : IsText(new[i]) /\ new[i].box \in boxes
      BY <2>5, <2>6, <2>7
    <2> QED
      BY <2>4, <2>7, <2>8, <2>9, <2>10
  <1> QED
    BY <1>2, <1>3

\* After all texts, each is in an item.
LEMMA TextsFolded ==
    ASSUME NEW s, IsSequence(s), NEW boxes, \A j \in DOMAIN s : s[j].box \in boxes
    PROVE  LET items == FoldLeft(AddText, <<>>, s)
           IN  /\ IsSequence(items)
               /\ \A i \in DOMAIN items : IsText(items[i]) /\ items[i].box \in boxes
               /\ \A j \in DOMAIN s : \E i \in DOMAIN items : Seen(s[j], items[i])
  <1> DEFINE n == Len(s)
  <1>1. n \in Nat /\ DOMAIN s = 1 .. n
    BY SequenceFacts
  <1> HIDE DEF n
  <1>2. PICK F : Stage("text", {}, s, n, F) /\ F[n] = FoldLeft(AddText, <<>>, s)
    BY <1>1, FoldOfTexts
  <1> DEFINE Holds(k) ==
                /\ IsSequence(F[k])
                /\ \A i \in DOMAIN F[k] : IsText(F[k][i]) /\ F[k][i].box \in boxes
                /\ \A j \in 1 .. k : \E i \in DOMAIN F[k] : Seen(s[j], F[k][i])
             T == {k \in 0 .. n : Holds(k)}
  <1>3. 0 \in T
    <2>1. F[0] = <<>> /\ IsSequence(<<>>)
      BY <1>2 DEF Stage, IsSequence
    <2>2. Holds(0)
      BY <2>1
    <2> QED
      BY <1>1, <2>2
  <1>4. ASSUME NEW k \in 1 .. n, k - 1 \in T
        PROVE  k \in T
    <2>1. F[k] = AddText(F[k - 1], s[k])
      BY <1>2 DEF Stage, Extended
    <2>2. Holds(k - 1)
      BY <1>4
    <2>3. \A j \in 1 .. k : j # k => j \in 1 .. (k - 1)
      OBVIOUS
    <2> DEFINE old == F[k - 1]
               new == F[k]
    <2>4. /\ IsSequence(old) /\ new = AddText(old, s[k]) /\ s[k].box \in boxes
          /\ \A i \in DOMAIN old : IsText(old[i]) /\ old[i].box \in boxes
      BY <1>1, <2>1, <2>2
    <2> HIDE DEF old, new
    <2>5. /\ IsSequence(new)
          /\ \A i \in DOMAIN new : IsText(new[i]) /\ new[i].box \in boxes
          /\ \E i \in DOMAIN new : Seen(s[k], new[i])
          /\ \A i \in DOMAIN old : \A t : Seen(t, old[i]) => i \in DOMAIN new /\ Seen(t, new[i])
      BY <2>4, AddedText
    <2>6. ASSUME NEW j \in 1 .. k
          PROVE  \E i \in DOMAIN new : Seen(s[j], new[i])
      <3>1. CASE j = k
        BY <2>5, <3>1
      <3>2. CASE j # k
        <4>1. PICK i \in DOMAIN old : Seen(s[j], old[i])
          BY <2>2, <2>3, <3>2 DEF old
        <4> QED
          BY <2>5, <4>1
      <3> QED
        BY <3>1, <3>2
    <2>7. Holds(k)
      BY <2>5, <2>6 DEF new
    <2> QED
      BY <2>7
  <1>5. n \in T
    <2> HIDE DEF T
    <2> QED
      BY <1>1, <1>3, <1>4, InductionUpTo
  <1>6. Holds(n)
    BY <1>5
  <1> QED
    BY <1>1, <1>2, <1>6

\* An item is marked when no upright pass gave it or another one contradicts it.
LEMMA EvidenceFacts ==
    ASSUME NEW s, IsSequence(s), NEW rotations,
           NEW boxes, \A j \in DOMAIN s : s[j].box \in boxes
    PROVE  LET items == TextEvidence(s, rotations)
           IN  /\ IsSequence(items) /\ \A i \in DOMAIN items : items[i].box \in boxes
               /\ \A j \in DOMAIN s : \E i \in DOMAIN items : Seen(s[j], items[i])
               /\ rotations # {} => \A i \in DOMAIN items :
                      items[i].confirm \/ (0 \in items[i].passes /\ Conflicts(items, i) = {})
  <1>1. Len(s) \in Nat /\ DOMAIN s = 1 .. Len(s)
    BY SequenceFacts
  <1> DEFINE items == TextEvidence(s, rotations)
  <1>2. CASE rotations = {}
    <2>1. items = [i \in 1 .. Len(s) |-> ObservedText(s[i])]
      BY <1>1, <1>2 DEF TextEvidence
    <2> HIDE DEF items
    <2>2. items = [i \in 1 .. Len(s) |-> items[i]]
      BY <2>1
    <2>3. IsSequence(items) /\ DOMAIN items = 1 .. Len(s)
      BY <1>1, <2>2, FunctionIsSequence
    <2>4. \A i \in DOMAIN items : items[i].box \in boxes
      BY <1>1, <2>1, <2>3 DEF ObservedText
    <2>5. \A j \in DOMAIN s : Seen(s[j], items[j])
      BY <1>1, <2>1, ObservedIsText
    <2> QED
      BY <1>1, <1>2, <2>3, <2>4, <2>5 DEF items
  <1>3. CASE rotations # {}
    <2> DEFINE read == FoldLeft(AddText, <<>>, s)
               x(i) == [read[i] EXCEPT !.confirm = NeedsReview(read, i)]
    <2>1. /\ IsSequence(read)
          /\ \A i \in DOMAIN read : IsText(read[i]) /\ read[i].box \in boxes
          /\ \A j \in DOMAIN s : \E i \in DOMAIN read : Seen(s[j], read[i])
      BY TextsFolded
    <2>2. items = [i \in DOMAIN read |-> x(i)]
      BY <1>3 DEF TextEvidence, merge_orientation_evidence
    <2> HIDE DEF read, items
    <2>3. \A i \in DOMAIN read :
              /\ x(i).value = read[i].value /\ x(i).page = read[i].page
              /\ x(i).box = read[i].box /\ x(i).passes = read[i].passes
              /\ x(i).confirm <=> NeedsReview(read, i)
      BY <2>1 DEF IsText
    <2>4. Len(read) \in Nat /\ DOMAIN read = 1 .. Len(read)
      BY <2>1, SequenceFacts
    <2>5. items = [i \in 1 .. Len(read) |-> items[i]]
      <3> HIDE DEF x
      <3> QED
        BY <2>2, <2>4
    <2>6. IsSequence(items) /\ DOMAIN items = DOMAIN read
      BY <2>4, <2>5, FunctionIsSequence
    <2>7. \A i \in DOMAIN items :
              /\ items[i].value = read[i].value /\ items[i].page = read[i].page
              /\ items[i].box = read[i].box /\ items[i].passes = read[i].passes
              /\ items[i].confirm <=> NeedsReview(read, i)
      <3> HIDE DEF x
      <3> QED
        BY <2>2, <2>3, <2>6
    <2>8. \A i \in DOMAIN items : items[i].box \in boxes
      BY <2>1, <2>6, <2>7
    <2>9. \A j \in DOMAIN s : \E i \in DOMAIN items : Seen(s[j], items[i])
      BY <2>1, <2>6, <2>7 DEF Seen
    <2>10. ASSUME NEW i \in DOMAIN items, ~items[i].confirm
           PROVE  0 \in items[i].passes /\ Conflicts(items, i) = {}
      <3>1. 0 \in read[i].passes /\ Conflicts(read, i) = {}
        BY <2>6, <2>7, <2>10 DEF NeedsReview
      <3> QED
        BY <2>6, <2>7, <3>1 DEF Conflicts
    <2> QED
      BY <2>6, <2>8, <2>9, <2>10 DEF items
  <1> QED
    BY <1>2, <1>3

-----------------------------------------------------------------------------
(* DimensionEvidence: dimensions.                                           *)

\* The lesser and the greater of two numbers.
LEMMA OfTwo ==
    ASSUME NEW x \in Int, NEW y \in Int
    PROVE  /\ Min({x, y}) = IF x <= y THEN x ELSE y
           /\ Max({x, y}) = IF x <= y THEN y ELSE x
  <1>1. Min({x, y}) = IF x <= y THEN x ELSE y
    BY DEF Min
  <1>2. Max({x, y}) = IF x <= y THEN y ELSE x
    BY DEF Max
  <1> QED
    BY <1>1, <1>2

\* Boxes at one place share something, and cover something.
LEMMA SharesTyped ==
    ASSUME NEW a \in Box, NEW b \in Box, SameLocation(a, b)
    PROVE  /\ Shared(a, b) \in Int /\ Shared(a, b) > 0
           /\ Covered(a, b) \in Int /\ Covered(a, b) > 0
  <1>1. a \in Int \X Int /\ b \in Int \X Int /\ Shared(a, b) > 0
    BY DEF SameLocation, Box
  <1>2. a[1] \in Int /\ a[2] \in Int /\ b[1] \in Int /\ b[2] \in Int
    BY <1>1
  <1>3. Shared(a, b) = (IF a[2] <= b[2] THEN a[2] ELSE b[2])
                       - (IF a[1] <= b[1] THEN b[1] ELSE a[1])
    BY <1>2, OfTwo DEF Shared
  <1>4. Shared(a, b) \in Int /\ Shared(a, b) <= Width(a) /\ Shared(a, b) <= Width(b)
        /\ Width(a) \in Int /\ Width(b) \in Int
    BY <1>2, <1>3 DEF Width
  <1>5. Covered(a, b) = Width(a) + Width(b) - Shared(a, b)
    BY DEF Covered
  <1> HIDE DEF Box
  <1> QED
    BY <1>1, <1>4, <1>5

\* Of three shares, j at most i and i below k.
LEMMA ShareOrder ==
    ASSUME NEW sj \in Int, NEW cj \in Int, NEW si \in Int, NEW ci \in Int,
           NEW sk \in Int, NEW ck \in Int, cj > 0, ci > 0, ck > 0,
           ~(sj * ci > si * cj), sk * ci > si * ck
    PROVE  ~(sj * ck > sk * cj)
  <1>1. (sj * ci) * ck <= (si * cj) * ck
    OBVIOUS
  <1>2. (si * ck) * cj < (sk * ci) * cj
    OBVIOUS
  <1>3. (sj * ci) * ck = ci * (sj * ck) /\ (sk * ci) * cj = ci * (sk * cj)
        /\ (si * cj) * ck = (si * ck) * cj
    OBVIOUS
  <1>4. ci * (sj * ck) < ci * (sk * cj)
    BY <1>1, <1>2, <1>3
  <1>5. sj * ck < sk * cj
    BY <1>4
  <1> QED
    BY <1>5

\* Of the dimensions that match, one is closest.
LEMMA BestIsThere ==
    ASSUME NEW merged, IsSequence(merged), \A i \in DOMAIN merged : merged[i].box \in Box,
           NEW d, d.box \in Box, Matches(merged, d) # {}
    PROVE  Best(merged, d) \in Matches(merged, d)
  <1> DEFINE n == Len(merged)
             M == Matches(merged, d)
             C(j, i) == Closer(merged[j].box, merged[i].box, d.box)
             T == {m \in Nat : \A u \in SUBSET (1 .. m) :
                      u # {} /\ u \subseteq M => \E i \in u : \A j \in u : ~C(j, i)}
  <1>1. n \in Nat /\ M \in SUBSET (1 .. n)
    BY SequenceFacts DEF Matches
  <1>2. ASSUME NEW i \in M
        PROVE  /\ Shared(merged[i].box, d.box) \in Int
               /\ Covered(merged[i].box, d.box) \in Int /\ Covered(merged[i].box, d.box) > 0
    BY SharesTyped DEF Matches
  <1>3. \A i \in M : ~C(i, i)
    <2> HIDE DEF M
    <2> QED
      BY <1>2 DEF Closer
  <1>4. ASSUME NEW i \in M, NEW j \in M, NEW k \in M, ~C(j, i), C(k, i)
        PROVE  ~C(j, k)
    <2> HIDE DEF M
    <2> QED
      BY <1>2, <1>4, ShareOrder DEF Closer
  <1> HIDE DEF C, M
  <1>5. 0 \in T
    <2>1. 1 .. 0 = {}
      OBVIOUS
    <2> QED
      BY <2>1
  <1>6. ASSUME NEW m \in Nat \cap T
        PROVE  m + 1 \in T
    <2>1. ASSUME NEW u \in SUBSET (1 .. m + 1), u # {}, u \subseteq M
          PROVE  \E i \in u : \A j \in u : ~C(j, i)
      <3> DEFINE v == u \ {m + 1}
      <3>1. v \in SUBSET (1 .. m) /\ v \subseteq M /\ v \subseteq u
        BY <2>1
      <3>2. CASE v = {}
        <4>1. u = {m + 1}
          BY <2>1, <3>2
        <4> QED
          BY <1>3, <2>1, <4>1
      <3>3. CASE v # {}
        <4>1. PICK i \in v : \A j \in v : ~C(j, i)
          <5> HIDE DEF v
          <5> QED
            BY <3>1, <3>3
        <4>2. CASE m + 1 \in u /\ C(m + 1, i)
          <5>1. \A j \in v : ~C(j, m + 1)
            BY <1>4, <2>1, <3>1, <4>1, <4>2
          <5>2. ~C(m + 1, m + 1)
            BY <1>3, <2>1, <4>2
          <5> QED
            BY <4>2, <5>1, <5>2
        <4>3. CASE ~(m + 1 \in u /\ C(m + 1, i))
          BY <3>1, <4>1, <4>3
        <4> QED
          BY <4>2, <4>3
      <3> QED
        BY <3>2, <3>3
    <2> QED
      BY <2>1
  <1>7. n \in T
    <2> HIDE DEF T
    <2> QED
      BY <1>1, <1>5, <1>6, InductionOnNat
  <1>8. \E i \in M : \A j \in M : ~C(j, i)
    <2>1. M # {}
      BY DEF M
    <2> QED
      BY <1>1, <1>7, <2>1
  <1> DEFINE closest == {i \in M : \A j \in M : ~C(j, i)}
  <1>9. closest \in SUBSET (1 .. n) /\ closest # {}
    BY <1>1, <1>8
  <1>10. Best(merged, d) = Min(closest)
    BY DEF Best, M, C
  <1> HIDE DEF n
  <1>11. Min(closest) \in closest
    BY <1>1, <1>9, MinIsThere
  <1> QED
    BY <1>10, <1>11 DEF M

IsDimension(x) ==
    /\ x = [value |-> x.value, page |-> x.page, box |-> x.box, confirm |-> x.confirm,
            provenance |-> x.provenance]
    /\ x.box \in Box

\* One dimension holds the evidence and the mark of another.
Holding(x, d) ==
    /\ x.value = d.value /\ x.page = d.page /\ d.provenance \subseteq x.provenance
    /\ d.confirm => x.confirm

\* A dimension that is added is held by one, what others hold stays, and there
\* is no evidence but its own and theirs.
LEMMA AddedDimension ==
    ASSUME NEW merged, IsSequence(merged), \A i \in DOMAIN merged : IsDimension(merged[i]),
           NEW d, IsDimension(d), NEW new, new = AddDimension(merged, d)
    PROVE  /\ IsSequence(new) /\ \A i \in DOMAIN new : IsDimension(new[i])
           /\ \E i \in DOMAIN new : Holding(new[i], d)
           /\ \A i \in DOMAIN merged :
                  i \in DOMAIN new /\ \A x : Holding(merged[i], x) => Holding(new[i], x)
           /\ \A i \in DOMAIN new : \A p \in new[i].provenance :
                  \/ p \in d.provenance /\ Holding(new[i], d)
                  \/ i \in DOMAIN merged /\ p \in merged[i].provenance
  <1>1. Len(merged) \in Nat /\ DOMAIN merged = 1 .. Len(merged)
    BY SequenceFacts
  <1>2. CASE Matches(merged, d) = {}
    <2>1. new = Append(merged, d)
      BY <1>2 DEF AddDimension
    <2>2. /\ IsSequence(new) /\ DOMAIN new = 1 .. Len(merged) + 1
          /\ \A i \in 1 .. Len(merged) : new[i] = merged[i]
          /\ new[Len(merged) + 1] = d
      BY <2>1, AppendedFacts
    <2>3. Len(merged) + 1 \in DOMAIN new
      BY <1>1, <2>2
    <2>4. \A i \in DOMAIN new : i = Len(merged) + 1 \/ i \in DOMAIN merged
      BY <1>1, <2>2
    <2>5. DOMAIN merged \subseteq DOMAIN new
      BY <1>1, <2>2
    <2>6. \A i \in DOMAIN new : IsDimension(new[i])
      BY <1>1, <2>2, <2>4
    <2>7. Holding(d, d)
      BY DEF Holding
    <2>8. \A i \in DOMAIN new : \A p \in new[i].provenance :
              \/ p \in d.provenance /\ Holding(new[i], d)
              \/ i \in DOMAIN merged /\ p \in merged[i].provenance
      BY <1>1, <2>2, <2>4, <2>7
    <2> QED
      BY <1>1, <2>2, <2>3, <2>5, <2>6, <2>7, <2>8
  <1>3. CASE Matches(merged, d) # {}
    <2> DEFINE m == Best(merged, d)
               old == merged[m]
               x == Joined(old, d)
    <2>1. m \in Matches(merged, d)
      <3>1. d.box \in Box /\ \A i \in DOMAIN merged : merged[i].box \in Box
        BY DEF IsDimension
      <3> QED
        BY <1>3, <3>1, BestIsThere
    <2>2. new = [merged EXCEPT ![m] = x]
      BY <1>3 DEF AddDimension
    <2> HIDE DEF m
    <2>3. m \in DOMAIN merged /\ old.value = d.value /\ old.page = d.page
      BY <2>1 DEF Matches
    <2>4. IsDimension(old)
      BY <2>3
    <2> HIDE DEF old
    <2>5. /\ x.value = old.value /\ x.page = old.page /\ x.box = old.box
          /\ x.provenance = old.provenance \union d.provenance
          /\ x.confirm <=> (old.confirm \/ d.confirm)
          /\ x = [value |-> x.value, page |-> x.page, box |-> x.box, confirm |-> x.confirm,
                  provenance |-> x.provenance]
      <3> DEFINE mark == old.confirm \/ d.confirm
                 evidence == old.provenance \union d.provenance
      <3>1. x = [old EXCEPT !.provenance = evidence, !.confirm = mark]
        BY DEF Joined
      <3> HIDE DEF mark, evidence, x
      <3>2. x = [value |-> old.value, page |-> old.page, box |-> old.box, confirm |-> mark,
                 provenance |-> evidence]
        BY <2>4, <3>1 DEF IsDimension
      <3>3. mark <=> (old.confirm \/ d.confirm)
        BY DEF mark
      <3> QED
        BY <3>2, <3>3 DEF evidence
    <2> HIDE DEF x
    <2>6. IsDimension(x)
      BY <2>4, <2>5 DEF IsDimension
    <2>7. /\ IsSequence(new) /\ DOMAIN new = DOMAIN merged /\ new[m] = x
          /\ \A i \in DOMAIN merged \ {m} : new[i] = merged[i]
      <3>1. m \in DOMAIN merged
        BY <2>3
      <3>2. /\ IsSequence([merged EXCEPT ![m] = x])
            /\ DOMAIN [merged EXCEPT ![m] = x] = DOMAIN merged /\ [merged EXCEPT ![m] = x][m] = x
            /\ \A i \in DOMAIN merged \ {m} : [merged EXCEPT ![m] = x][i] = merged[i]
        BY <3>1, OverwrittenFacts
      <3> QED
        BY <2>2, <3>2
    <2>8. Holding(x, d)
      BY <2>3, <2>5 DEF Holding
    <2>9. \A y : Holding(old, y) => Holding(x, y)
      BY <2>5 DEF Holding
    <2>10. \A i \in DOMAIN new : IsDimension(new[i])
      BY <2>6, <2>7
    <2>11. ASSUME NEW i \in DOMAIN merged
           PROVE  i \in DOMAIN new /\ \A y : Holding(merged[i], y) => Holding(new[i], y)
      BY <2>7, <2>9 DEF old
    <2>12. ASSUME NEW i \in DOMAIN new, NEW p \in new[i].provenance
           PROVE  \/ p \in d.provenance /\ Holding(new[i], d)
                  \/ i \in DOMAIN merged /\ p \in merged[i].provenance
      <3>1. CASE i = m
        BY <2>3, <2>5, <2>7, <2>8, <2>12, <3>1 DEF old
      <3>2. CASE i # m
        BY <2>7, <2>12, <3>2
      <3> QED
        BY <3>1, <3>2
    <2>13. \E i \in DOMAIN new : Holding(new[i], d)
      BY <2>3, <2>7, <2>8
    <2> QED
      BY <2>7, <2>10, <2>11, <2>12, <2>13
  <1> QED
    BY <1>2, <1>3

\* After all dimensions, each is held by one, and all evidence stems from one
\* that is held.
LEMMA DimensionsFolded ==
    ASSUME NEW s, IsSequence(s), \A j \in DOMAIN s : IsDimension(s[j])
    PROVE  LET merged == FoldLeft(AddDimension, <<>>, s)
           IN  /\ IsSequence(merged)
               /\ \A j \in DOMAIN s : \E i \in DOMAIN merged : Holding(merged[i], s[j])
               /\ \A i \in DOMAIN merged : \A p \in merged[i].provenance :
                      \E j \in DOMAIN s : p \in s[j].provenance /\ Holding(merged[i], s[j])
  <1> DEFINE n == Len(s)
  <1>1. n \in Nat /\ DOMAIN s = 1 .. n
    BY SequenceFacts
  <1> HIDE DEF n
  <1>2. PICK F : Stage("dimension", {}, s, n, F) /\ F[n] = FoldLeft(AddDimension, <<>>, s)
    BY <1>1, FoldOfDimensions
  <1> DEFINE Holds(k) ==
                /\ IsSequence(F[k]) /\ \A i \in DOMAIN F[k] : IsDimension(F[k][i])
                /\ \A j \in 1 .. k : \E i \in DOMAIN F[k] : Holding(F[k][i], s[j])
                /\ \A i \in DOMAIN F[k] : \A p \in F[k][i].provenance :
                       \E j \in 1 .. k : p \in s[j].provenance /\ Holding(F[k][i], s[j])
             T == {k \in 0 .. n : Holds(k)}
  <1>3. 0 \in T
    <2>1. F[0] = <<>> /\ IsSequence(<<>>)
      BY <1>2 DEF Stage, IsSequence
    <2>2. Holds(0)
      BY <2>1
    <2> QED
      BY <1>1, <2>2
  <1>4. ASSUME NEW k \in 1 .. n, k - 1 \in T
        PROVE  k \in T
    <2>1. F[k] = AddDimension(F[k - 1], s[k])
      BY <1>2 DEF Stage, Extended
    <2>2. Holds(k - 1)
      BY <1>4
    <2>3. k \in 1 .. k /\ \A j \in 1 .. k : j # k => j \in 1 .. (k - 1)
      OBVIOUS
    <2>4. \A j \in 1 .. (k - 1) : j \in 1 .. k
      OBVIOUS
    <2> DEFINE old == F[k - 1]
               new == F[k]
    <2>5. /\ IsSequence(old) /\ new = AddDimension(old, s[k]) /\ IsDimension(s[k])
          /\ \A i \in DOMAIN old : IsDimension(old[i])
      BY <1>1, <2>1, <2>2
    <2>6. /\ \A j \in 1 .. (k - 1) : \E i \in DOMAIN old : Holding(old[i], s[j])
          /\ \A i \in DOMAIN old : \A p \in old[i].provenance :
                 \E j \in 1 .. (k - 1) : p \in s[j].provenance /\ Holding(old[i], s[j])
      BY <2>2
    <2> HIDE DEF old, new
    <2>7. /\ IsSequence(new) /\ \A i \in DOMAIN new : IsDimension(new[i])
          /\ \E i \in DOMAIN new : Holding(new[i], s[k])
          /\ \A i \in DOMAIN old :
                 i \in DOMAIN new /\ \A x : Holding(old[i], x) => Holding(new[i], x)
          /\ \A i \in DOMAIN new : \A p \in new[i].provenance :
                 \/ p \in s[k].provenance /\ Holding(new[i], s[k])
                 \/ i \in DOMAIN old /\ p \in old[i].provenance
      BY <2>5, AddedDimension
    <2>8. ASSUME NEW j \in 1 .. k
          PROVE  \E i \in DOMAIN new : Holding(new[i], s[j])
      <3>1. CASE j = k
        BY <2>7, <3>1
      <3>2. CASE j # k
        <4>1. PICK i \in DOMAIN old : Holding(old[i], s[j])
          BY <2>3, <2>6, <3>2
        <4> QED
          BY <2>7, <4>1
      <3> QED
        BY <3>1, <3>2
    <2>9. ASSUME NEW i \in DOMAIN new, NEW p \in new[i].provenance
          PROVE  \E j \in 1 .. k : p \in s[j].provenance /\ Holding(new[i], s[j])
      <3>1. CASE p \in s[k].provenance /\ Holding(new[i], s[k])
        BY <2>3, <3>1
      <3>2. CASE i \in DOMAIN old /\ p \in old[i].provenance
        <4>1. PICK j \in 1 .. (k - 1) : p \in s[j].provenance /\ Holding(old[i], s[j])
          BY <2>6, <3>2
        <4>2. Holding(new[i], s[j])
          BY <2>7, <3>2, <4>1
        <4> QED
          BY <2>4, <4>1, <4>2
      <3> QED
        BY <2>7, <2>9, <3>1, <3>2
    <2>10. Holds(k)
      BY <2>7, <2>8, <2>9 DEF new
    <2> QED
      BY <2>10
  <1>5. n \in T
    <2> HIDE DEF T
    <2> QED
      BY <1>1, <1>3, <1>4, InductionUpTo
  <1>6. Holds(n)
    BY <1>5
  <1> QED
    BY <1>1, <1>2, <1>6

-----------------------------------------------------------------------------
(* AnalysisCache: what an analysis makes of what is read.                   *)

\* Whether evidence is of a text.
Shows(p, text) ==
    /\ p.source = "ocr" /\ text.pass \in p.passes
    /\ p.box = text.box \/ SameLocation(p.box, text.box)

\* Nothing else was read at the place of evidence that an upright pass gave.
Undoubted(p, d, found) ==
    /\ 0 \in p.passes
    /\ \A j \in DOMAIN found : \A q \in found[j].provenance :
           ~(found[j].value # d.value /\ found[j].page = d.page /\ SameLocation(q.box, p.box))

\* The text of the PDF gives dimensions that no OCR is evidence for.
LEMMA VectorFacts ==
    ASSUME NEW source, IsSequence(source.words), NEW pages,
           \A x \in ToSet(source.words) : x.box \in Box
    PROVE  LET dimensions == VectorDimensions(source, pages)
           IN  /\ IsSequence(dimensions)
               /\ \A i \in DOMAIN dimensions :
                      /\ IsDimension(dimensions[i])
                      /\ \A p \in dimensions[i].provenance : p.source = "vector_text"
  <1> DEFINE words == Upto(source.words, pages)
             dimensions == [i \in DOMAIN words |-> VectorDimension(words[i])]
  <1>1. /\ IsSequence(words)
        /\ \A i \in DOMAIN words : words[i] \in ToSet(source.words)
    BY KeptFacts DEF Upto
  <1> HIDE DEF words
  <1>2. Len(words) \in Nat /\ DOMAIN words = 1 .. Len(words)
    BY <1>1, SequenceFacts
  <1>3. IsSequence(dimensions) /\ DOMAIN dimensions = DOMAIN words
    <2>1. dimensions = [i \in 1 .. Len(words) |-> dimensions[i]]
      BY <1>2
    <2> HIDE DEF dimensions
    <2> QED
      BY <1>2, <2>1, FunctionIsSequence
  <1>4. ASSUME NEW i \in DOMAIN dimensions
        PROVE  /\ IsDimension(dimensions[i])
               /\ \A p \in dimensions[i].provenance : p.source = "vector_text"
    <2> DEFINE word == words[i]
    <2>1. dimensions[i] = VectorDimension(word) /\ word.box \in Box
      BY <1>1, <1>3
    <2> HIDE DEF word, dimensions
    <2> QED
      BY <2>1 DEF VectorDimension, IsDimension
  <1> QED
    BY <1>3, <1>4 DEF VectorDimensions, words

\* Each text that OCR reads is shown by a dimension, and those that are not marked
\* are undoubted.
LEMMA OcrFacts ==
    ASSUME NEW source, IsSequence(source.texts), NEW selected, NEW rotations,
           \A x \in ToSet(source.texts) : x.box \in Box
    PROVE  LET found == extract_ocr(source, selected, rotations)
           IN  /\ IsSequence(found)
               /\ \A i \in DOMAIN found :
                      /\ IsDimension(found[i])
                      /\ \A p \in found[i].provenance : p.source = "ocr"
               /\ \A t \in ToSet(source.texts) :
                      t.page \in selected /\ t.pass \in {0} \union rotations =>
                          \E i \in DOMAIN found :
                              /\ found[i].value = t.value /\ found[i].page = t.page
                              /\ \E p \in found[i].provenance : Shows(p, t)
               /\ rotations # {} =>
                      \A i \in DOMAIN found : \/ found[i].confirm
                                              \/ \A p \in found[i].provenance :
                                                     Undoubted(p, found[i], found)
  <1> DEFINE wanted == {t \in ToSet(source.texts) :
                           t.page \in selected /\ t.pass \in {0} \union rotations}
             texts == Kept(source.texts, wanted)
             items == TextEvidence(texts, rotations)
             found == [i \in DOMAIN items |-> OcrDimension(items[i])]
  <1>1. /\ IsSequence(texts)
        /\ \A i \in DOMAIN texts : texts[i] \in ToSet(source.texts)
        /\ \A t \in wanted : \E i \in DOMAIN texts : texts[i] = t
    <2>1. \A t \in wanted : \E j \in DOMAIN source.texts : source.texts[j] = t
      BY DEF ToSet
    <2>2. \A j \in DOMAIN source.texts : source.texts[j] \in wanted =>
              \E i \in DOMAIN texts : texts[i] = source.texts[j]
      <3> HIDE DEF wanted
      <3> QED
        BY KeptFacts
    <2>3. /\ IsSequence(texts)
          /\ \A i \in DOMAIN texts : texts[i] \in ToSet(source.texts)
      <3> HIDE DEF wanted
      <3> QED
        BY KeptFacts
    <2> HIDE DEF wanted, texts
    <2> QED
      BY <2>1, <2>2, <2>3
  <1> HIDE DEF texts
  <1>2. /\ IsSequence(items) /\ \A i \in DOMAIN items : items[i].box \in Box
        /\ \A j \in DOMAIN texts : \E i \in DOMAIN items : Seen(texts[j], items[i])
        /\ rotations # {} => \A i \in DOMAIN items :
               items[i].confirm \/ (0 \in items[i].passes /\ Conflicts(items, i) = {})
    <2>1. \A j \in DOMAIN texts : texts[j].box \in Box
      BY <1>1
    <2> QED
      BY <1>1, <2>1, EvidenceFacts
  <1> HIDE DEF items
  <1>3. Len(items) \in Nat /\ DOMAIN items = 1 .. Len(items)
    BY <1>2, SequenceFacts
  <1>4. IsSequence(found) /\ DOMAIN found = DOMAIN items
    <2>1. found = [i \in 1 .. Len(items) |-> found[i]]
      BY <1>3
    <2> HIDE DEF found
    <2> QED
      BY <1>3, <2>1, FunctionIsSequence
  <1>5. \A i \in DOMAIN found : found[i] = OcrDimension(items[i])
    BY <1>4
  <1> HIDE DEF found
  <1>6. ASSUME NEW i \in DOMAIN found
        PROVE  /\ IsDimension(found[i])
               /\ found[i].value = items[i].value /\ found[i].page = items[i].page
               /\ found[i].confirm = items[i].confirm
               /\ found[i].provenance =
                    {[source |-> "ocr", box |-> items[i].box, passes |-> items[i].passes]}
    <2>1. items[i].box \in Box
      BY <1>2, <1>4
    <2> QED
      BY <1>5, <2>1 DEF OcrDimension, IsDimension
  <1>7. ASSUME NEW i \in DOMAIN found, NEW p \in found[i].provenance
        PROVE  p.source = "ocr" /\ p.box = items[i].box /\ p.passes = items[i].passes
    BY <1>6, <1>7
  <1>8. ASSUME NEW t \in wanted
        PROVE  \E i \in DOMAIN found :
                   /\ found[i].value = t.value /\ found[i].page = t.page
                   /\ \E p \in found[i].provenance : Shows(p, t)
    <2>1. PICK i \in DOMAIN items : Seen(t, items[i])
      BY <1>1, <1>2
    <2> DEFINE p == [source |-> "ocr", box |-> items[i].box, passes |-> items[i].passes]
    <2>2. Shows(p, t)
      BY <2>1 DEF Seen, Shows
    <2>3. p \in found[i].provenance
      BY <1>4, <1>6
    <2> HIDE DEF p
    <2> QED
      BY <1>4, <1>6, <2>1, <2>2, <2>3 DEF Seen
  <1>9. ASSUME rotations # {}, NEW i \in DOMAIN found, ~found[i].confirm,
               NEW p \in found[i].provenance
        PROVE  Undoubted(p, found[i], found)
    <2>1. 0 \in items[i].passes /\ Conflicts(items, i) = {}
      BY <1>2, <1>4, <1>6, <1>9
    <2>2. ASSUME NEW j \in DOMAIN found, NEW q \in found[j].provenance,
                 found[j].value # found[i].value, found[j].page = found[i].page,
                 SameLocation(q.box, p.box)
          PROVE  FALSE
      <3>1. j \in Conflicts(items, i)
        BY <1>4, <1>6, <1>7, <1>9, <2>2 DEF Conflicts
      <3> QED
        BY <2>1, <3>1
    <2> QED
      BY <1>7, <1>9, <2>1, <2>2 DEF Undoubted
  <1> QED
    <2>1. extract_ocr(source, selected, rotations) = found
      BY DEF extract_ocr, found, items, texts
    <2>2. \A i \in DOMAIN found :
              /\ IsDimension(found[i])
              /\ \A p \in found[i].provenance : p.source = "ocr"
      BY <1>6, <1>7
    <2> HIDE DEF wanted
    <2>3. \A t \in ToSet(source.texts) :
              t.page \in selected /\ t.pass \in {0} \union rotations => t \in wanted
      BY DEF wanted
    <2> QED
      BY <1>4, <1>8, <1>9, <2>1, <2>2, <2>3

\* What is cut off is nothing, unless the most elements remain.
LEMMA CutFacts ==
    ASSUME NEW s, IsSequence(s), NEW most \in Nat
    PROVE  LET cut == SubSeq(s, 1, Min({Len(s), most}))
           IN  /\ \A x \in ToSet(cut) : \E i \in DOMAIN s : x = s[i]
               /\ Len(cut) = most \/ cut = s
  <1> DEFINE n == IF Len(s) <= most THEN Len(s) ELSE most
             cut == SubSeq(s, 1, Min({Len(s), most}))
  <1>1. Len(s) \in Nat /\ DOMAIN s = 1 .. Len(s)
    BY SequenceFacts
  <1>2. n \in Nat /\ n <= Len(s) /\ n <= most /\ (n = Len(s) \/ n = most)
    BY <1>1
  <1>3. cut = SubSeq(s, 1, n)
    <2>1. \A x, y \in Int : Min({x, y}) = IF x <= y THEN x ELSE y
      BY OfTwo
    <2>2. Len(s) \in Int /\ most \in Int
      BY <1>1
    <2>3. Min({Len(s), most}) = n
      BY <2>1, <2>2
    <2> QED
      BY <2>3
  <1> HIDE DEF n, cut
  <1>4. cut = [i \in 1 .. n |-> s[i]]
    <2>1. PICK T : s \in Seq(T)
      BY DEF IsSequence
    <2>2. \A i \in 1 .. n : s[i] \in T
      BY <1>2, <2>1
    <2>3. /\ SubSeq(s, 1, n) \in Seq(T)
          /\ Len(SubSeq(s, 1, n)) = IF 1 <= n THEN n - 1 + 1 ELSE 0
          /\ \A i \in 1 .. n - 1 + 1 : SubSeq(s, 1, n)[i] = s[1 + i - 1]
      BY <1>2, <2>2, SubSeqProperties
    <2>4. cut \in Seq(T) /\ Len(cut) = n
      BY <1>2, <1>3, <2>3
    <2>5. \A i \in 1 .. n : cut[i] = s[i]
      BY <1>2, <1>3, <2>3
    <2>6. cut = [i \in 1 .. Len(cut) |-> cut[i]]
      BY <2>4, SequenceFacts DEF IsSequence
    <2> QED
      BY <2>4, <2>5, <2>6
  <1>5. DOMAIN cut = 1 .. n /\ Len(cut) = n
    <2>1. cut = [i \in 1 .. n |-> cut[i]]
      BY <1>4
    <2> QED
      BY <1>2, <2>1, FunctionIsSequence
  <1>6. \A x \in ToSet(cut) : \E i \in DOMAIN s : x = s[i]
    <2>1. \A m, k \in Nat : m <= k => \A i \in 1 .. m : i \in 1 .. k
      OBVIOUS
    <2>2. \A i \in 1 .. n : i \in 1 .. Len(s)
      BY <1>1, <1>2, <2>1
    <2>3. \A i \in DOMAIN cut : i \in DOMAIN s /\ cut[i] = s[i]
      BY <1>1, <1>4, <1>5, <2>2
    <2> QED
      BY <2>3 DEF ToSet
  <1>7. n = Len(s) => cut = s
    BY <1>4, SequenceFacts
  <1> QED
    BY <1>2, <1>5, <1>6, <1>7 DEF cut

\* _merge_dimension_evidence keeps what it is given, however many dimensions there
\* are and wherever they overlap: each that OCR gave is held by one that is kept,
\* with its evidence and its mark, unless there are too many; and whatever OCR
\* evidence a kept one has stems from one that OCR gave with this value and page,
\* whose mark it has.
THEOREM MergeKeepsEvidence ==
    ASSUME NEW vector, IsSequence(vector), NEW found, IsSequence(found), MaxDimensions \in Nat,
           \A i \in DOMAIN vector : /\ IsDimension(vector[i])
                                    /\ \A p \in vector[i].provenance : p.source = "vector_text",
           \A i \in DOMAIN found : IsDimension(found[i]),
           NEW dimensions, dimensions = merge_dimension_evidence(vector, found)
    PROVE  /\ \/ Len(dimensions) = MaxDimensions
              \/ \A i \in DOMAIN found : \E d \in ToSet(dimensions) : Holding(d, found[i])
           /\ \A d \in ToSet(dimensions) : \A p \in d.provenance : p.source = "ocr" =>
                  \E i \in DOMAIN found : p \in found[i].provenance /\ Holding(d, found[i])
  <1> DEFINE s == vector \o found
             merged == FoldLeft(AddDimension, <<>>, s)
  <1>1. /\ Len(vector) \in Nat /\ DOMAIN vector = 1 .. Len(vector)
        /\ Len(found) \in Nat /\ DOMAIN found = 1 .. Len(found)
    BY SequenceFacts
  <1>2. /\ IsSequence(s) /\ Len(s) = Len(vector) + Len(found)
        /\ \A i \in 1 .. Len(found) : s[Len(vector) + i] = found[i]
        /\ \A k \in 1 .. Len(vector) + Len(found) :
               \/ \E i \in 1 .. Len(vector) : s[k] = vector[i]
               \/ \E i \in 1 .. Len(found) : s[k] = found[i]
    BY JoinedFacts
  <1>3. dimensions = SubSeq(merged, 1, Min({Len(merged), MaxDimensions}))
    BY DEF merge_dimension_evidence
  <1> HIDE DEF s
  <1>4. DOMAIN s = 1 .. Len(vector) + Len(found)
    BY <1>2, SequenceFacts
  <1>5. \A k \in DOMAIN s : IsDimension(s[k])
    BY <1>1, <1>2, <1>4
  <1>6. /\ IsSequence(merged)
        /\ \A j \in DOMAIN s : \E i \in DOMAIN merged : Holding(merged[i], s[j])
        /\ \A i \in DOMAIN merged : \A p \in merged[i].provenance :
               \E j \in DOMAIN s : p \in s[j].provenance /\ Holding(merged[i], s[j])
    BY <1>2, <1>5, DimensionsFolded
  <1> HIDE DEF merged
  <1>7. /\ \A d \in ToSet(dimensions) : \E i \in DOMAIN merged : d = merged[i]
        /\ Len(dimensions) = MaxDimensions \/ dimensions = merged
    <2>1. LET cut == SubSeq(merged, 1, Min({Len(merged), MaxDimensions}))
          IN  /\ \A x \in ToSet(cut) : \E i \in DOMAIN merged : x = merged[i]
              /\ Len(cut) = MaxDimensions \/ cut = merged
      BY <1>6, CutFacts
    <2> QED
      BY <1>3, <2>1
  <1>8. ASSUME dimensions = merged, NEW i \in DOMAIN found
        PROVE  \E d \in ToSet(dimensions) : Holding(d, found[i])
    <2>1. Len(vector) + i \in DOMAIN s /\ s[Len(vector) + i] = found[i]
      BY <1>1, <1>2, <1>4
    <2>2. PICK k \in DOMAIN merged : Holding(merged[k], found[i])
      BY <1>6, <2>1
    <2> QED
      BY <1>8, <2>2 DEF ToSet
  <1>9. ASSUME NEW d \in ToSet(dimensions), NEW p \in d.provenance, p.source = "ocr"
        PROVE  \E i \in DOMAIN found : p \in found[i].provenance /\ Holding(d, found[i])
    <2>1. PICK k \in DOMAIN merged : d = merged[k]
      BY <1>7
    <2>2. PICK j \in DOMAIN s : p \in s[j].provenance /\ Holding(d, s[j])
      BY <1>6, <1>9, <2>1
    <2>3. ASSUME NEW i \in 1 .. Len(vector), s[j] = vector[i]
          PROVE  FALSE
      <3>1. p.source = "vector_text"
        BY <1>1, <2>2, <2>3
      <3> QED
        BY <1>9, <3>1
    <2>4. PICK i \in 1 .. Len(found) : s[j] = found[i]
      BY <1>2, <1>4, <2>3
    <2> QED
      BY <1>1, <2>2, <2>4
  <1> QED
    BY <1>7, <1>8, <1>9

(* AnalysisCache: what is kept is what an analysis finds.                   *)

ResultFields == {"analysis", "ocr", "request", "sha", "size", "runtime", "read"}

\* A result that may be kept is what an analysis finds, when the source was not
\* replaced while it was analysed.
Right(result) ==
    _reusable(result.request.policy, result.ocr) /\ result.read = {result.sha} =>
        result.analysis = Analysed(contents[result.sha], result.request)

\* A result for the bytes and options of a call, or of a key.
ResultFor(c, result) ==
    /\ DOMAIN result = ResultFields
    /\ result.sha = c.sha /\ result.request = c.request
    /\ Right(result)
    /\ result.read = {result.sha} => Reviewed(result)

\* What a call knows of the source, when it was not replaced so far.
VectorRight(c) ==
    /\ {"vector", "read"} \subseteq DOMAIN c /\ c.read # {}
    /\ c.read = {c.sha} => c.vector = extract_vector_pdf(contents[c.sha], c.request.pages)

OcrRight(c) ==
    LET selected == Selected(c.request, c.vector)
    IN  /\ {"ocr", "found"} \subseteq DOMAIN c
        /\ c.ocr \in OcrOutcomes(c.request, selected)
        /\ c.read = {c.sha} /\ c.ocr = "ok" =>
              c.found = extract_ocr(contents[c.sha], selected, c.request.rotations)
        /\ c.ocr # "ok" => c.found = <<>>

CallRight(c) ==
    /\ c.at \in Stages \union {"answered"}
    /\ {"at", "request", "sha"} \subseteq DOMAIN c /\ c.request \in Requests /\ c.sha \in Versions
    /\ c.at # "digested" => {"size", "runtime"} \subseteq DOMAIN c
    /\ c.at \in {"raster", "ocr", "merge"} => VectorRight(c)
    /\ c.at = "merge" => OcrRight(c)
    /\ c.at \in {"save", "publish", "answered"} =>
          {"hit", "result"} \subseteq DOMAIN c /\ ResultFor(c, c.result)
    /\ c.at \in {"save", "publish"} => c.hit = FALSE
    /\ c.at = "answered" /\ c.hit => _reusable(c.request.policy, c.result.ocr)

CallsRight ==
    /\ contents \in Contents /\ file \in Versions
    /\ replaced \in 0 .. MaxReplaced /\ installed \in 1 .. MaxRuntime
    /\ DOMAIN call = Servers
    /\ \A s \in Servers : call[s] = Idle \/ CallRight(call[s])
    /\ \A key \in DOMAIN cache : /\ key.sha \in Versions /\ key.request \in Requests
                                 /\ ResultFor(key, cache[key])

-----------------------------------------------------------------------------
\* A step of one call, which leaves the source and the cache alone.
LEMMA CallMoves ==
    ASSUME CallsRight, NEW s \in Servers, NEW c, call' = [call EXCEPT ![s] = c],
           c = Idle \/ CallRight(c), Unchanged, UNCHANGED cache
    PROVE  CallsRight'
  <1>1. UNCHANGED <<contents, file, replaced, installed, cache>>
    BY DEF Unchanged
  <1>2. ASSUME NEW k \in Servers PROVE (call[k] = Idle \/ CallRight(call[k]))'
    <2>1. DOMAIN call = Servers /\ (call[k] = Idle \/ CallRight(call[k]))
      BY DEF CallsRight
    <2>2. call'[k] = IF k = s THEN c ELSE call[k]
      BY <2>1
    <2> QED
      BY <1>1, <2>1, <2>2
        DEF CallRight, VectorRight, OcrRight, ResultFor, Right, Reviewed, Represented
  <1>3. ASSUME NEW key \in DOMAIN cache
        PROVE  (key.sha \in Versions /\ key.request \in Requests /\ ResultFor(key, cache[key]))'
    BY <1>1 DEF CallsRight, ResultFor, Right, Reviewed, Represented
  <1> QED
    BY <1>1, <1>2, <1>3 DEF CallsRight

\* An analysis without OCR that fails or that is not needed.
LEMMA MergeRight ==
    ASSUME CallsRight, NEW c, CallRight(c), c.at = "merge",
           c.read = {c.sha}, _reusable(c.request.policy, c.ocr)
    PROVE  [dimensions |-> merge_dimension_evidence(c.vector.dimensions, c.found),
            complete |-> c.vector.required = {} \/ (c.request.policy # "off" /\ c.ocr = "ok"),
            unit |-> c.request.unit] = Analysed(contents[c.sha], c.request)
  <1> DEFINE source == contents[c.sha]
             vector == extract_vector_pdf(source, c.request.pages)
             selected == Selected(c.request, vector)
             found == IF selected = {} THEN <<>>
                      ELSE extract_ocr(source, selected, c.request.rotations)
  <1>1. c.vector = vector
    BY DEF CallRight, VectorRight
  <1>2. /\ c.ocr \in OcrOutcomes(c.request, selected)
        /\ c.ocr = "ok" => c.found = extract_ocr(source, selected, c.request.rotations)
        /\ c.ocr # "ok" => c.found = <<>>
    BY <1>1 DEF CallRight, OcrRight
  <1>3. vector.required \subseteq vector.pages
    <2>1. source.scans \subseteq source.pages
      BY AnalysisAssumption DEF CallsRight, CallRight
    <2> QED
      BY <2>1 DEF extract_vector_pdf
  <1>4. c.request.policy \in {"off", "auto", "force"}
    BY AnalysisAssumption DEF CallRight
  <1> HIDE DEF vector, source
  <1>5. /\ c.request.policy = "force" => selected = vector.pages
        /\ c.request.policy = "auto" => selected = vector.required
        /\ c.request.policy = "off" => selected = {}
    BY DEF Selected
  <1> HIDE DEF selected
  <1>6. selected # {} => c.ocr \in {"ok", "error", "unavailable"}
    BY <1>2 DEF OcrOutcomes
  <1>7. selected = {} => c.ocr \in {"disabled", "not_required"}
    BY <1>2 DEF OcrOutcomes
  <1>8. c.found = found
    BY <1>2, <1>6, <1>7, <1>4 DEF _reusable
  <1>9. (c.vector.required = {} \/ (c.request.policy # "off" /\ c.ocr = "ok"))
            = (vector.required \subseteq selected)
    BY <1>1, <1>3, <1>4, <1>5, <1>6, <1>7 DEF _reusable
  <1>10. Analysed(source, c.request) =
            [dimensions |-> merge_dimension_evidence(vector.dimensions, found),
             complete |-> vector.required \subseteq selected, unit |-> c.request.unit]
    BY DEF Analysed, vector, selected
  <1> QED
    BY <1>1, <1>8, <1>9, <1>10 DEF source

\* Whatever became of OCR, the evidence it found is in the result.
LEMMA MergeReviewed ==
    ASSUME CallsRight, NEW c, CallRight(c), c.at = "merge", c.read = {c.sha},
           NEW result, result.ocr = c.ocr, result.request = c.request, result.sha = c.sha,
           result.analysis =
             [dimensions |-> merge_dimension_evidence(c.vector.dimensions, c.found),
              complete |-> c.vector.required = {} \/ (c.request.policy # "off" /\ c.ocr = "ok"),
              unit |-> c.request.unit]
    PROVE  Reviewed(result)
  <1> DEFINE source == contents[c.sha]
             vector == extract_vector_pdf(source, c.request.pages)
             selected == IF c.ocr = "ok" THEN Selected(c.request, vector) ELSE {}
             rotations == c.request.rotations
             found == c.found
             dimensions == result.analysis.dimensions
  <1>1. c.vector = vector /\ vector.dimensions = VectorDimensions(source, c.request.pages)
    <2>1. c.vector = vector
      BY DEF CallRight, VectorRight
    <2>2. vector.dimensions = VectorDimensions(source, c.request.pages)
      BY DEF extract_vector_pdf
    <2> QED
      BY <2>1, <2>2
  <1>2. /\ IsSequence(source.words) /\ \A x \in ToSet(source.words) : x.box \in Box
        /\ IsSequence(source.texts) /\ \A x \in ToSet(source.texts) : x.box \in Box
        /\ source.scans \subseteq source.pages
        /\ c.request.policy \in {"off", "auto", "force"}
        /\ MaxDimensions \in Nat
    <2>1. contents \in Contents /\ c.sha \in Versions /\ c.request \in Requests
      BY DEF CallsRight, CallRight
    <2> HIDE DEF vector, selected, rotations, found, dimensions
    <2> QED
      BY <2>1, AnalysisAssumption DEF IsSequence
  <1>3. /\ c.ocr = "ok" => found = extract_ocr(source, selected, rotations)
        /\ c.ocr # "ok" => found = <<>>
    BY <1>1 DEF CallRight, OcrRight
  <1>4. vector.required \subseteq vector.pages
    BY <1>2 DEF extract_vector_pdf
  <1>5. /\ c.request.policy = "force" /\ c.ocr = "ok" => selected = vector.pages
        /\ c.request.policy = "auto" /\ c.ocr = "ok" => selected = vector.required
    <2> HIDE DEF vector
    <2> QED
      BY DEF Selected
  <1>6. dimensions = merge_dimension_evidence(vector.dimensions, found)
    BY <1>1
  <1>7. result.analysis.complete => vector.required \subseteq selected
    <2> HIDE DEF vector, selected
    <2>1. result.analysis.complete <=>
              vector.required = {} \/ (c.request.policy # "off" /\ c.ocr = "ok")
      <3> DEFINE complete == vector.required = {} \/ (c.request.policy # "off" /\ c.ocr = "ok")
                 merged == merge_dimension_evidence(c.vector.dimensions, c.found)
      <3>1. result.analysis = [dimensions |-> merged, complete |-> complete,
                               unit |-> c.request.unit]
        BY <1>1
      <3>2. result.analysis.complete = complete
        <4> HIDE DEF complete
        <4> QED
          BY <3>1
      <3> QED
        BY <3>2
    <2> QED
      BY <1>2, <1>4, <1>5, <2>1
  <1> HIDE DEF vector, selected, found, dimensions
  <1>8. /\ IsSequence(vector.dimensions)
        /\ \A i \in DOMAIN vector.dimensions :
               /\ IsDimension(vector.dimensions[i])
               /\ \A p \in vector.dimensions[i].provenance : p.source = "vector_text"
    BY <1>1, <1>2, VectorFacts
  <1>9. /\ IsSequence(found) /\ \A i \in DOMAIN found : IsDimension(found[i])
        /\ \A t \in ToSet(source.texts) :
               t.page \in selected /\ t.pass \in {0} \union rotations =>
                   \E i \in DOMAIN found :
                       /\ found[i].value = t.value /\ found[i].page = t.page
                       /\ \E p \in found[i].provenance : Shows(p, t)
        /\ rotations # {} =>
               \A i \in DOMAIN found : \/ found[i].confirm
                                       \/ \A p \in found[i].provenance :
                                              Undoubted(p, found[i], found)
    <2>1. CASE c.ocr = "ok"
      <3>1. found = extract_ocr(source, selected, rotations)
        BY <1>3, <2>1
      <3> HIDE DEF source, rotations
      <3> QED
        BY <1>2, <3>1, OcrFacts
    <2>2. CASE c.ocr # "ok"
      <3>1. found = <<>> /\ selected = {} /\ IsSequence(<<>>)
        BY <1>3, <2>2 DEF IsSequence, selected
      <3> QED
        BY <3>1
    <2> QED
      BY <2>1, <2>2
  <1> HIDE DEF source, rotations
  <1>10. /\ \/ Len(dimensions) = MaxDimensions
            \/ \A i \in DOMAIN found : \E d \in ToSet(dimensions) : Holding(d, found[i])
         /\ \A d \in ToSet(dimensions) : \A p \in d.provenance : p.source = "ocr" =>
                \E i \in DOMAIN found : p \in found[i].provenance /\ Holding(d, found[i])
    BY <1>2, <1>6, <1>8, <1>9, MergeKeepsEvidence
  <1>11. ASSUME Len(dimensions) # MaxDimensions, NEW t \in ToSet(source.texts),
                t.page \in selected, t.pass \in {0} \union rotations
         PROVE  \E d \in ToSet(dimensions) :
                    /\ d.value = t.value /\ d.page = t.page
                    /\ \E p \in d.provenance : Shows(p, t)
    <2>1. PICK i \in DOMAIN found :
              /\ found[i].value = t.value /\ found[i].page = t.page
              /\ \E p \in found[i].provenance : Shows(p, t)
      BY <1>9, <1>11
    <2>2. PICK d \in ToSet(dimensions) : Holding(d, found[i])
      BY <1>10, <1>11
    <2> QED
      BY <2>1, <2>2 DEF Holding
  <1>12. ASSUME rotations # {}, NEW d \in ToSet(dimensions), NEW p \in d.provenance,
                p.source = "ocr", ~d.confirm
         PROVE  /\ 0 \in p.passes
                /\ \A e \in ToSet(dimensions) : \A q \in e.provenance :
                       ~(/\ e.value # d.value /\ e.page = d.page
                         /\ q.source = "ocr" /\ SameLocation(q.box, p.box))
    <2>1. PICK i \in DOMAIN found : p \in found[i].provenance /\ Holding(d, found[i])
      BY <1>10, <1>12
    <2>2. Undoubted(p, found[i], found)
      BY <1>9, <1>12, <2>1 DEF Holding
    <2>3. ASSUME NEW e \in ToSet(dimensions), NEW q \in e.provenance,
                 e.value # d.value, e.page = d.page, q.source = "ocr", SameLocation(q.box, p.box)
          PROVE  FALSE
      <3>1. PICK j \in DOMAIN found : q \in found[j].provenance /\ Holding(e, found[j])
        BY <1>10, <2>3
      <3> QED
        BY <2>1, <2>2, <2>3, <3>1 DEF Holding, Undoubted
    <2> QED
      BY <2>2, <2>3 DEF Undoubted
  <1>13. Represented(result, selected)
    BY <1>11 DEF Represented, Shows, source, rotations, dimensions
  <1>14. rotations # {} => DoubtfulMarked(ToSet(dimensions))
    BY <1>12 DEF DoubtfulMarked
  <1> QED
    BY <1>7, <1>13, <1>14 DEF Reviewed, vector, selected, source, rotations, dimensions

\* The steps before the cache was asked, and those that only move on.
LEMMA DigestStep ==
    ASSUME CallsRight, NEW s \in Servers, Digest(s)
    PROVE  CallsRight'
  <1>1. PICK request \in Requests :
            call' = [call EXCEPT ![s] = [at |-> "digested", request |-> request, sha |-> file]]
    BY DEF Digest
  <1> DEFINE c == [at |-> "digested", request |-> request, sha |-> file]
  <1>2. CallRight(c)
    BY DEF CallsRight, CallRight, Stages
  <1> QED
    BY <1>1, <1>2, CallMoves DEF Digest

LEMMA FingerprintStep ==
    ASSUME CallsRight, NEW s \in Servers, Fingerprint(s)
    PROVE  CallsRight'
  <1> DEFINE to == [at |-> "look", size |-> file, runtime |-> installed]
             c == Updated(call[s], to)
  <1>1. call[s].at = "digested" /\ call' = [call EXCEPT ![s] = c]
    BY DEF Fingerprint, Step
  <1>2. CallRight(call[s])
    BY <1>1 DEF CallsRight, Idle
  <1>3. /\ DOMAIN c = DOMAIN call[s] \union {"at", "size", "runtime"}
        /\ c.at = "look" /\ c.request = call[s].request /\ c.sha = call[s].sha
    <2>1. /\ DOMAIN to = {"at", "size", "runtime"}
          /\ to.at = "look" /\ to.size = file /\ to.runtime = installed
      OBVIOUS
    <2>2. {"request", "sha"} \subseteq DOMAIN call[s]
      BY <1>2 DEF CallRight
    <2> HIDE DEF to
    <2> QED
      BY <2>1, <2>2 DEF Updated
  <1> HIDE DEF c
  <1>4. CallRight(c)
    BY <1>2, <1>3 DEF CallRight, Stages
  <1> QED
    BY <1>1, <1>4, CallMoves DEF Fingerprint

LEMMA HitStep ==
    ASSUME CallsRight, NEW s \in Servers, Hit(s)
    PROVE  CallsRight'
  <1>1. PICK result \in load_result(call[s]) :
            Step(s, "look", [at |-> "answered", hit |-> TRUE, result |-> result])
    BY DEF Hit
  <1> DEFINE to == [at |-> "answered", hit |-> TRUE, result |-> result]
             c == Updated(call[s], to)
             key == cache_key(call[s])
  <1>2. call[s].at = "look" /\ call' = [call EXCEPT ![s] = c]
    BY <1>1 DEF Step
  <1>3. CallRight(call[s])
    BY <1>2 DEF CallsRight, Idle
  <1>4. /\ DOMAIN c = DOMAIN call[s] \union {"at", "hit", "result"}
        /\ c.at = "answered" /\ c.hit = TRUE /\ c.result = result
        /\ c.request = call[s].request /\ c.sha = call[s].sha
    <2>1. /\ DOMAIN to = {"at", "hit", "result"}
          /\ to.at = "answered" /\ to.hit = TRUE /\ to.result = result
      OBVIOUS
    <2>2. {"request", "sha"} \subseteq DOMAIN call[s]
      BY <1>3 DEF CallRight
    <2> HIDE DEF to
    <2> QED
      BY <2>1, <2>2 DEF Updated
  <1>5. /\ key \in DOMAIN cache /\ result = cache[key]
        /\ _reusable(result.request.policy, result.ocr)
    BY DEF load_result
  <1>6. key.sha = c.sha /\ key.request = c.request
    BY <1>4 DEF cache_key
  <1> HIDE DEF c, key
  <1>7. ResultFor(c, result)
    BY <1>5, <1>6 DEF CallsRight, ResultFor
  <1>8. CallRight(c)
    BY <1>2, <1>3, <1>4, <1>5, <1>7 DEF CallRight, ResultFor, Stages
  <1> QED
    BY <1>2, <1>8, CallMoves DEF Hit

LEMMA MissStep ==
    ASSUME CallsRight, NEW s \in Servers, Miss(s)
    PROVE  CallsRight'
  <1> DEFINE to == [at |-> "extract"]
             c == Updated(call[s], to)
  <1>1. call[s].at = "look" /\ call' = [call EXCEPT ![s] = c]
    BY DEF Miss, Step
  <1>2. CallRight(call[s])
    BY <1>1 DEF CallsRight, Idle
  <1>3. /\ DOMAIN c = DOMAIN call[s] \union {"at"}
        /\ c.at = "extract" /\ c.request = call[s].request /\ c.sha = call[s].sha
    <2>1. /\ DOMAIN to = {"at"}
          /\ to.at = "extract"
      OBVIOUS
    <2>2. {"request", "sha"} \subseteq DOMAIN call[s]
      BY <1>2 DEF CallRight
    <2> HIDE DEF to
    <2> QED
      BY <2>1, <2>2 DEF Updated
  <1> HIDE DEF c
  <1>4. CallRight(c)
    BY <1>1, <1>2, <1>3 DEF CallRight, Stages
  <1> QED
    BY <1>1, <1>4, CallMoves DEF Miss

\* The file is opened for each part: all of them read what was hashed, or one
\* of them is known to have read something else.
LEMMA ExtractStep ==
    ASSUME CallsRight, NEW s \in Servers, Extract(s)
    PROVE  CallsRight'
  <1> DEFINE vector == extract_vector_pdf(contents[file], call[s].request.pages)
             to == [at |-> "raster", vector |-> vector, read |-> {file}]
             c == Updated(call[s], to)
  <1>1. call[s].at = "extract" /\ call' = [call EXCEPT ![s] = c]
    BY DEF Extract, Step
  <1>2. CallRight(call[s])
    BY <1>1 DEF CallsRight, Idle
  <1>3. /\ DOMAIN c = DOMAIN call[s] \union {"at", "vector", "read"}
        /\ c.at = "raster" /\ c.vector = vector /\ c.read = {file}
        /\ c.request = call[s].request /\ c.sha = call[s].sha
    <2>1. /\ DOMAIN to = {"at", "vector", "read"}
          /\ to.at = "raster" /\ to.vector = vector /\ to.read = {file}
      OBVIOUS
    <2>2. {"request", "sha"} \subseteq DOMAIN call[s]
      BY <1>2 DEF CallRight
    <2> HIDE DEF to
    <2> QED
      BY <2>1, <2>2 DEF Updated
  <1> HIDE DEF c
  <1>4. VectorRight(c)
    BY <1>3 DEF VectorRight
  <1>5. CallRight(c)
    BY <1>1, <1>2, <1>3, <1>4 DEF CallRight, Stages
  <1> QED
    BY <1>1, <1>5, CallMoves DEF Extract

LEMMA RasterStep ==
    ASSUME CallsRight, NEW s \in Servers, add_raster_geometry(s)
    PROVE  CallsRight'
  <1> DEFINE to == [at |-> "ocr", read |-> call[s].read \union {file}]
             c == Updated(call[s], to)
  <1>1. call[s].at = "raster" /\ call' = [call EXCEPT ![s] = c]
    BY DEF add_raster_geometry, Step
  <1>2. CallRight(call[s]) /\ VectorRight(call[s])
    BY <1>1 DEF CallsRight, Idle, CallRight
  <1>3. /\ DOMAIN c = DOMAIN call[s] \union {"at", "read"}
        /\ c.at = "ocr" /\ c.read = call[s].read \union {file} /\ c.vector = call[s].vector
        /\ c.request = call[s].request /\ c.sha = call[s].sha
    <2>1. /\ DOMAIN to = {"at", "read"}
          /\ to.at = "ocr" /\ to.read = call[s].read \union {file}
      OBVIOUS
    <2>2. {"request", "sha", "vector"} \subseteq DOMAIN call[s]
      BY <1>2 DEF CallRight, VectorRight
    <2> HIDE DEF to
    <2> QED
      BY <2>1, <2>2 DEF Updated
  <1> HIDE DEF c
  <1>4. VectorRight(c)
    BY <1>2, <1>3 DEF VectorRight
  <1>5. CallRight(c)
    BY <1>1, <1>2, <1>3, <1>4 DEF CallRight, Stages
  <1> QED
    BY <1>1, <1>5, CallMoves DEF add_raster_geometry

LEMMA OcrStep ==
    ASSUME CallsRight, NEW s \in Servers, Ocr(s)
    PROVE  CallsRight'
  <1> DEFINE selected == Selected(call[s].request, call[s].vector)
             found(status) == IF status = "ok"
                              THEN extract_ocr(contents[file], selected,
                                               call[s].request.rotations)
                              ELSE <<>>
             read == call[s].read \union IF selected = {} THEN {} ELSE {file}
             to(status) == [at |-> "merge", ocr |-> status, found |-> found(status),
                            read |-> read]
  <1>1. PICK status \in OcrOutcomes(call[s].request, selected) : Step(s, "ocr", to(status))
    BY DEF Ocr
  <1> DEFINE c == Updated(call[s], to(status))
  <1>2. call[s].at = "ocr" /\ call' = [call EXCEPT ![s] = c]
    BY <1>1 DEF Step
  <1>3. CallRight(call[s]) /\ VectorRight(call[s])
    BY <1>2 DEF CallsRight, Idle, CallRight
  <1>4. /\ DOMAIN c = DOMAIN call[s] \union {"at", "ocr", "found", "read"}
        /\ c.at = "merge" /\ c.ocr = status /\ c.found = found(status) /\ c.read = read
        /\ c.vector = call[s].vector /\ c.request = call[s].request /\ c.sha = call[s].sha
    <2> HIDE DEF found, read
    <2>1. /\ DOMAIN to(status) = {"at", "ocr", "found", "read"}
          /\ to(status).at = "merge" /\ to(status).ocr = status
          /\ to(status).found = found(status) /\ to(status).read = read
      OBVIOUS
    <2>2. {"request", "sha", "vector"} \subseteq DOMAIN call[s]
      BY <1>3 DEF CallRight, VectorRight
    <2> HIDE DEF to
    <2> QED
      BY <2>1, <2>2 DEF Updated
  <1> HIDE DEF c
  <1>5. VectorRight(c)
    <2> HIDE DEF found, selected
    <2> QED
      BY <1>3, <1>4 DEF VectorRight
  <1>6. selected = Selected(c.request, c.vector)
    BY <1>4
  <1> HIDE DEF selected
  <1>7. status = "ok" => selected # {}
    BY DEF OcrOutcomes
  <1>8. OcrRight(c)
    BY <1>1, <1>3, <1>4, <1>6, <1>7 DEF OcrRight
  <1>9. CallRight(c)
    BY <1>2, <1>3, <1>4, <1>5, <1>8 DEF CallRight, Stages
  <1> QED
    BY <1>2, <1>9, CallMoves DEF Ocr

LEMMA MergeStep ==
    ASSUME CallsRight, NEW s \in Servers, Merge(s)
    PROVE  CallsRight'
  <1> DEFINE old == call[s]
             analysis ==
               [dimensions |-> merge_dimension_evidence(old.vector.dimensions, old.found),
                complete |-> \/ old.vector.required = {}
                             \/ (old.request.policy # "off" /\ old.ocr = "ok"),
                unit |-> old.request.unit]
             result == [analysis |-> analysis, ocr |-> old.ocr, request |-> old.request,
                        sha |-> old.sha, size |-> old.size, runtime |-> old.runtime,
                        read |-> old.read]
             c == [at |-> "save", request |-> old.request, sha |-> old.sha, size |-> old.size,
                   runtime |-> old.runtime, hit |-> FALSE, result |-> result]
  <1>1. old.at = "merge" /\ call' = [call EXCEPT ![s] = c]
    BY DEF Merge
  <1>2. CallRight(old)
    BY <1>1 DEF CallsRight, Idle
  <1>3. old.read = {old.sha} /\ _reusable(old.request.policy, old.ocr) =>
            analysis = Analysed(contents[old.sha], old.request)
    BY <1>1, <1>2, MergeRight
  <1>4. old.read = {old.sha} => Reviewed(result)
    BY <1>1, <1>2, MergeReviewed
  <1> HIDE DEF analysis
  <1>5. ResultFor(c, result)
    BY <1>3, <1>4 DEF ResultFor, ResultFields, Right
  <1>6. CallRight(c)
    BY <1>2, <1>5 DEF CallRight, Stages
  <1> QED
    BY <1>1, <1>6, CallMoves DEF Merge

\* A call with a result moves on.
LEMMA ResultMoves ==
    ASSUME CallsRight, NEW s \in Servers, NEW from, NEW at, Step(s, from, [at |-> at]),
           from \in {"save", "publish"}, at \in {"publish", "answered"}
    PROVE  \E c : CallRight(c) /\ call' = [call EXCEPT ![s] = c]
  <1> DEFINE to == [at |-> at]
             c == Updated(call[s], to)
  <1>1. call[s].at = from /\ call' = [call EXCEPT ![s] = c]
    BY DEF Step
  <1>2. CallRight(call[s])
    BY <1>1 DEF CallsRight, Idle
  <1>3. /\ DOMAIN c = DOMAIN call[s] \union {"at"}
        /\ c.at = at /\ c.request = call[s].request /\ c.sha = call[s].sha
        /\ c.hit = FALSE /\ c.result = call[s].result
    <2>1. DOMAIN to = {"at"} /\ to.at = at
      OBVIOUS
    <2>2. {"request", "sha", "hit", "result"} \subseteq DOMAIN call[s] /\ call[s].hit = FALSE
      BY <1>1, <1>2 DEF CallRight
    <2> HIDE DEF to
    <2> QED
      BY <2>1, <2>2 DEF Updated
  <1> HIDE DEF c
  <1>4. ResultFor(c, c.result)
    BY <1>1, <1>2, <1>3 DEF CallRight, ResultFor
  <1>5. CallRight(c)
    BY <1>1, <1>2, <1>3, <1>4 DEF CallRight, Stages
  <1> QED
    BY <1>1, <1>5

LEMMA SkipSaveStep ==
    ASSUME CallsRight, NEW s \in Servers, SkipSave(s)
    PROVE  CallsRight'
  <1>1. PICK c : CallRight(c) /\ call' = [call EXCEPT ![s] = c]
    BY ResultMoves DEF SkipSave
  <1> QED
    BY <1>1, CallMoves DEF SkipSave

LEMMA WriteTemporaryStep ==
    ASSUME CallsRight, NEW s \in Servers, WriteTemporary(s)
    PROVE  CallsRight'
  <1>1. PICK c : CallRight(c) /\ call' = [call EXCEPT ![s] = c]
    BY ResultMoves DEF WriteTemporary
  <1> QED
    BY <1>1, CallMoves DEF WriteTemporary, Written

\* What is published under a key is a result for it; the other entries stay.
LEMMA PublishStep ==
    ASSUME CallsRight, NEW s \in Servers, Publish(s)
    PROVE  CallsRight'
  <1>1. PICK c : CallRight(c) /\ call' = [call EXCEPT ![s] = c]
    BY ResultMoves DEF Publish
  <1>2. CASE UNCHANGED cache
    BY <1>1, <1>2, CallMoves DEF Publish
  <1>3. CASE Stored(cache_key(call[s]), call[s].result)
    <2> DEFINE key == cache_key(call[s])
               result == call[s].result
    <2>1. UNCHANGED <<contents, file, replaced, installed>>
      BY DEF Publish, Unchanged
    <2>2. CallRight(call[s]) /\ call[s].at = "publish"
      BY DEF CallsRight, Idle, Publish
    <2>3. ResultFor(call[s], result) /\ call[s].sha \in Versions /\ call[s].request \in Requests
      BY <2>2 DEF CallRight
    <2>4. key.sha = call[s].sha /\ key.request = call[s].request
      BY DEF cache_key
    <2> HIDE DEF key
    <2>5. ResultFor(key, result) /\ key.sha \in Versions /\ key.request \in Requests
      BY <2>3, <2>4 DEF ResultFor
    <2> HIDE DEF result
    <2>6. cache' = [k \in DOMAIN cache \union {key} |-> IF k = key THEN result ELSE cache[k]]
      BY <1>3 DEF Stored, key, result
    <2>7. ASSUME NEW k \in DOMAIN cache'
          PROVE  k.sha \in Versions /\ k.request \in Requests /\ ResultFor(k, cache[k])'
      <3>1. k = key \/ k \in DOMAIN cache
        BY <2>6
      <3>2. CASE k = key
        BY <2>1, <2>5, <2>6, <3>2 DEF ResultFor, Right, Reviewed, Represented
      <3>3. CASE k # key
        BY <2>1, <2>6, <3>1, <3>3 DEF CallsRight, ResultFor, Right, Reviewed, Represented
      <3> QED
        BY <3>2, <3>3
    <2>8. ASSUME NEW k \in Servers PROVE (call[k] = Idle \/ CallRight(call[k]))'
      <3>1. DOMAIN call = Servers /\ (call[k] = Idle \/ CallRight(call[k]))
        BY DEF CallsRight
      <3>2. call'[k] = IF k = s THEN c ELSE call[k]
        BY <1>1, <3>1
      <3> QED
        BY <1>1, <2>1, <3>1, <3>2
          DEF CallRight, VectorRight, OcrRight, ResultFor, Right, Reviewed, Represented
    <2> QED
      BY <1>1, <2>1, <2>7, <2>8 DEF CallsRight
  <1> QED
    BY <1>2, <1>3 DEF Publish

LEMMA FailStep ==
    ASSUME CallsRight, NEW s \in Servers, Fail(s)
    PROVE  CallsRight'
  BY CallMoves DEF Fail

\* The source and the packages change under the hands of the calls, which are
\* about versions by their numbers.
LEMMA WorldStep ==
    ASSUME CallsRight, Replace \/ Upgrade \/ UNCHANGED vars
    PROVE  CallsRight'
  <1>1. UNCHANGED <<contents, cache, call>>
    BY DEF Replace, Upgrade, vars
  <1>2. file' \in Versions /\ replaced' \in 0 .. MaxReplaced /\ installed' \in 1 .. MaxRuntime
    BY AnalysisAssumption DEF CallsRight, Replace, Upgrade, vars
  <1>3. ASSUME NEW k \in Servers PROVE (call[k] = Idle \/ CallRight(call[k]))'
    BY <1>1
      DEF CallsRight, CallRight, VectorRight, OcrRight, ResultFor, Right, Reviewed, Represented
  <1>4. ASSUME NEW key \in DOMAIN cache
        PROVE  (key.sha \in Versions /\ key.request \in Requests /\ ResultFor(key, cache[key]))'
    BY <1>1 DEF CallsRight, ResultFor, Right, Reviewed, Represented
  <1> QED
    BY <1>1, <1>2, <1>3, <1>4 DEF CallsRight

\* All calls and the cache are right throughout.
LEMMA CallsStayRight == Spec => []CallsRight
  <1>1. Init => CallsRight
    BY AnalysisAssumption DEF Init, CallsRight
  <1>2. CallsRight /\ [Next]_vars => CallsRight'
    <2> SUFFICES ASSUME CallsRight, [Next]_vars PROVE CallsRight'
      OBVIOUS
    <2>1. ASSUME NEW s \in Servers, analyze_source(s) PROVE CallsRight'
      BY <2>1, DigestStep, FingerprintStep, HitStep, MissStep, ExtractStep, RasterStep, OcrStep,
         MergeStep, SkipSaveStep, WriteTemporaryStep, PublishStep, FailStep DEF analyze_source
    <2> QED
      BY <2>1, WorldStep DEF Next
  <1> QED
    BY <1>1, <1>2, PTL DEF Spec

-----------------------------------------------------------------------------
(* The theorems about the cache of analyses.                               *)

\* What a server may find under a key is always a whole result, of bytes that
\* the source once had, for any number of servers, requests and versions.
THEOREM AnalysisTypeCorrect == Spec => []TypeOK
  <1>1. CallsRight => TypeOK
    <2> SUFFICES ASSUME CallsRight PROVE TypeOK
      OBVIOUS
    <2>1. ASSUME NEW key \in DOMAIN cache PROVE key.sha \in Versions /\ cache[key] # Torn
      <3>1. DOMAIN cache[key] = ResultFields
        BY DEF CallsRight, ResultFor
      <3>2. DOMAIN Torn = {"ocr"}
        BY DEF Torn
      <3> QED
        BY <3>1, <3>2 DEF CallsRight, ResultFields
    <2>2. ASSUME NEW s \in Servers
          PROVE  \/ call[s] = Idle
                 \/ call[s].at \in Stages \union {"answered"} /\ call[s].request \in Requests
      BY DEF CallsRight, CallRight
    <2> QED
      BY <2>1, <2>2 DEF CallsRight, TypeOK
  <1> QED
    BY <1>1, CallsStayRight, PTL

\* A call that is answered from the cache gets what an analysis of its own would
\* have found, unless the source was replaced under the hands of the call that
\* published it: for any number of servers and versions, whatever sources hold.
THEOREM HitsAreFresh == Spec => []HitIsFresh
  <1>1. CallsRight => HitIsFresh
    <2> SUFFICES ASSUME CallsRight, NEW s \in Answers, call[s].hit,
                        call[s].result.read = {call[s].sha}
                 PROVE  call[s].result.analysis = Analysed(contents[call[s].sha], call[s].request)
      BY DEF HitIsFresh
    <2>1. s \in Servers /\ call[s].at = "answered"
      BY DEF Answers
    <2>2. CallRight(call[s])
      BY <2>1 DEF CallsRight, Idle
    <2> QED
      BY <2>1, <2>2 DEF CallRight, ResultFor, Right, Reviewed, Represented
  <1> QED
    BY <1>1, CallsStayRight, PTL

\* What OCR read is in evidence and what is doubtful is marked, in every answer
\* of an analysis whose source was not replaced, fresh or from the cache.
THEOREM ReviewHolds == Spec => []ReviewSurvives
  <1>1. CallsRight => ReviewSurvives
    <2> SUFFICES ASSUME CallsRight, NEW s \in Answers, call[s].result.read = {call[s].sha}
                 PROVE  Reviewed(call[s].result)
      BY DEF ReviewSurvives
    <2>1. s \in Servers /\ call[s].at = "answered"
      BY DEF Answers
    <2>2. CallRight(call[s])
      BY <2>1 DEF CallsRight, Idle
    <2> QED
      BY <2>1, <2>2 DEF CallRight, ResultFor
  <1> QED
    BY <1>1, CallsStayRight, PTL
=============================================================================

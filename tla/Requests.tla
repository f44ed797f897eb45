------------------------------ MODULE Requests ------------------------------
(***************************************************************************)
(* The request models that stand between a spec of a legacy tool and the   *)
(* adapter: which specs they let through.  A coordinate is a tuple of      *)
(* small numbers, a list of points a sequence of coordinates, an angle a   *)
(* number of degrees, a factor or length its sign.                         *)
(***************************************************************************)
EXTENDS Integers, Sequences, FiniteSets

CONSTANTS LayerNames,    \* the legal names of layers, "0" among them
          Colors,        \* colours of a layer: COLOR_MAP without "bylayer"
          MaxCoordinate  \* the reasonable range of a coordinate

ASSUME RequestsAssumption ==
    "0" \in LayerNames /\ "white" \in Colors /\ MaxCoordinate \in Nat

\* spec.get(field, default)
Get(spec, field, default) == IF field \in DOMAIN spec THEN spec[field] ELSE default

CoordinateModel(c) ==
    Len(c) \in {2, 3} /\ \A i \in DOMAIN c : c[i] \in -MaxCoordinate .. MaxCoordinate

\* Text that holds fewer than two numbers is no coordinate; what follows the
\* third number is dropped.
parse_coordinate(c) ==
    IF Len(c) < 2 THEN <<>> ELSE SubSeq(c, 1, IF Len(c) < 3 THEN Len(c) ELSE 3)
Coordinate(c) == CoordinateModel(parse_coordinate(c))

ColorValidator(color) == color \in Colors \union {"bylayer"}
LayerValidator(layer) == layer \in LayerNames
valid_weights == {-3, -2, -1, 0, 5, 9, 13, 15, 18, 20, 25, 30, 35, 40, 50, 53, 60,
                  70, 80, 90, 100, 106, 120, 140, 158, 200, 211}
LineWeightValidator(weight) == weight \in valid_weights

\* What the request models of the shapes have in common; text, leaders and
\* tables have no line weight.
Look(spec) ==
    ColorValidator(Get(spec, "color", "white")) /\ LayerValidator(Get(spec, "layer", "0"))
Style(spec) == Look(spec) /\ LineWeightValidator(Get(spec, "lineweight", 25))

\* Handles are numbers here; 0 stands for text that is not hexadecimal.
EntityHandleValidator(handle) == handle # 0
Angle(a) == a \in 0 .. 359

DrawLineRequest(spec) ==
    Coordinate(spec.start) /\ Coordinate(spec.end) /\ Style(spec)

DrawCircleRequest(spec) == Coordinate(spec.center) /\ spec.radius > 0 /\ Style(spec)

DrawArcRequest(spec) ==
    /\ DrawCircleRequest(spec)
    /\ Angle(spec.start_angle) /\ Angle(spec.end_angle)
    /\ spec.start_angle # spec.end_angle

DrawRectangleRequest(spec) ==
    /\ Coordinate(spec.corner1) /\ Coordinate(spec.corner2)
    /\ spec.corner1[1] # spec.corner2[1] /\ spec.corner1[2] # spec.corner2[2]
    /\ Style(spec)

DrawPolylineRequest(spec) ==
    /\ Len(spec.points) >= 2
    /\ \A i \in DOMAIN spec.points : Coordinate(spec.points[i])
    /\ Style(spec)

DrawTextRequest(spec) ==
    /\ spec.text # "" /\ Coordinate(spec.position)
    /\ Get(spec, "height", 1) > 0 /\ Angle(Get(spec, "rotation", 0))
    /\ Look(spec)

DrawSplineRequest(spec) == DrawPolylineRequest(spec) /\ Get(spec, "degree", 3) \in 1 .. 3

DrawMLeaderRequest(spec, base_point, groups) ==
    /\ Coordinate(base_point) /\ Len(groups) >= 1
    /\ \A i \in DOMAIN groups :
        Len(groups[i]) >= 2 /\ \A j \in DOMAIN groups[i] : Coordinate(groups[i][j])
    /\ Get(spec, "text_height", Get(spec, "height", 1)) > 0 /\ Look(spec)

DrawTableRequest(spec) ==
    /\ Coordinate(spec.insertion_point)
    /\ spec.num_rows > 0 /\ spec.num_cols > 0
    /\ Get(spec, "row_height", 1) > 0 /\ Get(spec, "col_width", 1) > 0
    /\ Look(spec)

\* A dimension has no request model: its points are parsed, the rest is
\* handed to the adapter as it is.
add_dimension_request(spec) ==
    Len(parse_coordinate(spec.start)) >= 2 /\ Len(parse_coordinate(spec.end)) >= 2

CreateLayerRequest(spec) ==
    /\ LayerValidator(spec.name) /\ ColorValidator(Get(spec, "color", "white"))
    /\ LineWeightValidator(Get(spec, "lineweight", 25))

HandlesRequest(spec) ==
    spec.handles # {} /\ \A h \in spec.handles : EntityHandleValidator(h)

MoveEntityRequest(spec) ==
    HandlesRequest(spec) /\ CoordinateModel(<<spec.offset_x, spec.offset_y>>)

RotateEntityRequest(spec) ==
    /\ HandlesRequest(spec) /\ CoordinateModel(<<spec.center_x, spec.center_y>>)
    /\ Angle(spec.angle)

ScaleEntityRequest(spec) ==
    /\ HandlesRequest(spec) /\ CoordinateModel(<<spec.center_x, spec.center_y>>)
    /\ spec.scale_factor > 0
=============================================================================

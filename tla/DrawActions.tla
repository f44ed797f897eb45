---------------------------- MODULE DrawActions ----------------------------
(***************************************************************************)
(* draw_entities and the drawing methods of the adapter it calls.  The     *)
(* field that says what to draw is "type" in the source and "action" here, *)
(* as for the other tools.                                                 *)
(***************************************************************************)
EXTENDS CadDocument

\* _apply_properties swallows its exceptions: a new object may keep the
\* current layer, or have its layer and not its colour.
_apply_properties(d, h, layer, color) ==
    {d} \union
    (IF layer \notin DOMAIN d.layers THEN {}
     ELSE LET placed == [d EXCEPT !.objs[h].layer = layer]
          IN  {placed, [placed EXCEPT !.objs[h].color = _get_color_index(color)]})

\* Slip: a handle that cannot be read is left out of a result that says success.
_finalize_entity_NoHandle(made, h, spec) ==
    UNION {{Done(d, {}), Done(d, {h})} :
        d \in _apply_properties(made, h, Get(spec, "layer", "0"), Get(spec, "color", "white"))}

\* The object is there; the COM call that reads its handle may still raise.
_finalize_entity(made, h, spec) ==
    UNION {{Failed(d), Done(d, {h})} :
        d \in _apply_properties(made, h, Get(spec, "layer", "0"), Get(spec, "color", "white"))}

\* ModelSpace.Add..., then what is particular to the kind, and _finalize_entity:
\* each of them may raise.
Add(d, spec, kind) ==
    {Failed(d)} \union
    (IF ~HasRoom(d) THEN {}
     ELSE LET made == AddTo(d, NewObject(d, kind, "server"))
          IN  {Failed(made)} \union _finalize_entity(made, d.next, spec))

draw_line(d, spec)   == Add(d, spec, "line")
draw_circle(d, spec) == Unless(spec.radius <= 0, d, Add(d, spec, "circle"))
draw_arc(d, spec)    == Add(d, spec, "arc")
draw_polyline(d, spec, points) == Unless(Len(points) < 2, d, Add(d, spec, "polyline"))

\* Four corners and the first again.
draw_rectangle(d, spec) ==
    LET a == spec.corner1  b == spec.corner2
    IN  draw_polyline(d, spec, <<a, <<b[1], a[2]>>, b, <<a[1], b[2]>>, a>>)

draw_text(d, spec)     == Add(d, spec, "text")
add_dimension(d, spec) == Add(d, spec, "dimension")

draw_spline(d, spec) ==
    Unless(Len(spec.points) < 2 \/ Get(spec, "degree", 3) \notin 1 .. 3, d,
           Add(d, spec, "spline"))

\* AddMLeader is tried with an index and, when that raises, without; content,
\* arrow and further groups are set as far as they can be.
draw_mleader(d, spec, groups) ==
    Unless(groups = <<>> \/ \E i \in DOMAIN groups : Len(groups[i]) < 2, d,
           Add(d, spec, "mleader"))

\* Cells that do not fit the rows and columns are left out without a word.
draw_table(d, spec) == Add(d, spec, "table")

-----------------------------------------------------------------------------
\* The groups of a leader: given as such with a base point, or as the points of
\* the shorthand, whose first point is the base point.
LeaderGroups(spec) ==
    IF "leader_groups" \in DOMAIN spec THEN spec.leader_groups
    ELSE SelectSeq(spec.points, LAMBDA group : group # <<>>)

BasePoint(spec) ==
    IF "leader_groups" \in DOMAIN spec THEN spec.base_point
    ELSE IF Len(spec.points) > 1 THEN Get(spec, "base_point", <<0, 0>>)
    ELSE LeaderGroups(spec)[1][1]

_draw_leader_unified(d, spec) ==
    LET groups == LeaderGroups(spec)
    IN  Unless(\/ "leader_groups" \in DOMAIN spec /\ "base_point" \notin DOMAIN spec
               \/ groups = <<>>, d,
               Unless(~DrawMLeaderRequest(spec, BasePoint(spec), groups), d,
                      draw_mleader(d, spec, groups)))

ENTITY_TYPES ==
    [line      |-> {"start", "end"},
     circle    |-> {"center", "radius"},
     arc       |-> {"center", "radius", "start_angle", "end_angle"},
     rectangle |-> {"corner1", "corner2"},
     polyline  |-> {"points"},
     text      |-> {"position", "text"},
     spline    |-> {"points"},
     dimension |-> {"start", "end"},
     leader    |-> {"points"},
     mleader   |-> {"leader_groups"},
     table     |-> {"insertion_point", "num_rows", "num_cols"}]

\* The handlers: parse, validate, draw.
DrawHandler(d, spec) ==
    CASE spec.action = "line"      -> Unless(~DrawLineRequest(spec), d, draw_line(d, spec))
      [] spec.action = "circle"    -> Unless(~DrawCircleRequest(spec), d, draw_circle(d, spec))
      [] spec.action = "arc"       -> Unless(~DrawArcRequest(spec), d, draw_arc(d, spec))
      [] spec.action = "rectangle" -> Unless(~DrawRectangleRequest(spec), d,
                                             draw_rectangle(d, spec))
      [] spec.action = "polyline"  -> Unless(~DrawPolylineRequest(spec), d,
                                             draw_polyline(d, spec, spec.points))
      [] spec.action = "text"      -> Unless(~DrawTextRequest(spec), d, draw_text(d, spec))
      [] spec.action = "spline"    -> Unless(~DrawSplineRequest(spec), d, draw_spline(d, spec))
      [] spec.action = "dimension" -> Unless(~add_dimension_request(spec), d,
                                             add_dimension(d, spec))
      [] spec.action \in {"leader", "mleader"} -> _draw_leader_unified(d, spec)
      [] spec.action = "table"     -> Unless(~DrawTableRequest(spec), d, draw_table(d, spec))

\* One spec of a draw_entities call.
draw_entities(d, spec) ==
    IF Served(ENTITY_TYPES, spec) THEN DrawHandler(d, spec) ELSE {Failed(d)}
=============================================================================

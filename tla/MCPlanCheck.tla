---------------------------- MODULE MCPlanCheck ----------------------------
(* PlanCheck on the plans of one entity that vary a sound plan of each kind: *)
(* in its geometry, in its dimensions, or in what is said of it otherwise.   *)
EXTENDS PlanCheck, TLC

MCLayers == {"AI_PREVIEW_OUTLINE", "AI_PREVIEW_CENTER", "AI_UNCERTAIN", "OUTLINE"}
MCUnits == {"mm", "in", "unitless"}
MCLinetypes == {"continuous", "center2"}

\* Distances between these are whole numbers, with and without elevation; the
\* last one is no point.
O == <<0, 0>>
A == <<30, 40>>
B == <<30, 40, 120>>
Z == <<0, 0, 120>>
C == <<-40, 30>>
Bad == <<1>>
PlanPoints == {O, A, B, Z, Bad}

Points2(name1, name2) ==
    {name1 :> p @@ name2 :> q : p, q \in PlanPoints}
    \cup {name1 :> p : p \in {O}}
Points1(name) == {name :> p : p \in {A, B, Bad}} \cup {<< >>}

Lengths == {Number(50), Number(40), Number(0), NotFinite}
Angles == {Number(0), Number(359), Number(360), NotFinite}
Subrecords(fields) == UNION {[names -> Lengths] : names \in SUBSET fields}

Geometry(kind) ==
    CASE kind = "line" -> Points2("start", "end")
      [] kind = "text" -> Points1("position")
      [] kind = "rectangle" -> Points2("corner1", "corner2")
      [] kind \in {"circle", "arc"} -> Points1("center")
      [] kind = "polyline" ->
            {"points" :> ps : ps \in {<< >>, <<O>>, <<O, A>>, <<O, A, C>>, <<O, A, O>>,
                                      <<O, B>>, <<O, Z, A>>, <<O, A, Bad>>, <<Z, B, C>>}}
            \cup {<< >>}
      [] kind \in {"aligned_dimension", "linear_dimension"} ->
            Points2("start", "end")
            \cup {"start" :> O @@ "end" :> A @@ "text_position" :> p : p \in {A, Bad}}
            \cup {"text_position" :> p : p \in {A, Bad}}
      [] kind = "diametric_dimension" ->
            Points2("chord_point", "far_chord_point")
            \cup {"chord_point" :> O @@ "far_chord_point" :> A @@ "text_position" :> A}
            \cup {"text_position" :> A}
      [] kind = "radial_dimension" ->
            Points2("center", "chord_point")
            \cup {"center" :> O @@ "chord_point" :> A @@ "text_position" :> A}
            \cup {"text_position" :> A}
      [] OTHER -> Points1("position")

Measures(kind) ==
    CASE kind = "text" ->
            Subrecords({"height"}) \cup {"height" :> Number(50) @@ "rotation" :> v : v \in Angles}
      [] kind = "rectangle" ->
            {"width" :> w @@ "height" :> h : w \in {Number(30), Number(31)},
                                             h \in {Number(40), Number(0)}}
            \cup {<< >>, "area" :> Number(1), "radius" :> Number(1)}
      [] kind = "circle" -> Subrecords({"radius"}) \cup {"radius" :> Truth(TRUE)}
      [] kind = "arc" ->
            {"radius" :> r @@ "start_angle" :> s @@ "end_angle" :> t :
                r \in {Number(50), NotFinite}, s, t \in Angles}
            \cup {"radius" :> Number(50) @@ "start_angle" :> Number(0), << >>}
      [] kind = "polyline" -> {<< >>} \cup {"closed" :> v : v \in {Truth(TRUE), Truth(FALSE), Number(1)}}
      [] kind \in {"aligned_dimension", "linear_dimension"} ->
            Subrecords({"measurement"}) \cup Subrecords({"text_height"})
            \cup {"offset" :> Number(-1), "offset" :> NotFinite}
      [] kind = "diametric_dimension" ->
            Subrecords({"diameter", "measurement"}) \cup {"leader_length" :> NotFinite}
      [] kind = "radial_dimension" -> Subrecords({"radius"}) \cup {"text_height" :> Number(3)}
      [] OTHER -> {<< >>}

Kinds == DOMAIN ENTITY_DIMENSION_SCHEMAS \cup {"spline"}

Entity(kind, coordinates, dimensions) ==
    [kind |-> kind, operation |-> "create", targets |-> 0, layer |-> "AI_PREVIEW_OUTLINE",
     linetype |-> "bylayer", source |-> "explicit_dimension", uncertain |-> FALSE,
     coordinates |-> coordinates, dimensions |-> dimensions,
     text |-> IF kind = "text" THEN "M8" ELSE "", background_fill |-> FALSE,
     constraints |-> "satisfied"]

Shapes == UNION {{Entity(kind, c, d) : c \in Geometry(kind), d \in Measures(kind)} : kind \in Kinds}

\* Layouts, changes and deletions of a dimension.
Orders ==
    UNION {{[Entity(kind, c, d) EXCEPT !.operation = op, !.targets = t] :
               c \in {"text_position" :> A, << >>, "start" :> O @@ "end" :> A @@ "text_position" :> A,
                      "chord_point" :> O @@ "far_chord_point" :> A},
               d \in {<< >>, "measurement" :> Number(50), "text_height" :> Number(3)},
               op \in {"layout_only", "modify", "delete"}, t \in 0 .. 2}
           : kind \in {"linear_dimension", "diametric_dimension"}}

\* What is said of a line and of a text apart from its geometry.
Said ==
    {[Entity("line", "start" :> O @@ "end" :> A, << >>)
        EXCEPT !.layer = l, !.linetype = t, !.source = s, !.uncertain = u, !.constraints = c] :
        l \in MCLayers \cup {"missing"}, t \in {"bylayer", "center2", ""},
        s \in {"explicit_dimension", "approximate_reference"}, u \in BOOLEAN,
        c \in {"satisfied", "broken"}}
    \cup {[Entity(kind, "position" :> A @@ "start" :> O @@ "end" :> A, d)
             EXCEPT !.text = t, !.background_fill = b] :
             kind \in {"text", "aligned_dimension"}, t \in {"", " ", "M8"}, b \in BOOLEAN,
             d \in {<< >>, "height" :> Number(50)}}

Plan(e) ==
    [unit |-> "mm", drawing_unit |-> "mm", user_confirmed |-> TRUE, allow_delete |-> TRUE,
     allow_overwrite |-> TRUE, preview_mode |-> TRUE, entity |-> e]

MCPlans ==
    {Plan(e) : e \in Shapes \cup Orders \cup Said}
    \cup {[Plan(e) EXCEPT !.unit = u, !.drawing_unit = d, !.user_confirmed = c,
                          !.allow_delete = a, !.allow_overwrite = ~a, !.preview_mode = p] :
            e \in {f \in Orders : f.targets = 1}
                   \cup {f \in Said : f.text = "" /\ f.constraints = "satisfied"},
            u \in {"mm", "unitless", "cubit"}, d \in {"mm", "in", "unitless", "unknown"},
            c, a, p \in BOOLEAN}

UserDimension(type, layer, override, height) ==
    [object_type |-> type, layer |-> layer, linetype |-> "bylayer", text_override |-> override,
     background_fill |-> FALSE, text_height |-> height, text_position |-> DefaultPlace]

MCDimensions ==
    {UserDimension("AcDbAlignedDimension", l, o, h)
       @@ [ext_line1_point |-> XYZ(O), ext_line2_point |-> XYZ(A)] :
       l \in {"AI_PREVIEW_OUTLINE", "OUTLINE"}, o \in {"", "other"}, h \in {3, 9}}
    \cup {UserDimension("AcDbDiametricDimension", "AI_PREVIEW_OUTLINE", "", 3)
            @@ [chord_point |-> XYZ(O), far_chord_point |-> XYZ(A)]}

=============================================================================

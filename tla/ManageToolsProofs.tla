------------------------- MODULE ManageToolsProofs -------------------------
(***************************************************************************)
(* For all specs, drawings and preview layers: in strict mode no legacy    *)
(* tool changes what a drawing holds but for preview layers; in every mode *)
(* what the server made is named in a result or in doubt, a result that    *)
(* says success is true of its drawing, and drawings stay well formed.     *)
(***************************************************************************)
EXTENDS ManageTools, TLAPS

USE RequestsAssumption, DocumentAssumption, ToolsAssumption

Fields == {"layers", "current", "objs", "defs", "pick", "next"}

\* The inductive invariant: drawings are records, ids are given out in order,
\* and draw_entities is not at work in strict mode.
StrictInv ==
    /\ edits \in Nat
    /\ strict =>
        /\ call # "draw_entities"
        /\ opened \in Nat /\ Open \subseteq 1 .. opened
        /\ \A id \in Open : DOMAIN docs[id] = Fields

-----------------------------------------------------------------------------
(* What a spec may do to one drawing.                                       *)

\* In strict mode the tools that look at entities and blocks leave the drawing
\* as it is.
LEMMA EntitiesStay ==
    ASSUME NEW d, NEW spec, strict, call = "manage_entities",
           NEW o \in manage_entities(d, spec, assert_legacy_action_allowed(call, spec))
    PROVE  o.doc = d
  <1>1. CASE o = Failed(d)
    BY <1>1 DEF Failed
  <1>2. CASE o # Failed(d)
    <2>1. Served(ENTITY_DISPATCH, spec) /\ assert_legacy_action_allowed(call, spec)
      BY <1>2 DEF manage_entities
    <2>2. spec.action = "select"
      BY <2>1 DEF assert_legacy_action_allowed, READ_ONLY_ACTIONS
    <2>3. o \in select(d, spec.by, spec.value)
      BY <2>1, <2>2 DEF manage_entities, EntityOutcomes
    <2>4. \A hs : \A q \in _select_entities_generic(d, hs) : q.doc = d
      BY DEF _select_entities_generic, Done
    <2> QED
      BY <1>2, <2>3, <2>4 DEF select, select_by_layer, select_by_color, select_by_type
  <1> QED
    BY <1>1, <1>2

LEMMA BlocksStay ==
    ASSUME NEW d, NEW spec, strict, call = "manage_blocks",
           NEW o \in manage_blocks(d, spec, assert_legacy_action_allowed(call, spec))
    PROVE  o.doc = d
  <1>1. CASE o = Failed(d)
    BY <1>1 DEF Failed
  <1>2. CASE o # Failed(d)
    <2>1. Served(BLOCK_DISPATCH, spec) /\ assert_legacy_action_allowed(call, spec)
      BY <1>2 DEF manage_blocks
    <2>2. spec.action \in {"list", "info", "get_attrs"}
      BY <2>1 DEF assert_legacy_action_allowed, READ_ONLY_ACTIONS
    <2>3. o \in list_blocks(d) \/ o \in get_block_attributes(d) \/ o \in block_info(d, spec)
      BY <2>1, <2>2 DEF manage_blocks, BlockOutcomes
    <2>4. \A q \in get_block_info(d) \union get_block_references(d) \union list_blocks(d)
                     \union get_block_attributes(d) : q.doc = d
      BY DEF get_block_info, get_block_references, list_blocks, get_block_attributes, Done
    <2> QED
      BY <1>2, <2>3, <2>4 DEF block_info
  <1> QED
    BY <1>1, <1>2

\* A layer is created under the name of a preview layer only.
LEMMA LayersGuarded ==
    ASSUME NEW d, DOMAIN d = Fields, NEW spec, strict, call = "manage_layers",
           NEW o \in manage_layers(d, spec, assert_legacy_action_allowed(call, spec))
    PROVE  DOMAIN o.doc = Fields /\ Guarded(o.doc) = Guarded(d)
  <1>1. CASE o = Failed(d)
    BY <1>1 DEF Failed
  <1>2. CASE o # Failed(d)
    <2>1. Served(LAYER_DISPATCH, spec) /\ assert_legacy_action_allowed(call, spec)
      BY <1>2 DEF manage_layers
    <2>2. \/ spec.action = "create" /\ spec.name \in PREVIEW_LAYERS
          \/ spec.action \in {"list", "info", "is_on"}
      BY <2>1 DEF assert_legacy_action_allowed, READ_ONLY_ACTIONS
    <2>3. CASE spec.action \in {"list", "info", "is_on"}
      <3>1. o \in LayerQuery(d)
        BY <2>1, <2>3 DEF manage_layers, LayerOutcomes
      <3> QED
        BY <3>1 DEF LayerQuery, Done
    <2>4. CASE spec.action = "create" /\ spec.name \in PREVIEW_LAYERS
      <3> DEFINE n == spec.name
                 added == AddLayer(d, n)
      <3>1. PICK color : o \in create_layer(d, n, color)
        BY <1>2, <2>1, <2>4 DEF manage_layers, LayerOutcomes, Unless
      <3> DEFINE colored == [added EXCEPT !.layers[n].color = color]
      <3>2. o.doc \in {d, added, colored}
        BY <3>1 DEF create_layer, Attempt, Failed, Done
      <3>3. DOMAIN added = Fields /\ Guarded(added) = Guarded(d)
        BY <2>4 DEF AddLayer, Guarded, Fields, Extended
      <3>4. DOMAIN colored = Fields /\ Guarded(colored) = Guarded(added)
        BY <2>4, <3>3 DEF Guarded, Fields
      <3> QED
        BY <3>2, <3>3, <3>4
    <2> QED
      BY <2>2, <2>3, <2>4
  <1> QED
    BY <1>1, <1>2

LEMMA OutcomesGuarded ==
    ASSUME NEW d, DOMAIN d = Fields, NEW spec, strict, call \in Works \ {"draw_entities"},
           NEW o \in Outcomes(spec, d)
    PROVE  DOMAIN o.doc = Fields /\ Guarded(o.doc) = Guarded(d)
  <1>1. CASE call = "manage_entities"
    BY <1>1, EntitiesStay DEF Outcomes
  <1>2. CASE call = "manage_layers"
    BY <1>2, LayersGuarded DEF Outcomes
  <1>3. CASE call = "manage_blocks"
    BY <1>3, BlocksStay DEF Outcomes
  <1> QED
    BY <1>1, <1>2, <1>3 DEF Works

-----------------------------------------------------------------------------
(* What a step may do to all of them.                                       *)

\* The drawings there were are there, as they were in all that is guarded.
Kept == \A id \in Open : /\ id \in DOMAIN docs' /\ DOMAIN docs'[id] = Fields
                         /\ Guarded(docs'[id]) = Guarded(docs[id])

\* So are they, and those that come are drawings under new ids.
Keeps ==
    /\ Kept
    /\ opened' \in Nat /\ Open' \subseteq 1 .. opened'
    /\ \A id \in Open' : DOMAIN docs'[id] = Fields

LEMMA Unchanged ==
    ASSUME StrictInv, strict, UNCHANGED <<docs, opened>>
    PROVE  Keeps
  BY DEF StrictInv, Keeps, Kept, Open

LEMMA AddDrawingKeeps ==
    ASSUME StrictInv, strict, AddDrawing
    PROVE  Keeps
  <1>1. Fresh \notin Open /\ opened' = opened + 1 /\ docs' = Extended(docs, Fresh, EmptyDocument)
    BY DEF StrictInv, AddDrawing, Fresh
  <1>2. /\ DOMAIN docs' = DOMAIN docs \union {Fresh}
        /\ docs'[Fresh] = EmptyDocument
        /\ \A id \in Open : docs'[id] = docs[id]
    BY <1>1 DEF Open, Extended
  <1>3. DOMAIN EmptyDocument = Fields
    BY DEF EmptyDocument, Fields
  <1> QED
    BY <1>1, <1>2, <1>3 DEF StrictInv, Keeps, Kept, Open, Fresh

LEMMA GetAdapterKeeps ==
    ASSUME StrictInv, strict, get_adapter
    PROVE  Keeps
  BY AddDrawingKeeps, Unchanged DEF get_adapter, cadVars

LEMMA WorkOffKeeps ==
    ASSUME StrictInv, strict, NEW spec, WorkOff(spec)
    PROVE  Keeps
  <1>1. PICK on, o : o \in Outcomes(spec, docs[on]) /\ Put(on, o.doc)
    BY DEF WorkOff
  <1>2. call \in Works \ {"draw_entities"}
    BY DEF StrictInv, WorkOff
  <1>3. docs' = [docs EXCEPT ![on] = o.doc] /\ opened' = opened
    BY <1>1 DEF Put
  <1>4. on \in Open => DOMAIN o.doc = Fields /\ Guarded(o.doc) = Guarded(docs[on])
    BY <1>1, <1>2, OutcomesGuarded DEF StrictInv
  <1> QED
    BY <1>3, <1>4 DEF StrictInv, Keeps, Kept, Open

\* Which file and session operations strict mode lets through.
LEMMA LetThrough ==
    ASSUME strict, NEW spec
    PROVE  /\ assert_legacy_action_allowed("manage_files", spec) =>
                spec.action \in {"list", "switch"}
           /\ assert_legacy_action_allowed("manage_session", spec) =>
                spec.action \notin {"undo", "redo"}
  BY DEF assert_legacy_action_allowed, READ_ONLY_ACTIONS

LEMMA FileOpsKeep ==
    ASSUME StrictInv, strict, NEW spec,
           \/ FileOpFails(spec) \/ save_drawing(spec) \/ get_open_drawings(spec)
           \/ new_drawing(spec) \/ switch_drawing(spec) \/ close_drawing(spec)
    PROVE  Keeps
  <1>1. ~save_drawing(spec) /\ ~new_drawing(spec) /\ ~close_drawing(spec)
    BY LetThrough DEF save_drawing, new_drawing, close_drawing, FileOp
  <1>2. UNCHANGED <<docs, opened>>
    BY <1>1 DEF FileOpFails, get_open_drawings, switch_drawing, cadVars
  <1> QED
    BY <1>2, Unchanged

LEMMA SessionOpsKeep ==
    ASSUME StrictInv, strict, NEW spec,
           \/ SessionOpFails(spec) \/ _connect(spec) \/ _check_running(spec)
           \/ _disconnect(spec) \/ _status(spec) \/ _screenshot(spec)
           \/ export_view(spec) \/ undo_redo(spec)
    PROVE  Keeps
  <1>1. ~undo_redo(spec)
    BY LetThrough DEF undo_redo, SessionOp
  <1>2. AddDrawing \/ get_adapter \/ UNCHANGED <<docs, opened>>
    BY <1>1 DEF SessionOpFails, _connect, _check_running, _disconnect, _status, _screenshot,
                export_view, cadVars
  <1> QED
    BY <1>2, AddDrawingKeeps, GetAdapterKeeps, Unchanged

LEMMA ServerKeeps ==
    ASSUME StrictInv, strict, Server
    PROVE  Keeps
  <1>1. CASE EndCall
    BY <1>1, Unchanged DEF EndCall, cadVars
  <1>2. CASE \E tool \in Tools : BeginCall(tool)
    <2>1. get_adapter \/ UNCHANGED <<docs, opened>>
      BY <1>2 DEF BeginCall, cadVars
    <2> QED
      BY <2>1, GetAdapterKeeps, Unchanged
  <1>3. ASSUME NEW spec \in Specs[call], Unreachable(spec) PROVE Keeps
    BY <1>3, Unchanged DEF Unreachable, cadVars
  <1> QED
    BY <1>1, <1>2, <1>3, WorkOffKeeps, FileOpsKeep, SessionOpsKeep DEF Server

\* The person draws, erases, opens and closes.
LEMMA UserStep ==
    ASSUME StrictInv, User
    PROVE  StrictInv' /\ edits' # edits
  <1>1. edits' = edits + 1 /\ UNCHANGED <<call, strict>>
    BY DEF User, UserDraws, UserErases, UserPicks, UserSwitches, UserCloses, UserOpens, Edit
  <1>2. SUFFICES ASSUME strict
                 PROVE  /\ opened' \in Nat /\ Open' \subseteq 1 .. opened'
                        /\ \A id \in Open' : DOMAIN docs'[id] = Fields
    BY <1>1 DEF StrictInv
  <1>3. CASE UserOpens
    BY <1>2, <1>3, AddDrawingKeeps DEF UserOpens, Keeps
  <1>4. CASE UserSwitches
    BY <1>2, <1>4, Unchanged DEF UserSwitches, Keeps
  <1>5. CASE UserCloses
    BY <1>2, <1>5 DEF UserCloses, StrictInv, Without, Open
  <1>6. CASE UserDraws \/ UserErases \/ UserPicks
    <2>1. PICK d : /\ docs' = [docs EXCEPT ![front] = d]
                   /\ front \in Open => DOMAIN d = DOMAIN docs[front]
      BY <1>6 DEF UserDraws, UserErases, UserPicks, Put, AddTo, Erased
    <2>2. opened' = opened
      BY <1>6 DEF UserDraws, UserErases, UserPicks, Put
    <2> QED
      BY <1>2, <2>1, <2>2 DEF StrictInv, Open
  <1> QED
    BY <1>1, <1>3, <1>4, <1>5, <1>6 DEF User, StrictInv

LEMMA ServerFrame ==
    ASSUME Server
    PROVE  UNCHANGED <<edits, strict>> /\ (strict => call' = call \/ call' # "draw_entities")
  <1>1. CASE EndCall \/ \E tool \in Tools : BeginCall(tool)
    BY <1>1 DEF EndCall, BeginCall, Idle
  <1>2. ASSUME NEW spec, NEW ok, NEW on, Append1(spec, ok, on)
        PROVE  UNCHANGED <<edits, strict, call>>
    BY <1>2 DEF Append1
  <1>3. ASSUME NEW spec, WorkOff(spec) \/ Unreachable(spec)
        PROVE  UNCHANGED <<edits, strict, call>>
    BY <1>3, <1>2 DEF WorkOff, Unreachable
  <1>4. ASSUME NEW spec,
               \/ FileOpFails(spec) \/ save_drawing(spec) \/ get_open_drawings(spec)
               \/ new_drawing(spec) \/ switch_drawing(spec) \/ close_drawing(spec)
        PROVE  UNCHANGED <<edits, strict, call>>
    BY <1>4, <1>2 DEF FileOpFails, save_drawing, get_open_drawings, new_drawing,
                      switch_drawing, close_drawing
  <1>5. ASSUME NEW spec,
               \/ SessionOpFails(spec) \/ _connect(spec) \/ _check_running(spec)
               \/ _disconnect(spec) \/ _status(spec) \/ _screenshot(spec)
               \/ export_view(spec) \/ undo_redo(spec)
        PROVE  UNCHANGED <<edits, strict, call>>
    BY <1>5, <1>2 DEF SessionOpFails, _connect, _check_running, _disconnect, _status,
                      _screenshot, export_view, undo_redo
  <1> QED
    BY <1>1, <1>3, <1>4, <1>5 DEF Server

LEMMA StrictInvariant == Spec => []StrictInv
  <1>1. Init => StrictInv
    BY DEF Init, StrictInv, IsDocument, Fields, Open, Idle
  <1>2. StrictInv /\ [Next]_vars => StrictInv'
    <2> SUFFICES ASSUME StrictInv, [Next]_vars PROVE StrictInv'
      OBVIOUS
    <2>1. CASE User
      BY <2>1, UserStep
    <2>2. CASE Server
      BY <2>2, ServerFrame, ServerKeeps DEF StrictInv, Keeps
    <2>3. CASE UNCHANGED vars
      BY <2>3 DEF StrictInv, Open, vars, cadVars
    <2> QED
      BY <2>1, <2>2, <2>3 DEF Next
  <1> QED
    BY <1>1, <1>2, PTL DEF Spec

\* In strict mode no step of a legacy tool changes what an open drawing holds,
\* but for preview layers, whatever the tools are called with.
THEOREM StrictKeepsDrawingsHolds == Spec => StrictKeepsDrawings
  <1>1. StrictInv /\ [Next]_vars =>
          [strict /\ call # Idle /\ edits' = edits =>
             \A id \in Open : id \in DOMAIN docs' /\ Guarded(docs'[id]) = Guarded(docs[id])]_vars
    BY UserStep, ServerKeeps DEF Next, Keeps, Kept
  <1> QED
    BY <1>1, StrictInvariant, PTL DEF Spec, StrictKeepsDrawings
-----------------------------------------------------------------------------
(* What results name.  First what a call of the object model adds to a     *)
(* drawing, then each tool, then undo, redo and the person.                *)

ObjectFields == {"kind", "layer", "color", "shape", "text", "by"}
LayerFields == {"color", "frozen"}

\* A drawing whose layers and objects are records, and whose objects say who
\* made them.
LayersShaped(d) == \A n \in DOMAIN d.layers : DOMAIN d.layers[n] = LayerFields
ObjectShaped(object) == DOMAIN object = ObjectFields /\ object.shape \in {0, 1}
Labelled(d) ==
    /\ DOMAIN d = Fields /\ LayersShaped(d)
    /\ \A h \in DOMAIN d.objs : ObjectShaped(d.objs[h])

FromServer(d, h) == h \in DOMAIN d.objs /\ d.objs[h].by = "server"

\* From d to e at most the objects of hs came from the server.
Adds(d, e, hs) == Labelled(e) /\ \A h : FromServer(e, h) => FromServer(d, h) \/ h \in hs

LEMMA AddsNothing ==
    ASSUME NEW d, Labelled(d)
    PROVE  Adds(d, d, {})
  BY DEF Adds

LEMMA AddsBoth ==
    ASSUME NEW d, NEW e, NEW f, NEW hs, Adds(d, e, hs), Adds(e, f, {})
    PROVE  Adds(d, f, hs)
  BY DEF Adds

\* What leaves the objects alone adds none.
LEMMA SameObjects ==
    ASSUME NEW d, NEW e, Labelled(d), DOMAIN e = Fields, e.objs = d.objs,
           LayersShaped(e)
    PROVE  Adds(d, e, {})
  BY DEF Adds, Labelled, FromServer

\* Nor does what exchanges or drops objects and keeps who made them.
LEMMA ObjectsKept ==
    ASSUME NEW d, NEW e, Labelled(d), DOMAIN e = Fields, DOMAIN e.objs \subseteq DOMAIN d.objs,
           LayersShaped(e),
           \A h \in DOMAIN e.objs : ObjectShaped(e.objs[h]) /\ e.objs[h].by = d.objs[h].by
    PROVE  Adds(d, e, {})
  BY DEF Adds, Labelled, FromServer

LEMMA ChangedAdds ==
    ASSUME NEW d, Labelled(d), NEW hs, NEW become,
           \A h \in DOMAIN d.objs : ObjectShaped(become[h]) /\ become[h].by = d.objs[h].by
    PROVE  Adds(d, Changed(d, hs, become), {})
  <1> DEFINE e == Changed(d, hs, become)
  <1>1. /\ DOMAIN e = Fields /\ e.layers = d.layers
        /\ e.objs = [h \in DOMAIN d.objs |-> IF h \in hs THEN become[h] ELSE d.objs[h]]
    BY DEF Changed, Labelled, Fields
  <1>2. \A h \in DOMAIN e.objs : ObjectShaped(e.objs[h]) /\ e.objs[h].by = d.objs[h].by
    BY <1>1 DEF Labelled
  <1>3. LayersShaped(e) /\ DOMAIN e.objs \subseteq DOMAIN d.objs
    BY <1>1 DEF Labelled, LayersShaped
  <1>4. Adds(d, e, {})
    <2> HIDE DEF e
    <2> QED
      BY <1>1, <1>2, <1>3, ObjectsKept
  <1> QED
    BY <1>4

LEMMA ErasedAdds ==
    ASSUME NEW d, Labelled(d), NEW hs
    PROVE  Adds(d, Erased(d, hs), {})
  <1> DEFINE e == Erased(d, hs)
  <1>1. DOMAIN e = Fields /\ e.objs = Without(d.objs, hs) /\ e.layers = d.layers
    BY DEF Erased, Labelled, Fields
  <1>2. LayersShaped(e)
    BY <1>1 DEF Labelled, LayersShaped
  <1> QED
    BY <1>1, <1>2, ObjectsKept DEF Without, Labelled

LEMMA AddToAdds ==
    ASSUME NEW d, Labelled(d), NEW kind, NEW by, NEW f
    PROVE  /\ Adds(d, AddTo(d, NewObject(f, kind, by)), {d.next})
           /\ by # "server" => Adds(d, AddTo(d, NewObject(f, kind, by)), {})
  <1> DEFINE object == NewObject(f, kind, by)
             e == AddTo(d, object)
  <1>1. /\ DOMAIN e = Fields /\ e.objs = Extended(d.objs, d.next, object)
        /\ e.layers = d.layers
    BY DEF AddTo, Labelled, Fields
  <1>2. ObjectShaped(object) /\ object.by = by
    BY DEF NewObject, ObjectShaped, ObjectFields
  <1>3. Labelled(e)
    BY <1>1, <1>2 DEF Extended, Labelled, LayersShaped
  <1>4. ASSUME NEW h, FromServer(e, h)
        PROVE  FromServer(d, h) \/ (h = d.next /\ by = "server")
    <2> HIDE DEF object, e
    <2>1. /\ DOMAIN e.objs = DOMAIN d.objs \union {d.next}
          /\ h \in DOMAIN e.objs => e.objs[h] = IF h = d.next THEN object ELSE d.objs[h]
      BY <1>1 DEF Extended
    <2> QED
      BY <1>2, <1>4, <2>1 DEF FromServer
  <1> HIDE DEF object, e
  <1>5. Adds(d, e, {d.next}) /\ (by # "server" => Adds(d, e, {}))
    BY <1>3, <1>4 DEF Adds
  <1> QED
    BY <1>5 DEF e, object

LEMMA ForSomeAdds ==
    ASSUME NEW d, Labelled(d), NEW hs, NEW become, NEW o \in ForSome(d, hs, become),
           \A h \in DOMAIN d.objs : ObjectShaped(become[h]) /\ become[h].by = d.objs[h].by
    PROVE  Adds(d, o.doc, {})
  <1>1. CASE o = Failed(d)
    BY <1>1, AddsNothing DEF Failed
  <1>2. CASE \E some : o = Done(Changed(d, some, become), {})
    BY <1>2, ChangedAdds DEF Done
  <1> QED
    BY <1>1, <1>2 DEF ForSome

\* Shape, colour and layer of an object are not who made it.
LEMMA BecomeKeeps ==
    ASSUME NEW d, Labelled(d), NEW h \in DOMAIN d.objs, NEW value,
           NEW property \in {"color", "layer"}
    PROVE  /\ ObjectShaped(With(d, property, value)[h])
           /\ With(d, property, value)[h].by = d.objs[h].by
           /\ ObjectShaped(Reshaped(d)[h])
           /\ Reshaped(d)[h].by = d.objs[h].by
  BY DEF With, Reshaped, Labelled, ObjectShaped, ObjectFields

LEMMA AddLayerAdds ==
    ASSUME NEW d, Labelled(d), NEW n
    PROVE  Adds(d, AddLayer(d, n), {})
  <1>1. DOMAIN AddLayer(d, n) = Fields /\ AddLayer(d, n).objs = d.objs
    BY DEF AddLayer, Labelled, Fields
  <1>2. LayersShaped(AddLayer(d, n))
    BY DEF AddLayer, Labelled, LayersShaped, LayerFields, Extended, NewLayer, Fields
  <1> QED
    BY <1>1, <1>2, SameObjects

\* One object has one of its other properties set.
LEMMA SetAdds ==
    ASSUME NEW d, Labelled(d), NEW h, NEW field \in {"layer", "color", "text"}, NEW value
    PROVE  Adds(d, [d EXCEPT !.objs[h] = [@ EXCEPT ![field] = value]], {})
  <1> DEFINE e == [d EXCEPT !.objs[h] = [@ EXCEPT ![field] = value]]
  <1>1. /\ DOMAIN e = Fields /\ e.layers = d.layers
        /\ e.objs = [d.objs EXCEPT ![h] = [@ EXCEPT ![field] = value]]
    BY DEF Labelled, Fields
  <1>2. /\ DOMAIN e.objs = DOMAIN d.objs
        /\ \A k \in DOMAIN d.objs : ObjectShaped(e.objs[k]) /\ e.objs[k].by = d.objs[k].by
    BY <1>1 DEF Labelled, ObjectShaped, ObjectFields
  <1>3. LayersShaped(e)
    BY <1>1 DEF Labelled, LayersShaped
  <1>4. Adds(d, e, {})
    <2> HIDE DEF e
    <2> QED
      BY <1>1, <1>2, <1>3, ObjectsKept
  <1> QED
    BY <1>4

LEMMA EntitiesAdd ==
    ASSUME NEW d, Labelled(d), NEW spec, NEW allowed, NEW o \in manage_entities(d, spec, allowed)
    PROVE  /\ Labelled(o.doc)
           /\ Get(spec, "action", "") # "paste" => Adds(d, o.doc, {})
  <1>1. CASE o = Failed(d)
    BY <1>1, AddsNothing DEF Failed
  <1>2. CASE o # Failed(d)
    <2>1. Served(ENTITY_DISPATCH, spec) /\ o \in EntityOutcomes(spec, d)
      BY <1>2 DEF manage_entities
    <2>2. /\ Get(spec, "action", "") = spec.action
          /\ spec.action \in {"select", "move", "rotate", "scale", "set_color", "set_layer",
                              "set_color_bylayer", "copy", "paste", "delete"}
      BY <2>1 DEF Served, ENTITY_DISPATCH, Get
    <2>3. CASE spec.action = "select"
      <3>1. o \in select(d, spec.by, spec.value)
        BY <2>1, <2>3 DEF EntityOutcomes
      <3>2. \A hs : \A q \in _select_entities_generic(d, hs) : q.doc = d
        BY DEF _select_entities_generic, Done
      <3>3. o.doc = d
        BY <1>2, <3>1, <3>2 DEF select, select_by_layer, select_by_color, select_by_type
      <3> QED
        BY <3>3, AddsNothing
    <2>4. CASE spec.action \in {"move", "rotate", "scale"}
      <3>1. o \in ForSome(d, spec.handles, Reshaped(d))
        BY <1>2, <2>1, <2>4
           DEF EntityOutcomes, Unless, move_entities, rotate_entities, scale_entities
      <3>2. Adds(d, o.doc, {})
        BY <3>1, ForSomeAdds, BecomeKeeps
      <3> QED
        BY <3>2 DEF Adds
    <2>5. CASE spec.action \in {"set_color", "set_color_bylayer"}
      <3>1. PICK value : o \in ForSome(d, spec.handles, With(d, "color", value))
        BY <2>1, <2>5 DEF EntityOutcomes, change_entity_color, set_entities_color_bylayer
      <3>2. Adds(d, o.doc, {})
        BY <3>1, ForSomeAdds, BecomeKeeps
      <3> QED
        BY <3>2 DEF Adds
    <2>6. CASE spec.action = "set_layer"
      <3> DEFINE n == spec.layer_name
                 added == AddLayer(d, n)
      <3>1. o \in ForSome(added, spec.handles, With(d, "layer", n))
        BY <1>2, <2>1, <2>6 DEF EntityOutcomes, change_entity_layer
      <3>2. Adds(d, added, {}) /\ Labelled(added) /\ added.objs = d.objs
        BY AddLayerAdds DEF Adds, AddLayer, Labelled, Fields
      <3>3. Adds(added, o.doc, {})
        BY <3>1, <3>2, ForSomeAdds, BecomeKeeps
      <3>4. Adds(d, o.doc, {})
        BY <3>2, <3>3, AddsBoth
      <3> QED
        BY <3>4 DEF Adds
    <2>7. CASE spec.action = "copy"
      <3>1. o.doc = d
        BY <2>1, <2>7 DEF EntityOutcomes, copy_entities, Failed, Done
      <3> QED
        BY <3>1, AddsNothing
    <2>8. CASE spec.action = "paste"
      <3>1. o.doc = d \/ \E kind : o.doc = AddTo(d, NewObject(d, kind, "server"))
        BY <1>2, <2>1, <2>8 DEF EntityOutcomes, Unless, paste_entities, Done
      <3>2. Labelled(o.doc)
        BY <3>1, AddToAdds DEF Adds
      <3> QED
        BY <2>2, <2>8, <3>2
    <2>9. CASE spec.action = "delete"
      <3>1. PICK some : o.doc = Erased(d, some)
        BY <1>2, <2>1, <2>9 DEF EntityOutcomes, delete_entities, Done
      <3> QED
        BY <3>1, ErasedAdds DEF Adds
    <2> QED
      BY <2>2, <2>3, <2>4, <2>5, <2>6, <2>7, <2>8, <2>9
  <1> QED
    BY <1>1, <1>2
LEMMA LayersAdd ==
    ASSUME NEW d, Labelled(d), NEW spec, NEW allowed, NEW o \in manage_layers(d, spec, allowed)
    PROVE  Adds(d, o.doc, {})
  <1>1. CASE o.doc = d
    BY <1>1, AddsNothing
  <1>2. CASE o.doc # d
    <2>1. Served(LAYER_DISPATCH, spec) /\ o \in LayerOutcomes(spec, d)
      BY <1>2 DEF manage_layers, Failed
    <2>2. spec.action \in {"create", "rename", "delete", "turn_on", "turn_off", "set_color",
                           "list", "is_on", "info"}
      BY <2>1 DEF Served, LAYER_DISPATCH
    <2>3. CASE spec.action = "create"
      <3> DEFINE n == spec.name
                 added == AddLayer(d, n)
      <3>1. PICK color : o \in create_layer(d, n, color)
        BY <1>2, <2>1, <2>3 DEF LayerOutcomes, Unless, Failed
      <3> DEFINE colored == [added EXCEPT !.layers[n].color = color]
      <3>2. o.doc \in {added, colored}
        BY <1>2, <3>1 DEF create_layer, Attempt, Failed, Done
      <3>3. Adds(d, added, {})
        BY AddLayerAdds
      <3>4. DOMAIN colored = Fields /\ colored.objs = d.objs
        BY DEF AddLayer, Labelled, Fields
      <3>5. LayersShaped(colored)
        <4> HIDE DEF added
        <4> QED
          BY <3>3 DEF Adds, Labelled, LayersShaped, LayerFields, Fields
      <3> QED
        BY <3>2, <3>3, <3>4, <3>5, SameObjects
    <2>4. CASE spec.action = "rename"
      <3> DEFINE old == spec.old_name
                 new == spec.new_name
      <3>1. o.doc = [d EXCEPT !.layers = Extended(Without(@, {old}), new, d.layers[old]),
                              !.current = IF @ = old THEN new ELSE @,
                              !.objs = [h \in DOMAIN @ |->
                                  IF @[h].layer = old THEN [@[h] EXCEPT !.layer = new] ELSE @[h]]]
        BY <1>2, <2>1, <2>4 DEF LayerOutcomes, rename_layer, Attempt, Failed, Done
      <3>2. /\ DOMAIN o.doc = Fields
            /\ o.doc.objs = [h \in DOMAIN d.objs |->
                   IF d.objs[h].layer = old THEN [d.objs[h] EXCEPT !.layer = new] ELSE d.objs[h]]
        BY <3>1 DEF Labelled, Fields
      <3>3. \A h \in DOMAIN o.doc.objs : /\ ObjectShaped(o.doc.objs[h])
                                         /\ o.doc.objs[h].by = d.objs[h].by
        BY <3>2 DEF Labelled, ObjectShaped, ObjectFields
      <3>4. o.doc.layers = Extended(Without(d.layers, {old}), new, d.layers[old])
        BY <3>1 DEF Labelled, Fields
      <3>5. LayersShaped(o.doc)
        BY <2>1, <2>4, <1>2, <3>4 DEF LayerOutcomes, rename_layer, Labelled, LayersShaped,
                                      Extended, Without, Failed
      <3> QED
        BY <3>2, <3>3, <3>5, ObjectsKept
    <2>5. CASE spec.action = "delete"
      <3>1. o.doc = [d EXCEPT !.layers = Without(@, {spec.name})]
        BY <1>2, <2>1, <2>5 DEF LayerOutcomes, delete_layer, Attempt, Failed, Done
      <3>2. LayersShaped(o.doc)
        BY <3>1 DEF Labelled, LayersShaped, Fields, Without
      <3> QED
        BY <3>1, <3>2, SameObjects DEF Labelled, Fields
    <2>6. CASE spec.action \in {"turn_on", "turn_off"}
      <3>1. PICK frozen : o \in turn_layers(d, spec.names, frozen)
        BY <2>1, <2>6 DEF LayerOutcomes
      <3> DEFINE after(some) ==
                   [d EXCEPT !.layers = [n \in DOMAIN @ |->
                       IF n \in some THEN [@[n] EXCEPT !.frozen = frozen] ELSE @[n]]]
      <3>2. PICK some : o = IF some = spec.names THEN Done(after(some), {}) ELSE Failed(after(some))
        BY <3>1 DEF turn_layers
      <3>3. o.doc = after(some)
        BY <3>2 DEF Failed, Done
      <3>4. DOMAIN after(some) = Fields /\ after(some).objs = d.objs
        BY DEF Labelled, Fields
      <3>5. LayersShaped(after(some))
        BY DEF Labelled, LayersShaped, LayerFields, Fields
      <3> QED
        BY <3>3, <3>4, <3>5, SameObjects
    <2>7. CASE spec.action = "set_color"
      <3>1. o.doc = [d EXCEPT !.layers[spec.name].color = _get_color_index(spec.color)]
        BY <1>2, <2>1, <2>7 DEF LayerOutcomes, set_layer_color, Attempt, Failed, Done
      <3>2. LayersShaped(o.doc)
        BY <3>1 DEF Labelled, LayersShaped, LayerFields, Fields
      <3> QED
        BY <3>1, <3>2, SameObjects DEF Labelled, Fields
    <2>8. CASE spec.action \in {"list", "is_on", "info"}
      <3>1. o \in LayerQuery(d)
        BY <2>1, <2>8 DEF LayerOutcomes
      <3> QED
        BY <1>2, <3>1 DEF LayerQuery, Done
    <2> QED
      BY <2>2, <2>3, <2>4, <2>5, <2>6, <2>7, <2>8
  <1> QED
    BY <1>1, <1>2

-----------------------------------------------------------------------------
\* A new object is the one that is named, or the result says it failed.
LEMMA FinalizeAdds ==
    ASSUME NEW d, NEW m, NEW h, NEW spec, Adds(d, m, {h}), NEW o \in _finalize_entity(m, h, spec)
    PROVE  Labelled(o.doc) /\ (o.ok => Adds(d, o.doc, o.handles))
  <1> DEFINE layer == Get(spec, "layer", "0")
             color == Get(spec, "color", "white")
  <1>1. PICK e \in _apply_properties(m, h, layer, color) : o \in {Failed(e), Done(e, {h})}
    BY DEF _finalize_entity
  <1>2. Labelled(m)
    BY DEF Adds
  <1>3. Adds(m, e, {})
    <2> DEFINE placed == [m EXCEPT !.objs[h].layer = layer]
               index == _get_color_index(color)
               colored == [placed EXCEPT !.objs[h].color = index]
    <2>1. e \in {m, placed, colored}
      BY <1>1 DEF _apply_properties
    <2>2. Adds(m, placed, {})
      BY <1>2, SetAdds
    <2>3. Adds(placed, colored, {})
      <3> HIDE DEF placed, index
      <3> QED
        BY <2>2, SetAdds DEF Adds
    <2> QED
      BY <1>2, <2>1, <2>2, <2>3, AddsNothing, AddsBoth
  <1>4. Adds(d, e, {h})
    BY <1>3, AddsBoth
  <1> QED
    BY <1>1, <1>4 DEF Adds, Failed, Done

LEMMA AddAdds ==
    ASSUME NEW d, Labelled(d), NEW spec, NEW kind, NEW o \in Add(d, spec, kind)
    PROVE  Labelled(o.doc) /\ (o.ok => Adds(d, o.doc, o.handles))
  <1> DEFINE made == AddTo(d, NewObject(d, kind, "server"))
  <1>1. Adds(d, made, {d.next}) /\ Labelled(made)
    BY AddToAdds DEF Adds
  <1>2. CASE o \in {Failed(d), Failed(made)}
    BY <1>1, <1>2 DEF Failed
  <1>3. CASE o \in _finalize_entity(made, d.next, spec)
    BY <1>1, <1>3, FinalizeAdds
  <1> QED
    BY <1>2, <1>3 DEF Add

LEMMA DrawAdds ==
    ASSUME NEW d, Labelled(d), NEW spec, NEW o \in draw_entities(d, spec)
    PROVE  Labelled(o.doc) /\ (o.ok => Adds(d, o.doc, o.handles))
  <1>1. CASE o = Failed(d)
    BY <1>1 DEF Failed
  <1>2. CASE o # Failed(d)
    <2>1. spec.action \in DOMAIN ENTITY_TYPES /\ o \in DrawHandler(d, spec)
      BY <1>2 DEF draw_entities, Served
    <2>2. spec.action \in {"line", "circle", "arc", "rectangle", "polyline", "text", "spline",
                           "dimension", "leader", "mleader", "table"}
      BY <2>1 DEF ENTITY_TYPES
    <2>3. CASE spec.action \in {"line", "arc", "text", "dimension", "table", "circle"}
      <3>1. \E kind : o \in Add(d, spec, kind)
        BY <1>2, <2>1, <2>3 DEF DrawHandler, Unless, draw_line, draw_arc, draw_text,
                                add_dimension, draw_table, draw_circle
      <3> QED
        BY <3>1, AddAdds
    <2>4. CASE spec.action \in {"rectangle", "polyline"}
      <3>1. o \in Add(d, spec, "polyline")
        BY <1>2, <2>1, <2>4 DEF DrawHandler, Unless, draw_rectangle, draw_polyline
      <3> QED
        BY <3>1, AddAdds
    <2>5. CASE spec.action = "spline"
      <3>1. o \in Add(d, spec, "spline")
        BY <1>2, <2>1, <2>5 DEF DrawHandler, Unless, draw_spline
      <3> QED
        BY <3>1, AddAdds
    <2>6. CASE spec.action \in {"leader", "mleader"}
      <3>1. o \in Add(d, spec, "mleader")
        BY <1>2, <2>1, <2>6 DEF DrawHandler, Unless, _draw_leader_unified, draw_mleader
      <3> QED
        BY <3>1, AddAdds
    <2> QED
      BY <2>2, <2>3, <2>4, <2>5, <2>6
  <1> QED
    BY <1>1, <1>2

LEMMA BlocksAdd ==
    ASSUME NEW d, Labelled(d), NEW spec, NEW allowed, NEW o \in manage_blocks(d, spec, allowed)
    PROVE  /\ Labelled(o.doc)
           /\ o.ok \/ Get(spec, "action", "") # "insert" => Adds(d, o.doc, o.handles)
  <1>1. CASE o.doc = d
    BY <1>1, AddsNothing DEF Adds
  <1>2. CASE o.doc # d
    <2>1. Served(BLOCK_DISPATCH, spec) /\ o \in BlockOutcomes(spec, d)
      BY <1>2 DEF manage_blocks, Failed
    <2>2. /\ Get(spec, "action", "") = spec.action
          /\ spec.action \in {"create", "insert", "list", "info", "get_attrs", "set_attrs"}
      BY <2>1 DEF Served, BLOCK_DISPATCH, Get
    <2>3. CASE spec.action = "create"
      <3> DEFINE n == spec.block_name
                 added == [d EXCEPT !.defs = Extended(@, n, {})]
                 filled(kinds) == [added EXCEPT !.defs[n] = kinds]
      <3>1. o.doc = added \/ \E kinds : o.doc = filled(kinds)
        <4>1. CASE o \in create_block_from_entities(d, n, spec.entity_handles)
          <5>1. \/ o = Failed(d) \/ o = Failed(added)
                \/ \E some : o = Done(filled(KindsOf(d, some)), {})
            BY <4>1 DEF create_block_from_entities
          <5> HIDE DEF added, filled
          <5> QED
            BY <1>2, <5>1 DEF Failed, Done
        <4>2. CASE o \in create_block_from_selection(d, n)
          <5>1. o = Failed(d) \/ o \in Attempt(<<d, added, filled(KindsOf(d, d.pick))>>)
            BY <4>2 DEF create_block_from_selection
          <5> HIDE DEF added, filled
          <5> QED
            BY <1>2, <5>1 DEF Attempt, Failed, Done
        <4> QED
          BY <2>1, <2>3, <4>1, <4>2 DEF BlockOutcomes
      <3>2. DOMAIN o.doc = Fields /\ o.doc.objs = d.objs /\ o.doc.layers = d.layers
        BY <3>1 DEF Labelled, Fields
      <3>3. Adds(d, o.doc, {})
        BY <3>2, SameObjects DEF Labelled, LayersShaped
      <3> QED
        BY <3>3 DEF Adds
    <2>4. CASE spec.action = "insert"
      <3> DEFINE h == d.next
                 made == AddTo(d, NewObject(d, "insert", "server"))
                 set == [made EXCEPT !.objs[h].text =
                            IF Get(spec, "attributes", {}) = {} THEN @ ELSE "set"]
      <3>1. PICK m \in {made, set} : o \in _finalize_entity(m, h, spec)
        BY <1>2, <2>1, <2>4 DEF BlockOutcomes, insert_block, Failed
      <3>2. Adds(d, made, {h})
        BY AddToAdds
      <3>3. Adds(made, set, {})
        <4>1. Labelled(made)
          BY <3>2 DEF Adds
        <4>2. PICK value : set = [made EXCEPT !.objs[h].text = value]
          OBVIOUS
        <4> HIDE DEF made, set
        <4> QED
          BY <4>1, <4>2, SetAdds
      <3>4. Adds(d, m, {h})
        BY <3>1, <3>2, <3>3, AddsBoth
      <3> QED
        BY <2>2, <2>4, <3>1, <3>4, FinalizeAdds
    <2>5. CASE spec.action = "set_attrs"
      <3> DEFINE set == [d EXCEPT !.objs[spec.handle].text = "set"]
      <3>1. o.doc = set
        BY <1>2, <2>1, <2>5 DEF BlockOutcomes, set_block_attributes, Failed, Done
      <3>2. Adds(d, o.doc, {})
        BY <3>1, SetAdds
      <3> QED
        BY <3>2 DEF Adds
    <2>6. CASE spec.action \in {"list", "get_attrs", "info"}
      <3>1. o \in list_blocks(d) \/ o \in get_block_attributes(d) \/ o \in block_info(d, spec)
        BY <2>1, <2>6 DEF BlockOutcomes
      <3>2. \A q \in get_block_info(d) \union get_block_references(d) \union list_blocks(d)
                       \union get_block_attributes(d) \union {Failed(d)} : q.doc = d
        BY DEF get_block_info, get_block_references, list_blocks, get_block_attributes, Done, Failed
      <3> QED
        BY <1>2, <3>1, <3>2 DEF block_info
    <2> QED
      BY <2>2, <2>3, <2>4, <2>5, <2>6
  <1> QED
    BY <1>1, <1>2
-----------------------------------------------------------------------------
\* The inductive invariant: in what a drawing holds, and in what an undo would
\* bring back, every object from the server was named or its drawing is one in
\* which objects may be unnamed.
NamedBy(id, d, names, unsure) ==
    /\ Labelled(d)
    /\ \A h : FromServer(d, h) => <<id, h>> \in names \/ id \in unsure

NamedInv ==
    /\ DOMAIN past = Open
    /\ \A id \in Open : /\ NamedBy(id, docs[id], told, doubtful)
                         /\ NamedBy(id, past[id], told, doubtful)

\* No step takes back that an object was named or a drawing became doubtful.
Grows == told \subseteq told' /\ doubtful \subseteq doubtful'

LEMMA NamedKept ==
    ASSUME NEW id, NEW d, NamedBy(id, d, told, doubtful), Grows
    PROVE  NamedBy(id, d, told', doubtful')
  BY DEF NamedBy, Grows

LEMMA NamedFollows ==
    ASSUME NEW id, NEW d, NEW e, NamedBy(id, d, told, doubtful), Grows, NEW hs, Adds(d, e, hs),
           \A h \in hs : <<id, h>> \in told'
    PROVE  NamedBy(id, e, told', doubtful')
  BY DEF NamedBy, Adds, Grows

\* A step that changes no drawing, closes some or moves what is in front.
LEMMA DrawingsKept ==
    ASSUME NamedInv, Grows, DOMAIN docs' \subseteq Open, DOMAIN past' = DOMAIN docs',
           \A id \in DOMAIN docs' : docs'[id] = docs[id] /\ past'[id] = past[id]
    PROVE  NamedInv'
  BY NamedKept DEF NamedInv, Open

LEMMA UnchangedNamed ==
    ASSUME NamedInv, Grows, UNCHANGED <<docs, past>>
    PROVE  NamedInv'
  BY DrawingsKept DEF NamedInv, Open

LEMMA EmptyNamed ==
    ASSUME NEW id
    PROVE  NamedBy(id, EmptyDocument, told, doubtful)
  BY DEF NamedBy, Labelled, LayersShaped, LayerFields, NewLayer, FromServer, EmptyDocument,
         Fields

\* One drawing is changed, and what it was is what an undo brings back.
LEMMA PutNamed ==
    ASSUME NamedInv, Grows, NEW id, NEW d, Put(id, d),
           id \in Open => NamedBy(id, d, told', doubtful')
    PROVE  NamedInv'
  <1>1. DOMAIN docs' = Open /\ DOMAIN past' = Open
    BY DEF Put, NamedInv, Open
  <1>2. ASSUME NEW k \in Open
        PROVE  NamedBy(k, docs'[k], told', doubtful') /\ NamedBy(k, past'[k], told', doubtful')
    <2>1. /\ docs'[k] = IF k = id THEN d ELSE docs[k]
          /\ past'[k] \in {past[k], docs[k]}
      BY DEF Put, NamedInv, Open
    <2> QED
      BY <2>1, NamedKept DEF NamedInv
  <1> QED
    BY <1>1, <1>2 DEF NamedInv, Open

LEMMA AddDrawingNamed ==
    ASSUME NamedInv, Grows, AddDrawing
    PROVE  NamedInv'
  <1>1. DOMAIN docs' = Open \union {Fresh} /\ DOMAIN past' = Open \union {Fresh}
    BY DEF AddDrawing, Extended, NamedInv, Open
  <1>2. \A k \in Open \union {Fresh} :
            /\ docs'[k] = IF k = Fresh THEN EmptyDocument ELSE docs[k]
            /\ past'[k] = IF k = Fresh THEN EmptyDocument ELSE past[k]
    BY DEF AddDrawing, Extended, NamedInv, Open
  <1>3. ASSUME NEW k \in Open \union {Fresh}
        PROVE  NamedBy(k, docs'[k], told', doubtful') /\ NamedBy(k, past'[k], told', doubtful')
    BY <1>2, EmptyNamed, NamedKept DEF NamedInv, NamedBy
  <1> QED
    BY <1>1, <1>3 DEF NamedInv, Open

LEMMA GetAdapterNamed ==
    ASSUME NamedInv, Grows, get_adapter
    PROVE  NamedInv'
  BY AddDrawingNamed, UnchangedNamed DEF get_adapter, cadVars

\* What a batch tool does to the drawing a spec gets to.
LEMMA OutcomesAdd ==
    ASSUME NEW d, Labelled(d), NEW spec, call \in Works, NEW o \in Outcomes(spec, d)
    PROVE  /\ Labelled(o.doc)
           /\ MayHide(spec, o.ok) \/ \E hs \in SUBSET o.handles : Adds(d, o.doc, hs)
  <1> DEFINE allowed == assert_legacy_action_allowed(call, spec)
  <1>1. CASE call = "draw_entities"
    BY <1>1, DrawAdds DEF Outcomes, MayHide
  <1>2. CASE call = "manage_entities"
    <2>1. o \in manage_entities(d, spec, allowed)
      BY <1>2 DEF Outcomes
    <2> HIDE DEF allowed
    <2> QED
      BY <1>2, <2>1, EntitiesAdd DEF MayHide
  <1>3. CASE call = "manage_layers"
    <2>1. o \in manage_layers(d, spec, allowed)
      BY <1>3 DEF Outcomes
    <2> HIDE DEF allowed
    <2>2. Adds(d, o.doc, {})
      BY <2>1, LayersAdd
    <2> QED
      BY <2>2 DEF Adds
  <1>4. CASE call = "manage_blocks"
    <2>1. o \in manage_blocks(d, spec, allowed)
      BY <1>4 DEF Outcomes
    <2> HIDE DEF allowed
    <2> QED
      BY <1>4, <2>1, BlocksAdd DEF MayHide
  <1> QED
    BY <1>1, <1>2, <1>3, <1>4 DEF Works

LEMMA WorkOffNamed ==
    ASSUME NamedInv, NEW spec, WorkOff(spec)
    PROVE  NamedInv'
  <1>1. PICK on, o :
          /\ o \in Outcomes(spec, docs[on]) /\ Put(on, o.doc) /\ call \in Works
          /\ told' = told \union {<<on, h>> : h \in o.handles}
          /\ doubtful' = IF MayHide(spec, o.ok) THEN doubtful \union {on} ELSE doubtful
    BY DEF WorkOff
  <1>2. Grows
    BY <1>1 DEF Grows
  <1>3. ASSUME on \in Open PROVE NamedBy(on, o.doc, told', doubtful')
    <2>1. NamedBy(on, docs[on], told, doubtful) /\ Labelled(docs[on])
      BY <1>3 DEF NamedInv, NamedBy
    <2>2. Labelled(o.doc)
          /\ (MayHide(spec, o.ok) \/ \E hs \in SUBSET o.handles : Adds(docs[on], o.doc, hs))
      BY <1>1, <2>1, OutcomesAdd
    <2>3. CASE MayHide(spec, o.ok)
      BY <1>1, <2>2, <2>3 DEF NamedBy
    <2>4. CASE \E hs \in SUBSET o.handles : Adds(docs[on], o.doc, hs)
      <3>1. PICK hs \in SUBSET o.handles : Adds(docs[on], o.doc, hs)
        BY <2>4
      <3>2. \A h \in hs : <<on, h>> \in told'
        BY <1>1, <3>1
      <3> QED
        BY <1>2, <2>1, <3>1, <3>2, NamedFollows
    <2> QED
      BY <2>2, <2>3, <2>4
  <1> QED
    BY <1>1, <1>2, <1>3, PutNamed

LEMMA FileOpsNamed ==
    ASSUME NamedInv, NEW spec,
           \/ FileOpFails(spec) \/ save_drawing(spec) \/ get_open_drawings(spec)
           \/ new_drawing(spec) \/ switch_drawing(spec) \/ close_drawing(spec)
    PROVE  NamedInv'
  <1>1. Grows
    BY DEF FileOpFails, save_drawing, get_open_drawings, new_drawing, switch_drawing,
           close_drawing, FileOp, clientVars, Grows
  <1>2. CASE \/ FileOpFails(spec) \/ save_drawing(spec) \/ get_open_drawings(spec)
             \/ switch_drawing(spec)
    BY <1>1, <1>2, UnchangedNamed
       DEF FileOpFails, save_drawing, get_open_drawings, switch_drawing, cadVars
  <1>3. CASE new_drawing(spec)
    BY <1>1, <1>3, AddDrawingNamed DEF new_drawing
  <1>4. CASE close_drawing(spec)
    <2>1. CASE CloseCached
      BY <1>1, <2>1, DrawingsKept DEF CloseCached, Without, NamedInv, Open
    <2>2. CASE /\ docs' = Extended(Without(docs, {cached}), Fresh, EmptyDocument)
               /\ past' = Extended(Without(past, {cached}), Fresh, EmptyDocument)
      <3>1. DOMAIN docs' = DOMAIN past' /\ DOMAIN docs' \subseteq Open \union {Fresh}
        BY <2>2 DEF Without, Extended, NamedInv, Open
      <3>2. \A k \in DOMAIN docs' :
                /\ docs'[k] = IF k = Fresh THEN EmptyDocument ELSE docs[k]
                /\ past'[k] = IF k = Fresh THEN EmptyDocument ELSE past[k]
        BY <2>2 DEF Without, Extended, NamedInv, Open
      <3>3. ASSUME NEW k \in DOMAIN docs'
            PROVE  NamedBy(k, docs'[k], told', doubtful') /\ NamedBy(k, past'[k], told', doubtful')
        BY <1>1, <3>1, <3>2, EmptyNamed, NamedKept DEF NamedInv, NamedBy
      <3> QED
        BY <3>1, <3>3 DEF NamedInv, Open
    <2> QED
      BY <1>4, <2>1, <2>2 DEF close_drawing
  <1> QED
    BY <1>2, <1>3, <1>4

\* An undo exchanges what a drawing holds with what it held, but for the handle
\* that comes next.
LEMMA SwapNamed ==
    ASSUME NamedInv, Grows, NEW id, Swap(id)
    PROVE  NamedInv'
  <1>1. DOMAIN docs' = Open /\ DOMAIN past' = Open
    BY DEF Swap, NamedInv, Open
  <1>2. ASSUME NEW k \in Open
        PROVE  NamedBy(k, docs'[k], told', doubtful') /\ NamedBy(k, past'[k], told', doubtful')
    <2> DEFINE back == [past[id] EXCEPT !.next = docs[id].next]
    <2>1. /\ docs'[k] = IF k = id THEN back ELSE docs[k]
          /\ past'[k] = IF k = id THEN docs[id] ELSE past[k]
      BY DEF Swap, NamedInv, Open
    <2>2. k = id => /\ DOMAIN back = Fields /\ back.objs = past[id].objs
                    /\ back.layers = past[id].layers
      BY DEF NamedInv, NamedBy, Labelled, Fields
    <2>3. k = id => NamedBy(k, back, told, doubtful)
      BY <2>2 DEF NamedInv, NamedBy, Labelled, LayersShaped, FromServer
    <2> HIDE DEF back
    <2> QED
      BY <2>1, <2>3, NamedKept DEF NamedInv
  <1> QED
    BY <1>1, <1>2 DEF NamedInv, Open

LEMMA SessionOpsNamed ==
    ASSUME NamedInv, NEW spec,
           \/ SessionOpFails(spec) \/ _connect(spec) \/ _check_running(spec)
           \/ _disconnect(spec) \/ _status(spec) \/ _screenshot(spec)
           \/ export_view(spec) \/ undo_redo(spec)
    PROVE  NamedInv'
  <1>1. Grows
    BY DEF SessionOpFails, _connect, _check_running, _disconnect, _status, _screenshot,
           export_view, undo_redo, SessionOp, clientVars, Grows
  <1>2. \/ AddDrawing \/ get_adapter \/ UNCHANGED <<docs, past>> \/ Swap(front)
    BY DEF SessionOpFails, _connect, _check_running, _disconnect, _status, _screenshot,
           export_view, undo_redo, cadVars
  <1> QED
    BY <1>1, <1>2, AddDrawingNamed, GetAdapterNamed, UnchangedNamed, SwapNamed

LEMMA ServerNamed ==
    ASSUME NamedInv, Server
    PROVE  NamedInv'
  <1>1. CASE EndCall
    BY <1>1, UnchangedNamed DEF EndCall, cadVars, clientVars, Grows
  <1>2. CASE \E tool \in Tools : BeginCall(tool)
    <2>1. Grows /\ (get_adapter \/ UNCHANGED <<docs, past>>)
      BY <1>2 DEF BeginCall, cadVars, clientVars, Grows
    <2> QED
      BY <2>1, GetAdapterNamed, UnchangedNamed
  <1>3. ASSUME NEW spec, Unreachable(spec) PROVE NamedInv'
    BY <1>3, UnchangedNamed DEF Unreachable, cadVars, clientVars, Grows
  <1> QED
    BY <1>1, <1>2, <1>3, WorkOffNamed, FileOpsNamed, SessionOpsNamed DEF Server

LEMMA UserNamed ==
    ASSUME NamedInv, User
    PROVE  NamedInv'
  <1>1. Grows
    BY DEF User, UserDraws, UserErases, UserPicks, UserSwitches, UserCloses, UserOpens, Edit,
           clientVars, Grows
  <1>2. ASSUME NEW d, front \in Open => Adds(docs[front], d, {})
        PROVE  front \in Open => NamedBy(front, d, told', doubtful')
    BY <1>1, <1>2, NamedFollows DEF NamedInv
  <1>3. front \in Open => Labelled(docs[front])
    BY DEF NamedInv, NamedBy
  <1>4. CASE UserDraws
    BY <1>1, <1>2, <1>3, <1>4, AddToAdds, PutNamed DEF UserDraws
  <1>5. CASE UserErases
    BY <1>1, <1>2, <1>3, <1>5, ErasedAdds, PutNamed DEF UserErases
  <1>6. CASE UserPicks
    <2>1. PICK hs : docs' = [docs EXCEPT ![front].pick = hs] /\ past' = past
      BY <1>6 DEF UserPicks
    <2>2. /\ DOMAIN docs' = Open
          /\ \A k \in Open : docs'[k] = IF k = front THEN [docs[k] EXCEPT !.pick = hs] ELSE docs[k]
      BY <2>1 DEF Open
    <2>3. ASSUME NEW k \in Open PROVE NamedBy(k, docs'[k], told, doubtful)
      <3>1. Labelled(docs[k]) /\ NamedBy(k, docs[k], told, doubtful)
        BY DEF NamedInv, NamedBy
      <3>2. /\ DOMAIN docs'[k] = Fields /\ docs'[k].objs = docs[k].objs
            /\ docs'[k].layers = docs[k].layers
        BY <2>2, <3>1 DEF Labelled, Fields
      <3> QED
        BY <3>1, <3>2 DEF NamedBy, Labelled, LayersShaped, FromServer
    <2>4. ASSUME NEW k \in Open
          PROVE  NamedBy(k, docs'[k], told', doubtful') /\ NamedBy(k, past'[k], told', doubtful')
      BY <1>1, <2>1, <2>3, NamedKept DEF NamedInv
    <2> QED
      BY <2>1, <2>2, <2>4 DEF NamedInv, Open
  <1>7. CASE UserSwitches
    BY <1>1, <1>7, UnchangedNamed DEF UserSwitches
  <1>8. CASE UserCloses
    BY <1>1, <1>8, DrawingsKept DEF UserCloses, Without, NamedInv, Open
  <1>9. CASE UserOpens
    BY <1>1, <1>9, AddDrawingNamed DEF UserOpens
  <1> QED
    BY <1>4, <1>5, <1>6, <1>7, <1>8, <1>9 DEF User

LEMMA NamedInit ==
    ASSUME Init
    PROVE  NamedInv
  <1>1. DOMAIN docs = {1} /\ docs[1] = InitialDrawing /\ past = docs
    BY DEF Init
  <1>2. Labelled(InitialDrawing) /\ \A h : ~FromServer(InitialDrawing, h)
    BY DEF IsDocument, Labelled, LayersShaped, LayerFields, LayerTable, ObjectShaped,
           ObjectFields, Fields, FromServer, Objects
  <1> QED
    BY <1>1, <1>2 DEF NamedInv, NamedBy, Open

\* Whatever the legacy tools are called with, an object the server made is
\* named in a result unless a draw or an insert failed in its drawing or
\* something was pasted there: through undo and redo, and with the person
\* switching, closing and opening drawings during a call.
THEOREM UntoldOnlyWhereDoubtfulHolds == Spec => []UntoldOnlyWhereDoubtful
  <1>1. NamedInv /\ [Next]_vars => NamedInv'
    BY ServerNamed, UserNamed, UnchangedNamed DEF Next, vars, cadVars, clientVars, Grows
  <1>2. NamedInv => UntoldOnlyWhereDoubtful
    BY DEF NamedInv, NamedBy, FromServer, UntoldOnlyWhereDoubtful
  <1> QED
    BY <1>1, <1>2, NamedInit, PTL DEF Spec
-----------------------------------------------------------------------------
(* What results claim, tool by tool.                                        *)

\* A claim about a layer: its colour, whether it is frozen, or that it is gone.
LEMMA LayerClaimHolds ==
    ASSUME NEW d, Labelled(d), NEW spec, NEW allowed, NEW o \in manage_layers(d, spec, allowed),
           o.ok
    PROVE  LayerClaim(spec, o.doc)
  <1>1. Served(LAYER_DISPATCH, spec) /\ o \in LayerOutcomes(spec, d)
    BY DEF manage_layers, Failed
  <1>2. spec.action \in {"create", "rename", "delete", "turn_on", "turn_off", "set_color",
                         "list", "is_on", "info"}
    BY <1>1 DEF Served, LAYER_DISPATCH
  <1>3. CASE spec.action = "create"
    <2> DEFINE n == spec.name
               color == Get(spec, "color", "white")
               added == AddLayer(d, n)
               colored == [added EXCEPT !.layers[n].color = color]
    <2>1. o \in create_layer(d, n, color)
      BY <1>1, <1>3 DEF LayerOutcomes, Unless, Failed
    <2>2. o.doc = colored
      <3> HIDE DEF added, color
      <3>1. \A q \in Attempt(<<d, added, colored, colored>>) : q.ok => q.doc = colored
        BY DEF Attempt, Failed, Done
      <3> QED
        BY <2>1, <3>1 DEF create_layer, Failed, added
    <2>3. DOMAIN added = Fields /\ n \in DOMAIN added.layers /\ DOMAIN added.layers[n] = LayerFields
      BY DEF AddLayer, Labelled, LayersShaped, LayerFields, Extended, NewLayer, Fields
    <2>4. n \in DOMAIN colored.layers /\ colored.layers[n].color = color
      <3> HIDE DEF added, color
      <3> QED
        BY <2>3 DEF Fields, LayerFields
    <2> QED
      BY <1>3, <2>2, <2>4 DEF LayerClaim
  <1>4. CASE spec.action = "rename"
    <2> DEFINE old == spec.old_name
               new == spec.new_name
    <2>1. /\ new \notin DOMAIN d.layers /\ old \in DOMAIN d.layers
          /\ o.doc = [d EXCEPT !.layers = Extended(Without(@, {old}), new, d.layers[old]),
                               !.current = IF @ = old THEN new ELSE @,
                               !.objs = [h \in DOMAIN @ |->
                                   IF @[h].layer = old THEN [@[h] EXCEPT !.layer = new] ELSE @[h]]]
      BY <1>1, <1>4 DEF LayerOutcomes, rename_layer, Attempt, Failed, Done
    <2>2. o.doc.layers = Extended(Without(d.layers, {old}), new, d.layers[old])
      BY <2>1 DEF Labelled, Fields
    <2> QED
      BY <1>4, <2>1, <2>2 DEF LayerClaim, Extended, Without
  <1>5. CASE spec.action = "delete"
    <2>1. o.doc = [d EXCEPT !.layers = Without(@, {spec.name})]
      BY <1>1, <1>5 DEF LayerOutcomes, delete_layer, Attempt, Failed, Done
    <2> QED
      BY <1>5, <2>1 DEF LayerClaim, Labelled, Fields, Without
  <1>6. CASE spec.action \in {"turn_on", "turn_off"}
    <2> DEFINE frozen == spec.action = "turn_off"
               after(some) == [d EXCEPT !.layers = [n \in DOMAIN @ |->
                                  IF n \in some THEN [@[n] EXCEPT !.frozen = frozen] ELSE @[n]]]
    <2>1. o \in turn_layers(d, spec.names, frozen)
      BY <1>1, <1>6 DEF LayerOutcomes
    <2>2. /\ o.doc = after(spec.names)
          /\ \A n \in spec.names : n \in DOMAIN d.layers
      BY <2>1 DEF turn_layers, Done, Failed, Freezable
    <2>3. o.doc.layers = [n \in DOMAIN d.layers |-> IF n \in spec.names
                                    THEN [d.layers[n] EXCEPT !.frozen = frozen] ELSE d.layers[n]]
      BY <2>2 DEF Labelled, Fields
    <2>4. \A n \in spec.names : n \in DOMAIN o.doc.layers /\ o.doc.layers[n].frozen = frozen
      <3> HIDE DEF frozen
      <3> QED
        BY <2>2, <2>3 DEF Labelled, LayersShaped, LayerFields
    <2> QED
      BY <1>6, <2>4 DEF LayerClaim
  <1>7. CASE spec.action = "set_color"
    <2> DEFINE index == _get_color_index(spec.color)
    <2>1. /\ spec.name \in DOMAIN d.layers
          /\ o.doc = [d EXCEPT !.layers[spec.name].color = index]
      BY <1>1, <1>7 DEF LayerOutcomes, set_layer_color, Attempt, Failed, Done
    <2>2. o.doc.layers[spec.name].color = index
      <3> HIDE DEF index
      <3> QED
        BY <2>1 DEF Labelled, LayersShaped, LayerFields, Fields
    <2> QED
      BY <1>7, <2>2 DEF LayerClaim
  <1> QED
    BY <1>2, <1>3, <1>4, <1>5, <1>6, <1>7 DEF LayerClaim

\* One object at least, of those that were asked for and found, becomes what
\* it was to become.
LEMMA ForSomeDoes ==
    ASSUME NEW d, Labelled(d), NEW hs, NEW become, NEW o \in ForSome(d, hs, become), o.ok
    PROVE  /\ DOMAIN o.doc.objs = DOMAIN d.objs
           /\ \E h \in hs \intersect DOMAIN d.objs : o.doc.objs[h] = become[h]
  <1>1. PICK some \in (SUBSET (hs \intersect DOMAIN d.objs)) \ {{}} :
            o = Done(Changed(d, some, become), {})
    BY DEF ForSome, Failed
  <1>2. o.doc.objs = [h \in DOMAIN d.objs |-> IF h \in some THEN become[h] ELSE d.objs[h]]
    BY <1>1 DEF Done, Changed, Labelled, Fields
  <1>3. some # {} /\ some \subseteq hs \intersect DOMAIN d.objs
    BY <1>1
  <1>4. PICK h : h \in some
    BY <1>3
  <1> QED
    BY <1>2, <1>3, <1>4

LEMMA EntityClaimHolds ==
    ASSUME NEW d, Labelled(d), NEW spec, NEW allowed, NEW o \in manage_entities(d, spec, allowed),
           o.ok
    PROVE  EntityClaim(spec, d, o.doc)
  <1>1. Served(ENTITY_DISPATCH, spec) /\ o \in EntityOutcomes(spec, d)
    BY DEF manage_entities, Failed
  <1>2. CASE spec.action \in {"move", "rotate", "scale"}
    <2>1. o \in ForSome(d, spec.handles, Reshaped(d))
      BY <1>1, <1>2
         DEF EntityOutcomes, Unless, Failed, move_entities, rotate_entities, scale_entities
    <2>2. PICK h \in spec.handles \intersect DOMAIN d.objs :
              DOMAIN o.doc.objs = DOMAIN d.objs /\ o.doc.objs[h] = Reshaped(d)[h]
      BY <2>1, ForSomeDoes
    <2>3. Reshaped(d)[h].shape # d.objs[h].shape
      BY DEF Reshaped, Labelled, ObjectShaped, ObjectFields
    <2> QED
      BY <1>2, <2>2, <2>3 DEF EntityClaim
  <1>3. CASE spec.action = "set_color"
    <2> DEFINE index == _get_color_index(spec.color)
    <2>1. o \in ForSome(d, spec.handles, With(d, "color", index))
      BY <1>1, <1>3 DEF EntityOutcomes, change_entity_color
    <2> HIDE DEF index
    <2>2. PICK h \in spec.handles \intersect DOMAIN d.objs :
              DOMAIN o.doc.objs = DOMAIN d.objs /\ o.doc.objs[h] = With(d, "color", index)[h]
      BY <2>1, ForSomeDoes
    <2>3. With(d, "color", index)[h].color = index
      BY DEF With, Labelled, ObjectShaped, ObjectFields
    <2> QED
      BY <1>3, <2>2, <2>3 DEF EntityClaim, index
  <1>4. CASE spec.action = "set_layer"
    <2> DEFINE n == spec.layer_name
               added == AddLayer(d, n)
    <2>1. o \in ForSome(added, spec.handles, With(d, "layer", n))
      BY <1>1, <1>4 DEF EntityOutcomes, change_entity_layer, Failed
    <2>2. Labelled(added) /\ added.objs = d.objs
      BY AddLayerAdds DEF Adds, AddLayer, Labelled, Fields
    <2> HIDE DEF added
    <2>3. PICK h \in spec.handles \intersect DOMAIN d.objs :
              DOMAIN o.doc.objs = DOMAIN d.objs /\ o.doc.objs[h] = With(d, "layer", n)[h]
      BY <2>1, <2>2, ForSomeDoes
    <2>4. With(d, "layer", n)[h].layer = n
      BY DEF With, Labelled, ObjectShaped, ObjectFields
    <2> QED
      BY <1>4, <2>3, <2>4 DEF EntityClaim, OnLayer
  <1>5. CASE spec.action = "delete"
    <2>1. PICK some \in (SUBSET {h \in spec.handles : \E q \in delete_entity(d, h) : q.ok}) \ {{}} :
              o.doc = Erased(d, some)
      BY <1>1, <1>5 DEF EntityOutcomes, delete_entities, Done, Failed
    <2>2. some # {} /\ \A k \in some : k \in spec.handles /\ \E q \in delete_entity(d, k) : q.ok
      BY <2>1
    <2> PICK h : h \in some
      BY <2>2
    <2>3. h \in DOMAIN d.objs
      <3>1. h \notin DOMAIN d.objs => delete_entity(d, h) = {Failed(d)}
        BY DEF delete_entity
      <3> QED
        BY <2>2, <3>1 DEF Failed
    <2>4. h \notin DOMAIN o.doc.objs
      BY <2>1, <2>2 DEF Erased, Without, Labelled, Fields
    <2> QED
      BY <1>5, <2>2, <2>3, <2>4 DEF EntityClaim
  <1> QED
    BY <1>2, <1>3, <1>4, <1>5 DEF EntityClaim

\* Setting properties gives out no handle.
LEMMA FinalizeNext ==
    ASSUME NEW m, Labelled(m), NEW h, NEW spec, NEW o \in _finalize_entity(m, h, spec)
    PROVE  o.doc.next = m.next
  <1> DEFINE layer == Get(spec, "layer", "0")
             color == Get(spec, "color", "white")
             placed == [m EXCEPT !.objs[h].layer = layer]
             colored == [placed EXCEPT !.objs[h].color = _get_color_index(color)]
  <1>1. PICK e \in _apply_properties(m, h, layer, color) : o.doc = e
    BY DEF _finalize_entity, Failed, Done
  <1>2. e \in {m, placed, colored}
    BY <1>1 DEF _apply_properties
  <1>3. placed.next = m.next /\ colored.next = m.next
    BY DEF Labelled, Fields
  <1> HIDE DEF placed, colored
  <1> QED
    BY <1>1, <1>2, <1>3

LEMMA BlockClaimHolds ==
    ASSUME NEW d, Labelled(d), NEW spec, NEW allowed, NEW o \in manage_blocks(d, spec, allowed),
           o.ok
    PROVE  BlockClaim(spec, d, o.doc)
  <1>1. Served(BLOCK_DISPATCH, spec) /\ o \in BlockOutcomes(spec, d)
    BY DEF manage_blocks, Failed
  <1>2. CASE spec.action = "create"
    <2> DEFINE n == spec.block_name
               added == [d EXCEPT !.defs = Extended(@, n, {})]
               filled(kinds) == [added EXCEPT !.defs[n] = kinds]
    <2>1. n \notin DOMAIN d.defs /\ \E some : some # {} /\ o.doc = filled(KindsOf(d, some))
      <3>1. CASE o \in create_block_from_entities(d, n, spec.entity_handles)
        <4>1. /\ n \notin DOMAIN d.defs
              /\ \/ o = Failed(d) \/ o = Failed(added)
                 \/ \E some : some # {} /\ o = Done(filled(KindsOf(d, some)), {})
          <5> DEFINE found == (SUBSET (spec.entity_handles \intersect DOMAIN d.objs)) \ {{}}
          <5>1. n \notin DOMAIN d.defs
            <6>1. n \in DOMAIN d.defs =>
                    create_block_from_entities(d, n, spec.entity_handles) = {Failed(d)}
              BY DEF create_block_from_entities
            <6> QED
              BY <3>1, <6>1 DEF Failed
          <5>2. o \in {Failed(d), Failed(added)} \union
                     {Done(filled(KindsOf(d, some)), {}) : some \in found}
            BY <3>1, <5>1 DEF create_block_from_entities
          <5>3. {} \notin found
            OBVIOUS
          <5> HIDE DEF added, filled, found
          <5> QED
            BY <5>1, <5>2, <5>3
        <4> HIDE DEF added, filled
        <4> QED
          BY <4>1 DEF Failed, Done
      <3>2. CASE o \in create_block_from_selection(d, n)
        <4>1. /\ n \notin DOMAIN d.defs /\ d.pick # {}
              /\ o \in Attempt(<<d, added, filled(KindsOf(d, d.pick))>>)
          BY <3>2 DEF create_block_from_selection, Failed
        <4> HIDE DEF added, filled
        <4> QED
          BY <4>1 DEF Attempt, Failed, Done
      <3> QED
        BY <1>1, <1>2, <3>1, <3>2 DEF BlockOutcomes
    <2>2. PICK some : some # {} /\ o.doc = filled(KindsOf(d, some))
      BY <2>1
    <2>3. KindsOf(d, some) # {}
      <3> HIDE DEF filled
      <3>1. PICK k : k \in some
        BY <2>2
      <3>2. d.objs[k].kind \in KindsOf(d, some)
        BY <3>1 DEF KindsOf
      <3> QED
        BY <3>2
    <2>4. DOMAIN added = Fields /\ n \in DOMAIN added.defs
      BY DEF Labelled, Fields, Extended
    <2>5. \A kinds : n \in DOMAIN filled(kinds).defs /\ filled(kinds).defs[n] = kinds
      <3> HIDE DEF added
      <3> QED
        BY <2>4 DEF Fields
    <2> HIDE DEF filled
    <2> QED
      BY <1>2, <2>1, <2>2, <2>3, <2>5 DEF BlockClaim
  <1>3. CASE spec.action = "insert"
    <2> DEFINE h == d.next
               made == AddTo(d, NewObject(d, "insert", "server"))
               set == [made EXCEPT !.objs[h].text =
                          IF Get(spec, "attributes", {}) = {} THEN @ ELSE "set"]
    <2>1. PICK m \in {made, set} : o \in _finalize_entity(m, h, spec)
      BY <1>1, <1>3 DEF BlockOutcomes, insert_block, Failed
    <2>2. Labelled(made) /\ made.next = d.next + 1
      BY AddToAdds DEF Adds, AddTo, Labelled, Fields
    <2>3. PICK value : set = [made EXCEPT !.objs[h].text = value]
      OBVIOUS
    <2>4. Labelled(set) /\ set.next = made.next
      <3> HIDE DEF made, set
      <3>1. Adds(made, set, {})
        BY <2>2, <2>3, SetAdds
      <3> QED
        BY <2>2, <2>3, <3>1 DEF Adds, Labelled, Fields
    <2>5. o.doc.next = m.next
      BY <2>1, <2>2, <2>4, FinalizeNext
    <2> HIDE DEF made, set
    <2> QED
      BY <1>3, <2>1, <2>2, <2>4, <2>5 DEF BlockClaim
  <1>4. CASE spec.action = "set_attrs"
    <2>1. spec.handle \in DOMAIN d.objs /\ o.doc = [d EXCEPT !.objs[spec.handle].text = "set"]
      BY <1>1, <1>4 DEF BlockOutcomes, set_block_attributes, Failed, Done
    <2>2. o.doc.objs[spec.handle].text = "set"
      BY <2>1 DEF Labelled, ObjectShaped, ObjectFields, Fields
    <2> QED
      BY <1>4, <2>2 DEF BlockClaim
  <1> QED
    BY <1>2, <1>3, <1>4 DEF BlockClaim

-----------------------------------------------------------------------------
\* What is in front is open, so that a spec that succeeds on a drawing was
\* worked off on an open one.
TrueInv == NamedInv /\ front \in Open \union {NoDrawing}

LEMMA WorkOffTrue ==
    ASSUME TrueInv, NEW spec, WorkOff(spec), last'.ok, last'.on # NoDrawing
    PROVE  Claim(last'.spec, docs[last'.on], docs'[last'.on])
  <1>1. PICK on, o :
          /\ on \in Open \union {front} /\ o \in Outcomes(spec, docs[on])
          /\ docs' = [docs EXCEPT ![on] = o.doc]
          /\ last' = [ok |-> o.ok, spec |-> spec, on |-> on]
          /\ call \in Works
    BY DEF WorkOff, Put, Append1, Bound
  <1>2. /\ o.ok /\ on \in Open /\ Labelled(docs[on])
        /\ last'.spec = spec /\ last'.on = on /\ docs'[on] = o.doc
    BY <1>1 DEF TrueInv, NamedInv, NamedBy, Open
  <1> DEFINE d == docs[on]
             allowed == assert_legacy_action_allowed(call, spec)
  <1>3. ASSUME call = "manage_layers" PROVE LayerClaim(spec, o.doc)
    <2>1. o \in manage_layers(d, spec, allowed)
      BY <1>1, <1>3 DEF Outcomes
    <2> HIDE DEF d, allowed
    <2> QED
      BY <1>2, <2>1, LayerClaimHolds DEF d
  <1>4. ASSUME call = "manage_entities" PROVE EntityClaim(spec, d, o.doc)
    <2>1. o \in manage_entities(d, spec, allowed)
      BY <1>1, <1>4 DEF Outcomes
    <2> HIDE DEF allowed
    <2> QED
      BY <1>2, <2>1, EntityClaimHolds
  <1>5. ASSUME call = "manage_blocks" PROVE BlockClaim(spec, d, o.doc)
    <2>1. o \in manage_blocks(d, spec, allowed)
      BY <1>1, <1>5 DEF Outcomes
    <2> HIDE DEF allowed
    <2> QED
      BY <1>2, <2>1, BlockClaimHolds
  <1> QED
    BY <1>2, <1>3, <1>4, <1>5 DEF Claim

\* The claim of one step.
TrueStep ==
    last'.ok /\ spent' # spent =>
        /\ call \in Works /\ last'.on # NoDrawing =>
              Claim(last'.spec, docs[last'.on], docs'[last'.on])
        /\ call = "manage_files" /\ last'.spec.action = "switch" =>
              front' = last'.spec.drawing_name /\ cached' = front'
        /\ call = "manage_session" /\ last'.spec.action = "export_view" => filedia'

LEMMA ServerTrue ==
    ASSUME TrueInv, Server
    PROVE  TrueStep
  <1>1. CASE EndCall \/ \E tool \in Tools : BeginCall(tool)
    BY <1>1 DEF EndCall, BeginCall, TrueStep
  <1>2. ASSUME NEW spec, WorkOff(spec) PROVE TrueStep
    BY <1>2, WorkOffTrue DEF WorkOff, Works, TrueStep
  <1>3. ASSUME NEW spec, Unreachable(spec) PROVE TrueStep
    <2>1. call \in Works /\ \E ok : last' = [ok |-> ok, spec |-> spec, on |-> NoDrawing]
      BY <1>3 DEF Unreachable, Append1
    <2>2. last'.on = NoDrawing
      BY <2>1
    <2> QED
      BY <2>1, <2>2 DEF Works, TrueStep
  <1>4. ASSUME NEW spec,
               \/ FileOpFails(spec) \/ save_drawing(spec) \/ get_open_drawings(spec)
               \/ new_drawing(spec) \/ close_drawing(spec)
        PROVE  TrueStep
    BY <1>4 DEF FileOpFails, save_drawing, get_open_drawings, new_drawing, close_drawing,
                FileOp, Works, Append1, TrueStep
  <1>5. ASSUME NEW spec, switch_drawing(spec) PROVE TrueStep
    BY <1>5 DEF switch_drawing, Activated, FileOp, Works, Append1, TrueStep
  <1>6. ASSUME NEW spec,
               \/ SessionOpFails(spec) \/ _connect(spec) \/ _check_running(spec)
               \/ _disconnect(spec) \/ _status(spec) \/ _screenshot(spec)
               \/ undo_redo(spec)
        PROVE  TrueStep
    BY <1>6 DEF SessionOpFails, _connect, _check_running, _disconnect, _status, _screenshot,
                undo_redo, SessionOp, Works, Append1, TrueStep
  <1>7. ASSUME NEW spec, export_view(spec) PROVE TrueStep
    BY <1>7 DEF export_view, SessionOp, Works, Append1, TrueStep
  <1> QED
    BY <1>1, <1>2, <1>3, <1>4, <1>5, <1>6, <1>7 DEF Server

LEMMA FrontStep ==
    ASSUME TrueInv, [Next]_vars
    PROVE  (front \in Open \union {NoDrawing})'
  <1>1. AddDrawing => front' \in DOMAIN docs'
    BY DEF AddDrawing, Extended
  <1>2. ASSUME UNCHANGED <<docs, front>> PROVE front' \in DOMAIN docs' \union {NoDrawing}
    BY <1>2 DEF TrueInv, Open
  <1>3. get_adapter => front' \in DOMAIN docs' \union {NoDrawing}
    BY <1>1, <1>2 DEF get_adapter, cadVars
  <1>4. ASSUME NEW id, NEW d, Put(id, d) PROVE front' \in DOMAIN docs' \union {NoDrawing}
    BY <1>4 DEF Put, TrueInv, Open
  <1>5. CASE User
    <2>1. CASE UserDraws \/ UserErases
      BY <1>4, <2>1 DEF UserDraws, UserErases, Open
    <2>2. CASE UserPicks
      BY <2>2 DEF UserPicks, TrueInv, Open
    <2>3. CASE UserSwitches
      BY <2>3 DEF UserSwitches, Open
    <2>4. CASE UserCloses
      BY <2>4 DEF UserCloses, Without, Open
    <2>5. CASE UserOpens
      BY <1>1, <2>5 DEF UserOpens, Open
    <2> QED
      BY <1>5, <2>1, <2>2, <2>3, <2>4, <2>5 DEF User
  <1>6. CASE Server
    <2>1. CASE EndCall \/ \E tool \in Tools : BeginCall(tool)
      BY <1>2, <1>3, <2>1 DEF EndCall, BeginCall, cadVars, Open
    <2>2. ASSUME NEW spec, WorkOff(spec) \/ Unreachable(spec)
          PROVE  (front \in Open \union {NoDrawing})'
      BY <1>2, <1>4, <2>2 DEF WorkOff, Unreachable, cadVars, Open
    <2>3. ASSUME NEW spec,
                 \/ FileOpFails(spec) \/ save_drawing(spec) \/ get_open_drawings(spec)
                 \/ new_drawing(spec)
          PROVE  (front \in Open \union {NoDrawing})'
      BY <1>1, <1>2, <2>3
         DEF FileOpFails, save_drawing, get_open_drawings, new_drawing, cadVars, Open
    <2>4. ASSUME NEW spec, switch_drawing(spec)
          PROVE  (front \in Open \union {NoDrawing})'
      BY <2>4 DEF switch_drawing, TrueInv, Open
    <2>5. ASSUME NEW spec, close_drawing(spec)
          PROVE  (front \in Open \union {NoDrawing})'
      BY <2>5 DEF close_drawing, CloseCached, Remaining, Without, Extended, Open
    <2>6. ASSUME NEW spec,
                 \/ SessionOpFails(spec) \/ _connect(spec) \/ _check_running(spec)
                 \/ _disconnect(spec) \/ _status(spec) \/ _screenshot(spec)
                 \/ export_view(spec)
          PROVE  (front \in Open \union {NoDrawing})'
      BY <1>1, <1>2, <1>3, <2>6
         DEF SessionOpFails, _connect, _check_running, _disconnect, _status, _screenshot,
             export_view, cadVars, Open
    <2>7. ASSUME NEW spec, undo_redo(spec)
          PROVE  (front \in Open \union {NoDrawing})'
      BY <1>2, <2>7 DEF undo_redo, Swap, TrueInv, cadVars, Open
    <2> QED
      BY <1>6, <2>1, <2>2, <2>3, <2>4, <2>5, <2>6, <2>7 DEF Server
  <1>7. CASE UNCHANGED vars
    BY <1>2, <1>7 DEF vars, cadVars, Open
  <1> QED
    BY <1>5, <1>6, <1>7 DEF Next

\* A result that says success is true of the drawing it was worked off on,
\* whatever the tools are called with, whatever raises below them, and
\* whatever the person does between the specs of a batch.
THEOREM SuccessIsTrueHolds == Spec => SuccessIsTrue
  <1>1. Init => TrueInv
    BY NamedInit DEF Init, TrueInv, Open
  <1>2. TrueInv /\ [Next]_vars => TrueInv'
    BY FrontStep, ServerNamed, UserNamed, UnchangedNamed
       DEF TrueInv, Next, vars, cadVars, clientVars, Grows
  <1>3. TrueInv /\ [Next]_vars => [TrueStep]_vars
    <2>1. User => TrueStep
      BY DEF User, UserDraws, UserErases, UserPicks, UserSwitches, UserCloses, UserOpens, Edit,
             TrueStep
    <2> QED
      BY <2>1, ServerTrue DEF Next
  <1>4. [][TrueStep]_vars => SuccessIsTrue
    BY PTL DEF SuccessIsTrue, TrueStep
  <1> QED
    BY <1>1, <1>2, <1>3, <1>4, PTL DEF Spec
-----------------------------------------------------------------------------
(* Types.  A drawing is followed by one that is well formed as well, in    *)
(* particular with every object on a layer there is, and in which no       *)
(* handle is free again.                                                    *)

LayersFit(d) ==
    DOMAIN d.layers \subseteq LayerNames /\ \A n \in DOMAIN d.layers : d.layers[n] \in LayerTable
ObjectsFit(d) ==
    /\ DOMAIN d.objs \subseteq 1 .. (d.next - 1) /\ d.next \in 1 .. (MaxObjects + 1)
    /\ \A h \in DOMAIN d.objs : d.objs[h] \in Objects
    /\ d.pick \subseteq DOMAIN d.objs
BlocksFit(d) ==
    DOMAIN d.defs \subseteq BlockNames /\ \A n \in DOMAIN d.defs : d.defs[n] \subseteq AllKinds
AllPlaced(d) ==
    /\ \A h \in DOMAIN d.objs : d.objs[h].layer \in DOMAIN d.layers
    /\ d.current \in DOMAIN d.layers

LEMMA DocumentParts ==
    ASSUME NEW d
    PROVE  IsDocument(d) <=> /\ DOMAIN d = Fields /\ LayersFit(d) /\ ObjectsFit(d)
                             /\ BlocksFit(d) /\ AllPlaced(d)
  BY DEF IsDocument, Fields, LayersFit, ObjectsFit, BlocksFit, AllPlaced

Follows(d, e) == IsDocument(e) /\ d.next <= e.next

LEMMA FollowsSelf ==
    ASSUME NEW d, IsDocument(d)
    PROVE  Follows(d, d) /\ d.next \in Nat /\ DOMAIN d.objs \subseteq Handles
  BY DocumentParts DEF Follows, ObjectsFit, Handles

LEMMA FollowsBoth ==
    ASSUME NEW d, NEW e, NEW f, IsDocument(d), Follows(d, e), Follows(e, f)
    PROVE  Follows(d, f)
  BY FollowsSelf DEF Follows

\* The layers become others, and every object is on one of them.
LEMMA LayersFollow ==
    ASSUME NEW d, IsDocument(d), NEW e, DOMAIN e = Fields,
           e.objs = d.objs, e.current = d.current, e.defs = d.defs,
           e.pick = d.pick, e.next = d.next, LayersFit(e), AllPlaced(e)
    PROVE  Follows(d, e)
  BY DocumentParts, FollowsSelf DEF Follows, ObjectsFit, BlocksFit

\* The objects that are left become others.
LEMMA ObjectsFollow ==
    ASSUME NEW d, IsDocument(d), NEW e, DOMAIN e = Fields,
           e.layers = d.layers, e.current = d.current, e.defs = d.defs, e.next = d.next,
           DOMAIN e.objs \subseteq DOMAIN d.objs, e.pick \subseteq DOMAIN e.objs,
           \A h \in DOMAIN e.objs : e.objs[h] \in Objects /\ e.objs[h].layer \in DOMAIN d.layers
    PROVE  Follows(d, e)
  BY DocumentParts, FollowsSelf DEF Follows, LayersFit, ObjectsFit, BlocksFit, AllPlaced

LEMMA AddLayerFollows ==
    ASSUME NEW d, IsDocument(d), NEW n \in LayerNames
    PROVE  /\ Follows(d, AddLayer(d, n))
           /\ AddLayer(d, n).objs = d.objs
           /\ DOMAIN AddLayer(d, n).layers = DOMAIN d.layers \union {n}
  <1> DEFINE e == AddLayer(d, n)
  <1>1. CASE n \in DOMAIN d.layers
    BY <1>1, FollowsSelf DEF AddLayer
  <1>2. CASE n \notin DOMAIN d.layers
    <2>1. e = [d EXCEPT !.layers = Extended(d.layers, n, NewLayer)]
      BY <1>2 DEF AddLayer
    <2>2. /\ DOMAIN e = Fields /\ e.objs = d.objs /\ e.current = d.current /\ e.defs = d.defs
          /\ e.pick = d.pick /\ e.next = d.next
          /\ e.layers = Extended(d.layers, n, NewLayer)
      BY <2>1, DocumentParts DEF Fields
    <2> HIDE DEF e
    <2>3. NewLayer \in LayerTable
      BY DEF NewLayer, LayerTable
    <2>4. LayersFit(e)
      BY <2>2, <2>3, DocumentParts DEF LayersFit, Extended
    <2>5. AllPlaced(e) /\ DOMAIN e.layers = DOMAIN d.layers \union {n}
      BY <2>2, DocumentParts DEF AllPlaced, Extended
    <2>6. Follows(d, e) /\ e.objs = d.objs /\ DOMAIN e.layers = DOMAIN d.layers \union {n}
      BY <2>2, <2>4, <2>5, LayersFollow
    <2> QED
      BY <2>6 DEF e
  <1> QED
    BY <1>1, <1>2

LEMMA NewObjectFits ==
    ASSUME NEW d, IsDocument(d), NEW kind \in AllKinds, NEW by \in {"user", "server"}
    PROVE  /\ NewObject(d, kind, by) \in Objects
           /\ NewObject(d, kind, by).layer \in DOMAIN d.layers
  BY DocumentParts DEF NewObject, Objects, AllPlaced, LayersFit

LEMMA AddToFollows ==
    ASSUME NEW d, IsDocument(d), HasRoom(d), NEW object \in Objects,
           object.layer \in DOMAIN d.layers
    PROVE  /\ Follows(d, AddTo(d, object))
           /\ d.next \in DOMAIN AddTo(d, object).objs
           /\ AddTo(d, object).layers = d.layers
  <1> DEFINE e == AddTo(d, object)
  <1>1. /\ DOMAIN e = Fields /\ e.layers = d.layers /\ e.current = d.current /\ e.defs = d.defs
        /\ e.pick = d.pick /\ e.next = d.next + 1
        /\ e.objs = Extended(d.objs, d.next, object)
    BY DocumentParts DEF AddTo, Fields
  <1> HIDE DEF e
  <1>2. /\ DOMAIN e.objs = DOMAIN d.objs \union {d.next}
        /\ \A h \in DOMAIN e.objs : e.objs[h] = IF h = d.next THEN object ELSE d.objs[h]
    BY <1>1 DEF Extended
  <1>3. ObjectsFit(e) /\ d.next <= e.next
    BY <1>1, <1>2, DocumentParts DEF ObjectsFit, HasRoom
  <1>4. LayersFit(e) /\ BlocksFit(e)
    BY <1>1, DocumentParts DEF LayersFit, BlocksFit
  <1>5. AllPlaced(e)
    BY <1>1, <1>2, DocumentParts DEF AllPlaced
  <1>6. Follows(d, e) /\ d.next \in DOMAIN e.objs /\ e.layers = d.layers
    BY <1>1, <1>2, <1>3, <1>4, <1>5, DocumentParts DEF Follows
  <1> QED
    BY <1>6 DEF e

LEMMA ChangedFollows ==
    ASSUME NEW d, IsDocument(d), NEW hs, NEW become,
           \A h \in hs \intersect DOMAIN d.objs :
                become[h] \in Objects /\ become[h].layer \in DOMAIN d.layers
    PROVE  Follows(d, Changed(d, hs, become))
  <1> DEFINE e == Changed(d, hs, become)
  <1>1. /\ DOMAIN e = Fields /\ e.layers = d.layers /\ e.current = d.current /\ e.defs = d.defs
        /\ e.pick = d.pick /\ e.next = d.next
        /\ e.objs = [h \in DOMAIN d.objs |-> IF h \in hs THEN become[h] ELSE d.objs[h]]
    BY DocumentParts DEF Changed, Fields
  <1> HIDE DEF e
  <1>2. \A h \in DOMAIN e.objs : e.objs[h] \in Objects /\ e.objs[h].layer \in DOMAIN d.layers
    BY <1>1, DocumentParts DEF ObjectsFit, AllPlaced
  <1>3. Follows(d, e)
    BY <1>1, <1>2, ObjectsFollow, DocumentParts DEF ObjectsFit
  <1> QED
    BY <1>3 DEF e

LEMMA ErasedFollows ==
    ASSUME NEW d, IsDocument(d), NEW hs
    PROVE  Follows(d, Erased(d, hs))
  <1> DEFINE e == Erased(d, hs)
  <1>1. /\ DOMAIN e = Fields /\ e.layers = d.layers /\ e.current = d.current /\ e.defs = d.defs
        /\ e.pick = d.pick \ hs /\ e.next = d.next /\ e.objs = Without(d.objs, hs)
    BY DocumentParts DEF Erased, Fields
  <1> HIDE DEF e
  <1>2. /\ DOMAIN e.objs \subseteq DOMAIN d.objs /\ e.pick \subseteq DOMAIN e.objs
        /\ \A h \in DOMAIN e.objs : e.objs[h] = d.objs[h]
    BY <1>1, DocumentParts DEF Without, ObjectsFit
  <1>3. Follows(d, e)
    BY <1>1, <1>2, ObjectsFollow, DocumentParts DEF ObjectsFit, AllPlaced
  <1> QED
    BY <1>3 DEF e

LEMMA ForSomeFollows ==
    ASSUME NEW d, IsDocument(d), NEW hs, NEW become, NEW o \in ForSome(d, hs, become),
           \A h \in hs \intersect DOMAIN d.objs :
                become[h] \in Objects /\ become[h].layer \in DOMAIN d.layers
    PROVE  Follows(d, o.doc) /\ o.handles = {}
  <1>1. CASE o = Failed(d)
    BY <1>1, FollowsSelf DEF Failed
  <1>2. CASE \E some \in SUBSET (hs \intersect DOMAIN d.objs) :
                o = Done(Changed(d, some, become), {})
    BY <1>2, ChangedFollows DEF Done
  <1> QED
    BY <1>1, <1>2 DEF ForSome

LEMMA OtherShape == \A shape \in {0, 1} : 1 - shape \in {0, 1}
  OBVIOUS

\* A colour, a layer, text or the other shape does for an object.
LEMMA SettingsFit ==
    ASSUME NEW object \in Objects, NEW color \in Colors \union {"bylayer"},
           NEW layer \in LayerNames, NEW text \in {"", "set"}
    PROVE  /\ [object EXCEPT !.color = color] \in Objects
           /\ [object EXCEPT !.color = color].layer = object.layer
           /\ [object EXCEPT !.layer = layer] \in Objects
           /\ [object EXCEPT !.layer = layer].layer = layer
           /\ [object EXCEPT !.text = text] \in Objects
           /\ [object EXCEPT !.text = text].layer = object.layer
           /\ [object EXCEPT !.shape = 1 - @] \in Objects
           /\ [object EXCEPT !.shape = 1 - @].layer = object.layer
  <1>1. object.shape \in {0, 1}
    BY DEF Objects
  <1>2. 1 - object.shape \in {0, 1}
    BY <1>1, OtherShape
  <1>3. \A shape \in {0, 1} : /\ [object EXCEPT !.shape = shape] \in Objects
                              /\ [object EXCEPT !.shape = shape].layer = object.layer
    BY DEF Objects
  <1>4. /\ [object EXCEPT !.shape = 1 - @] \in Objects
        /\ [object EXCEPT !.shape = 1 - @].layer = object.layer
    BY <1>2, <1>3
  <1> QED
    BY <1>4 DEF Objects

LEMMA ColorIndexIsColor ==
    ASSUME NEW color
    PROVE  /\ _get_color_index(color) \in Colors \union {"bylayer"}
           /\ color # "bylayer" => _get_color_index(color) \in Colors
  BY DEF _get_color_index, ColorValidator

\* One object becomes another.
LEMMA SetFollows ==
    ASSUME NEW d, IsDocument(d), NEW h, NEW object \in Objects,
           object.layer \in DOMAIN d.layers
    PROVE  Follows(d, [d EXCEPT !.objs[h] = object])
  <1> DEFINE e == [d EXCEPT !.objs[h] = object]
  <1>1. /\ DOMAIN e = Fields /\ e.layers = d.layers /\ e.current = d.current /\ e.defs = d.defs
        /\ e.pick = d.pick /\ e.next = d.next /\ e.objs = [d.objs EXCEPT ![h] = object]
    BY DocumentParts DEF Fields
  <1> HIDE DEF e
  <1>2. /\ DOMAIN e.objs = DOMAIN d.objs
        /\ \A k \in DOMAIN e.objs : e.objs[k] \in Objects /\ e.objs[k].layer \in DOMAIN d.layers
    BY <1>1, DocumentParts DEF ObjectsFit, AllPlaced
  <1>3. Follows(d, e)
    BY <1>1, <1>2, ObjectsFollow, DocumentParts DEF ObjectsFit
  <1> QED
    BY <1>3 DEF e

-----------------------------------------------------------------------------
(* Each tool leaves a drawing that follows the one it got, and names        *)
(* handles that a drawing may give out.                                     *)

Fit(d, o) == Follows(d, o.doc) /\ o.handles \subseteq Handles

LEMMA FailedFits ==
    ASSUME NEW d, IsDocument(d)
    PROVE  Fit(d, Failed(d))
  BY FollowsSelf DEF Fit, Failed

LEMMA DoneFits ==
    ASSUME NEW d, IsDocument(d), NEW some \in SUBSET DOMAIN d.objs
    PROVE  Fit(d, Done(d, some))
  BY FollowsSelf DEF Fit, Done

LEMMA EntitiesFit ==
    ASSUME NEW d, IsDocument(d), NEW spec, NEW allowed,
           NEW o \in manage_entities(d, spec, allowed)
    PROVE  Fit(d, o)
  <1>1. CASE o = Failed(d)
    BY <1>1, FailedFits
  <1>2. CASE o # Failed(d)
    <2>1. Served(ENTITY_DISPATCH, spec) /\ o \in EntityOutcomes(spec, d)
      BY <1>2 DEF manage_entities
    <2>2. spec.action \in {"select", "move", "rotate", "scale", "set_color", "set_layer",
                           "set_color_bylayer", "copy", "paste", "delete"}
      BY <2>1 DEF Served, ENTITY_DISPATCH
    <2>3. CASE spec.action = "select"
      <3>1. o \in select(d, spec.by, spec.value)
        BY <2>1, <2>3 DEF EntityOutcomes
      <3>2. PICK hs \in SUBSET DOMAIN d.objs : o \in _select_entities_generic(d, hs)
        BY <1>2, <3>1
           DEF select, select_by_layer, select_by_color, select_by_type, OnLayer
      <3> QED
        BY <3>2, DoneFits DEF _select_entities_generic
    <2>4. CASE spec.action \in {"move", "rotate", "scale"}
      <3>1. o \in ForSome(d, spec.handles, Reshaped(d))
        BY <1>2, <2>1, <2>4
           DEF EntityOutcomes, Unless, move_entities, rotate_entities, scale_entities
      <3>2. ASSUME NEW h \in DOMAIN d.objs
            PROVE  Reshaped(d)[h] \in Objects /\ Reshaped(d)[h].layer \in DOMAIN d.layers
        <4>1. d.objs[h] \in Objects /\ d.objs[h].layer \in DOMAIN d.layers
          BY DocumentParts DEF ObjectsFit, AllPlaced
        <4> QED
          BY <4>1, SettingsFit, RequestsAssumption DEF Reshaped
      <3> QED
        BY <3>1, <3>2, ForSomeFollows DEF Fit
    <2>5. CASE spec.action \in {"set_color", "set_color_bylayer"}
      <3>1. PICK color \in Colors \union {"bylayer"} :
                o \in ForSome(d, spec.handles, With(d, "color", color))
        BY <2>1, <2>5, ColorIndexIsColor
           DEF EntityOutcomes, change_entity_color, set_entities_color_bylayer
      <3>2. ASSUME NEW h \in DOMAIN d.objs
            PROVE  /\ With(d, "color", color)[h] \in Objects
                   /\ With(d, "color", color)[h].layer \in DOMAIN d.layers
        <4>1. d.objs[h] \in Objects /\ d.objs[h].layer \in DOMAIN d.layers
          BY DocumentParts DEF ObjectsFit, AllPlaced
        <4> QED
          BY <4>1, SettingsFit DEF With
      <3> QED
        BY <3>1, <3>2, ForSomeFollows DEF Fit
    <2>6. CASE spec.action = "set_layer"
      <3> DEFINE n == spec.layer_name
                 added == AddLayer(d, n)
      <3>1. n \in LayerNames /\ o \in ForSome(added, spec.handles, With(d, "layer", n))
        BY <1>2, <2>1, <2>6 DEF EntityOutcomes, change_entity_layer
      <3>2. /\ Follows(d, added) /\ added.objs = d.objs
            /\ DOMAIN added.layers = DOMAIN d.layers \union {n}
        BY <3>1, AddLayerFollows
      <3>3. ASSUME NEW h \in DOMAIN added.objs
            PROVE  /\ With(d, "layer", n)[h] \in Objects
                   /\ With(d, "layer", n)[h].layer \in DOMAIN added.layers
        <4>1. d.objs[h] \in Objects
          BY <3>2, DocumentParts DEF ObjectsFit
        <4> HIDE DEF added
        <4> QED
          BY <3>1, <3>2, <4>1, SettingsFit DEF With
      <3>4. Follows(added, o.doc) /\ o.handles = {}
        <4> HIDE DEF added
        <4> QED
          BY <3>1, <3>2, <3>3, ForSomeFollows DEF Follows
      <3> QED
        BY <3>2, <3>4, FollowsBoth DEF Fit
    <2>7. CASE spec.action = "copy"
      BY <1>2, <2>1, <2>7, DoneFits DEF EntityOutcomes, copy_entities
    <2>8. CASE spec.action = "paste"
      <3>1. \/ o = Done(d, {})
            \/ HasRoom(d) /\ \E kind \in Kinds :
                    o = Done(AddTo(d, NewObject(d, kind, "server")), {})
        BY <1>2, <2>1, <2>8 DEF EntityOutcomes, Unless, paste_entities
      <3>2. ASSUME HasRoom(d), NEW kind \in Kinds
            PROVE  Follows(d, AddTo(d, NewObject(d, kind, "server")))
        BY <3>2, NewObjectFits, AddToFollows DEF AllKinds
      <3> QED
        BY <3>1, <3>2, DoneFits DEF Fit, Done
    <2>9. CASE spec.action = "delete"
      <3>1. PICK some : o = Done(Erased(d, some), {})
        BY <1>2, <2>1, <2>9 DEF EntityOutcomes, delete_entities
      <3> QED
        BY <3>1, ErasedFollows DEF Fit, Done
    <2> QED
      BY <2>2, <2>3, <2>4, <2>5, <2>6, <2>7, <2>8, <2>9
  <1> QED
    BY <1>1, <1>2

\* Two stages: the drawing as it was, or the other one and success.
LEMMA AttemptOnce ==
    ASSUME NEW d, NEW e, NEW o \in Attempt(<<d, e>>), o # Failed(d)
    PROVE  o = Done(e, {})
  BY DEF Attempt

\* A layer has its colour set.
LEMMA ColoredFollows ==
    ASSUME NEW d, IsDocument(d), NEW n, NEW color \in Colors
    PROVE  Follows(d, [d EXCEPT !.layers[n].color = color])
  <1> DEFINE e == [d EXCEPT !.layers[n].color = color]
  <1>1. /\ DOMAIN e = Fields /\ e.objs = d.objs /\ e.current = d.current /\ e.defs = d.defs
        /\ e.pick = d.pick /\ e.next = d.next
        /\ e.layers = [d.layers EXCEPT ![n].color = color]
    BY DocumentParts DEF Fields
  <1> HIDE DEF e
  <1>2. \A layer \in LayerTable : [layer EXCEPT !.color = color] \in LayerTable
    BY DEF LayerTable
  <1>3. LayersFit(e)
    BY <1>1, <1>2, DocumentParts DEF LayersFit
  <1>4. AllPlaced(e)
    BY <1>1, DocumentParts DEF AllPlaced
  <1>5. Follows(d, e)
    BY <1>1, <1>3, <1>4, LayersFollow
  <1> QED
    BY <1>5 DEF e

\* Renamed: the layer, and with it the current layer and the objects.
LEMMA RenamedFollows ==
    ASSUME NEW d, IsDocument(d), NEW old \in DOMAIN d.layers,
           NEW new \in LayerNames \ DOMAIN d.layers
    PROVE  Follows(d,
            [d EXCEPT !.layers = Extended(Without(@, {old}), new, d.layers[old]),
                      !.current = IF @ = old THEN new ELSE @,
                      !.objs = [h \in DOMAIN @ |->
                          IF @[h].layer = old THEN [@[h] EXCEPT !.layer = new] ELSE @[h]]])
  <1> DEFINE e == [d EXCEPT !.layers = Extended(Without(@, {old}), new, d.layers[old]),
                            !.current = IF @ = old THEN new ELSE @,
                            !.objs = [h \in DOMAIN @ |->
                                IF @[h].layer = old THEN [@[h] EXCEPT !.layer = new] ELSE @[h]]]
  <1>1. /\ DOMAIN e = Fields /\ e.defs = d.defs /\ e.pick = d.pick /\ e.next = d.next
        /\ e.layers = Extended(Without(d.layers, {old}), new, d.layers[old])
        /\ e.current = IF d.current = old THEN new ELSE d.current
        /\ e.objs = [h \in DOMAIN d.objs |->
                        IF d.objs[h].layer = old THEN [d.objs[h] EXCEPT !.layer = new]
                        ELSE d.objs[h]]
    BY DocumentParts DEF Fields
  <1> HIDE DEF e
  <1>2. /\ DOMAIN e.layers = (DOMAIN d.layers \ {old}) \union {new}
        /\ \A n \in DOMAIN e.layers : e.layers[n] = IF n = new THEN d.layers[old] ELSE d.layers[n]
    BY <1>1 DEF Extended, Without
  <1>3. LayersFit(e)
    BY <1>2, DocumentParts DEF LayersFit
  <1>4. ASSUME NEW h \in DOMAIN d.objs
        PROVE  e.objs[h] \in Objects /\ e.objs[h].layer \in DOMAIN e.layers
    <2>1. d.objs[h] \in Objects /\ d.objs[h].layer \in DOMAIN d.layers
      BY DocumentParts DEF ObjectsFit, AllPlaced
    <2>2. /\ [d.objs[h] EXCEPT !.layer = new] \in Objects
          /\ [d.objs[h] EXCEPT !.layer = new].layer = new
      BY <2>1 DEF Objects
    <2> QED
      BY <1>1, <1>2, <2>1, <2>2
  <1>5. AllPlaced(e)
    BY <1>1, <1>2, <1>4, DocumentParts DEF AllPlaced
  <1>6. ObjectsFit(e)
    <2>1. DOMAIN e.objs = DOMAIN d.objs
      BY <1>1
    <2> QED
      BY <1>1, <1>4, <2>1, DocumentParts DEF ObjectsFit
  <1>7. BlocksFit(e) /\ d.next <= e.next
    BY <1>1, DocumentParts, FollowsSelf DEF BlocksFit
  <1>8. Follows(d, e)
    BY <1>1, <1>3, <1>5, <1>6, <1>7, DocumentParts DEF Follows
  <1> QED
    BY <1>8 DEF e

LEMMA LayersFitTool ==
    ASSUME NEW d, IsDocument(d), NEW spec, NEW allowed,
           NEW o \in manage_layers(d, spec, allowed)
    PROVE  Fit(d, o)
  <1>1. CASE o = Failed(d)
    BY <1>1, FailedFits
  <1>2. CASE o # Failed(d)
    <2>1. Served(LAYER_DISPATCH, spec) /\ o \in LayerOutcomes(spec, d)
      BY <1>2 DEF manage_layers
    <2>2. spec.action \in {"create", "rename", "delete", "turn_on", "turn_off", "set_color",
                           "list", "is_on", "info"}
      BY <2>1 DEF Served, LAYER_DISPATCH
    <2>3. CASE spec.action = "create"
      <3> DEFINE n == spec.name
                 color == Get(spec, "color", "white")
                 added == AddLayer(d, n)
                 colored == [added EXCEPT !.layers[n].color = color]
      <3>1. CreateLayerRequest(spec) /\ o \in create_layer(d, n, color)
        BY <1>2, <2>1, <2>3 DEF LayerOutcomes, Unless
      <3>2. n \in LayerNames /\ color \in Colors \union {"bylayer"}
        BY <3>1 DEF CreateLayerRequest, LayerValidator, ColorValidator
      <3> HIDE DEF n, color
      <3>3. /\ o.doc \in {d, added} \/ (color \in Colors /\ o.doc = colored)
            /\ o.handles = {}
        BY <1>2, <3>1, <3>2 DEF create_layer, Attempt, Failed, Done
      <3>4. Follows(d, added)
        BY <3>2, AddLayerFollows
      <3>5. color \in Colors => Follows(added, colored)
        <4> HIDE DEF added
        <4> QED
          BY <3>4, ColoredFollows DEF Follows
      <3>6. Follows(d, o.doc)
        BY <3>3, <3>4, <3>5, FollowsSelf, FollowsBoth
      <3> QED
        BY <3>3, <3>6 DEF Fit
    <2>4. CASE spec.action = "rename"
      <3>1. o \in rename_layer(d, spec.old_name, spec.new_name)
        BY <2>1, <2>4 DEF LayerOutcomes
      <3>2. /\ spec.old_name \in DOMAIN d.layers /\ spec.new_name \in LayerNames \ DOMAIN d.layers
        BY <1>2, <3>1 DEF rename_layer
      <3> DEFINE old == spec.old_name
                 new == spec.new_name
                 e == [d EXCEPT !.layers = Extended(Without(@, {old}), new, d.layers[old]),
                                !.current = IF @ = old THEN new ELSE @,
                                !.objs = [h \in DOMAIN @ |->
                                    IF @[h].layer = old THEN [@[h] EXCEPT !.layer = new]
                                    ELSE @[h]]]
      <3>3. o \in Attempt(<<d, e>>)
        BY <1>2, <3>1 DEF rename_layer
      <3>4. Follows(d, e)
        BY <3>2, RenamedFollows
      <3> HIDE DEF e
      <3>5. o = Done(e, {})
        BY <1>2, <3>3, AttemptOnce
      <3> QED
        BY <3>4, <3>5 DEF Fit, Done
    <2>5. CASE spec.action = "delete"
      <3> DEFINE n == spec.name
                 e == [d EXCEPT !.layers = Without(@, {n})]
      <3>1. o \in delete_layer(d, n)
        BY <2>1, <2>5 DEF LayerOutcomes
      <3>2. n # d.current /\ OnLayer(d, n) = {}
        BY <1>2, <3>1 DEF delete_layer
      <3>3. o.doc = e /\ o.handles = {}
        BY <1>2, <3>1, AttemptOnce DEF delete_layer, Done
      <3>4. /\ DOMAIN e = Fields /\ e.objs = d.objs /\ e.current = d.current /\ e.defs = d.defs
            /\ e.pick = d.pick /\ e.next = d.next /\ e.layers = Without(d.layers, {n})
        BY DocumentParts DEF Fields
      <3> HIDE DEF e
      <3>5. LayersFit(e)
        BY <3>4, DocumentParts DEF LayersFit, Without
      <3>6. AllPlaced(e)
        BY <3>2, <3>4, DocumentParts DEF AllPlaced, Without, OnLayer
      <3> QED
        BY <3>3, <3>4, <3>5, <3>6, LayersFollow DEF Fit
    <2>6. CASE spec.action \in {"turn_on", "turn_off"}
      <3>1. PICK frozen \in BOOLEAN : o \in turn_layers(d, spec.names, frozen)
        BY <2>1, <2>6 DEF LayerOutcomes
      <3>2. PICK some :
              /\ o.doc = [d EXCEPT !.layers = [n \in DOMAIN @ |->
                            IF n \in some THEN [@[n] EXCEPT !.frozen = frozen] ELSE @[n]]]
              /\ o.handles = {}
        <4> DEFINE after(some) == [d EXCEPT !.layers = [n \in DOMAIN @ |->
                        IF n \in some THEN [@[n] EXCEPT !.frozen = frozen] ELSE @[n]]]
        <4>1. \E some : o = Done(after(some), {}) \/ o = Failed(after(some))
          BY <3>1 DEF turn_layers
        <4> HIDE DEF after
        <4>2. \E some : o.doc = after(some) /\ o.handles = {}
          BY <4>1 DEF Done, Failed
        <4> QED
          BY <4>2 DEF after
      <3>3. /\ DOMAIN o.doc = Fields /\ o.doc.objs = d.objs /\ o.doc.current = d.current
            /\ o.doc.defs = d.defs /\ o.doc.pick = d.pick /\ o.doc.next = d.next
            /\ o.doc.layers = [n \in DOMAIN d.layers |->
                  IF n \in some THEN [d.layers[n] EXCEPT !.frozen = frozen] ELSE d.layers[n]]
        BY <3>2, DocumentParts DEF Fields
      <3>4. \A layer \in LayerTable : [layer EXCEPT !.frozen = frozen] \in LayerTable
        BY DEF LayerTable
      <3>5. LayersFit(o.doc)
        BY <3>3, <3>4, DocumentParts DEF LayersFit
      <3>6. AllPlaced(o.doc)
        BY <3>3, DocumentParts DEF AllPlaced
      <3>7. Follows(d, o.doc)
        BY <3>3, <3>5, <3>6, LayersFollow
      <3> QED
        BY <3>2, <3>7 DEF Fit
    <2>7. CASE spec.action = "set_color"
      <3>1. o \in set_layer_color(d, spec.name, spec.color)
        BY <2>1, <2>7 DEF LayerOutcomes
      <3>2. spec.color # "bylayer"
        BY <1>2, <3>1 DEF set_layer_color
      <3>3. /\ o.doc = [d EXCEPT !.layers[spec.name].color = _get_color_index(spec.color)]
            /\ o.handles = {}
        BY <1>2, <3>1, AttemptOnce DEF set_layer_color, Done
      <3>4. _get_color_index(spec.color) \in Colors
        BY <3>2, ColorIndexIsColor
      <3>5. Follows(d, o.doc)
        BY <3>3, <3>4, ColoredFollows
      <3> QED
        BY <3>3, <3>5 DEF Fit
    <2>8. CASE spec.action \in {"list", "is_on", "info"}
      BY <2>1, <2>8, DoneFits DEF LayerOutcomes, LayerQuery
    <2> QED
      BY <2>2, <2>3, <2>4, <2>5, <2>6, <2>7, <2>8
  <1> QED
    BY <1>1, <1>2

\* One object of the drawing has a property set.
LEMMA SettingFollows ==
    ASSUME NEW d, IsDocument(d), NEW h \in DOMAIN d.objs,
           NEW layer \in DOMAIN d.layers, NEW color \in Colors \union {"bylayer"},
           NEW text \in {"", "set"}
    PROVE  /\ Follows(d, [d EXCEPT !.objs[h].layer = layer])
           /\ Follows(d, [d EXCEPT !.objs[h].color = color])
           /\ Follows(d, [d EXCEPT !.objs[h].text = text])
  <1>1. d.objs[h] \in Objects /\ d.objs[h].layer \in DOMAIN d.layers /\ layer \in LayerNames
    BY DocumentParts DEF ObjectsFit, AllPlaced, LayersFit
  <1>2. Follows(d, [d EXCEPT !.objs[h] = [d.objs[h] EXCEPT !.layer = layer]])
    BY <1>1, SetFollows, SettingsFit
  <1>3. Follows(d, [d EXCEPT !.objs[h] = [d.objs[h] EXCEPT !.color = color]])
    BY <1>1, SetFollows, SettingsFit
  <1>4. Follows(d, [d EXCEPT !.objs[h] = [d.objs[h] EXCEPT !.text = text]])
    BY <1>1, SetFollows, SettingsFit
  <1> QED
    BY <1>2, <1>3, <1>4

LEMMA FinalizeFits ==
    ASSUME NEW d, IsDocument(d), NEW m, Follows(d, m), NEW h \in DOMAIN m.objs, NEW spec,
           NEW o \in _finalize_entity(m, h, spec)
    PROVE  Fit(d, o)
  <1> DEFINE layer == Get(spec, "layer", "0")
             color == Get(spec, "color", "white")
  <1>1. PICK e \in _apply_properties(m, h, layer, color) : o \in {Failed(e), Done(e, {h})}
    BY DEF _finalize_entity
  <1>2. Follows(m, e)
    <2> DEFINE placed == [m EXCEPT !.objs[h].layer = layer]
               index == _get_color_index(color)
               colored == [placed EXCEPT !.objs[h].color = index]
    <2>1. e = m \/ (layer \in DOMAIN m.layers /\ e \in {placed, colored})
      BY <1>1 DEF _apply_properties
    <2>2. CASE e = m
      BY <2>2, FollowsSelf DEF Follows
    <2>3. CASE layer \in DOMAIN m.layers /\ e \in {placed, colored}
      <3>1. Follows(m, placed)
        BY <2>3, SettingFollows, RequestsAssumption DEF Follows
      <3>2. h \in DOMAIN placed.objs /\ placed.layers = m.layers
        BY DocumentParts DEF Follows, Fields
      <3>3. index \in Colors \union {"bylayer"}
        BY ColorIndexIsColor
      <3>4. Follows(placed, colored)
        <4> HIDE DEF placed, index
        <4> QED
          BY <2>3, <3>1, <3>2, <3>3, SettingFollows DEF Follows
      <3> HIDE DEF colored, placed
      <3> QED
        BY <2>3, <3>1, <3>4, FollowsBoth DEF Follows
    <2> QED
      BY <2>1, <2>2, <2>3
  <1>3. Follows(d, e)
    BY <1>2, FollowsBoth
  <1>4. h \in Handles
    BY FollowsSelf DEF Follows
  <1> QED
    BY <1>1, <1>3, <1>4 DEF Fit, Failed, Done

LEMMA AddFits ==
    ASSUME NEW d, IsDocument(d), NEW spec, NEW kind \in AllKinds, NEW o \in Add(d, spec, kind)
    PROVE  Fit(d, o)
  <1> DEFINE made == AddTo(d, NewObject(d, kind, "server"))
  <1>1. CASE o = Failed(d)
    BY <1>1, FailedFits
  <1>2. CASE HasRoom(d)
    <2>1. Follows(d, made) /\ d.next \in DOMAIN made.objs
      BY <1>2, NewObjectFits, AddToFollows
    <2> HIDE DEF made
    <2>2. CASE o = Failed(made)
      BY <2>1, <2>2 DEF Fit, Failed
    <2>3. CASE o \in _finalize_entity(made, d.next, spec)
      BY <2>1, <2>3, FinalizeFits
    <2> QED
      BY <1>1, <1>2, <2>2, <2>3 DEF Add, made
  <1> QED
    BY <1>1, <1>2 DEF Add

LEMMA DrawFits ==
    ASSUME NEW d, IsDocument(d), NEW spec, NEW o \in draw_entities(d, spec)
    PROVE  Fit(d, o)
  <1>1. CASE o = Failed(d)
    BY <1>1, FailedFits
  <1>2. CASE o # Failed(d)
    <2>1. spec.action \in DOMAIN ENTITY_TYPES /\ o \in DrawHandler(d, spec)
      BY <1>2 DEF draw_entities, Served
    <2>2. spec.action \in {"line", "circle", "arc", "rectangle", "polyline", "text", "spline",
                           "dimension", "leader", "mleader", "table"}
      BY <2>1 DEF ENTITY_TYPES
    <2>3. CASE spec.action \in {"line", "arc", "text", "dimension", "table", "circle"}
      <3>1. \E kind \in AllKinds : o \in Add(d, spec, kind)
        BY <1>2, <2>1, <2>3 DEF DrawHandler, Unless, draw_line, draw_arc, draw_text,
                                add_dimension, draw_table, draw_circle, AllKinds
      <3> QED
        BY <3>1, AddFits
    <2>4. CASE spec.action \in {"rectangle", "polyline"}
      <3>1. o \in Add(d, spec, "polyline")
        BY <1>2, <2>1, <2>4 DEF DrawHandler, Unless, draw_rectangle, draw_polyline
      <3> QED
        BY <3>1, AddFits DEF AllKinds
    <2>5. CASE spec.action = "spline"
      <3>1. o \in Add(d, spec, "spline")
        BY <1>2, <2>1, <2>5 DEF DrawHandler, Unless, draw_spline
      <3> QED
        BY <3>1, AddFits DEF AllKinds
    <2>6. CASE spec.action \in {"leader", "mleader"}
      <3>1. o \in Add(d, spec, "mleader")
        BY <1>2, <2>1, <2>6 DEF DrawHandler, Unless, _draw_leader_unified, draw_mleader
      <3> QED
        BY <3>1, AddFits DEF AllKinds
    <2> QED
      BY <2>2, <2>3, <2>4, <2>5, <2>6
  <1> QED
    BY <1>1, <1>2

\* A block definition is added, empty or of kinds of objects.
LEMMA BlockAddedFollows ==
    ASSUME NEW d, IsDocument(d), NEW n \in BlockNames, NEW e,
           DOMAIN e = Fields, e.layers = d.layers, e.current = d.current,
           e.objs = d.objs, e.pick = d.pick, e.next = d.next,
           DOMAIN e.defs = DOMAIN d.defs \union {n},
           \A k \in DOMAIN e.defs : IF k = n THEN e.defs[k] \subseteq AllKinds
                                    ELSE e.defs[k] = d.defs[k]
    PROVE  Follows(d, e)
  <1>1. BlocksFit(e)
    BY DocumentParts DEF BlocksFit
  <1> QED
    BY <1>1, DocumentParts, FollowsSelf DEF Follows, LayersFit, ObjectsFit, AllPlaced

LEMMA BlocksFitTool ==
    ASSUME NEW d, IsDocument(d), NEW spec, NEW allowed,
           NEW o \in manage_blocks(d, spec, allowed)
    PROVE  Fit(d, o)
  <1>1. CASE o = Failed(d)
    BY <1>1, FailedFits
  <1>2. CASE o # Failed(d)
    <2>1. Served(BLOCK_DISPATCH, spec) /\ o \in BlockOutcomes(spec, d)
      BY <1>2 DEF manage_blocks
    <2>2. spec.action \in {"create", "insert", "list", "info", "get_attrs", "set_attrs"}
      BY <2>1 DEF Served, BLOCK_DISPATCH
    <2>3. CASE spec.action = "create"
      <3> DEFINE n == spec.block_name
                 added == [d EXCEPT !.defs = Extended(@, n, {})]
                 filled(kinds) == [added EXCEPT !.defs[n] = kinds]
      <3>1. /\ n \in BlockNames
            /\ \/ o = Failed(added)
               \/ \E hs \in SUBSET DOMAIN d.objs : o \in {Failed(filled(KindsOf(d, hs))),
                                                          Done(filled(KindsOf(d, hs)), {})}
        <4>1. CASE o \in create_block_from_entities(d, n, spec.entity_handles)
          <5> HIDE DEF n
          <5> QED
            BY <1>2, <4>1 DEF create_block_from_entities
        <4>2. CASE o \in create_block_from_selection(d, n)
          <5>1. /\ n \in BlockNames
                /\ o \in Attempt(<<d, added, filled(KindsOf(d, d.pick))>>)
            BY <1>2, <4>2 DEF create_block_from_selection
          <5>2. d.pick \in SUBSET DOMAIN d.objs
            BY DocumentParts DEF ObjectsFit
          <5> HIDE DEF added, filled, n
          <5> QED
            BY <1>2, <5>1, <5>2 DEF Attempt
        <4> QED
          BY <2>1, <2>3, <4>1, <4>2 DEF BlockOutcomes
      <3>2. ASSUME NEW hs \in SUBSET DOMAIN d.objs
            PROVE  KindsOf(d, hs) \subseteq AllKinds
        <4>1. \A h \in DOMAIN d.objs : d.objs[h] \in Objects
          BY DocumentParts DEF ObjectsFit
        <4>2. \A h \in DOMAIN d.objs : d.objs[h].kind \in AllKinds
          BY <4>1 DEF Objects
        <4> QED
          BY <4>2 DEF KindsOf
      <3>3. Follows(d, added)
        <4>1. /\ DOMAIN added = Fields /\ added.layers = d.layers /\ added.current = d.current
              /\ added.objs = d.objs /\ added.pick = d.pick /\ added.next = d.next
              /\ added.defs = Extended(d.defs, n, {})
          BY DocumentParts DEF Fields
        <4> HIDE DEF added, n
        <4> QED
          BY <3>1, <4>1, BlockAddedFollows DEF Extended
      <3>4. ASSUME NEW kinds \in SUBSET AllKinds
            PROVE  Follows(d, filled(kinds))
        <4> DEFINE e == filled(kinds)
        <4>1. /\ DOMAIN e = Fields /\ e.layers = d.layers /\ e.current = d.current
              /\ e.objs = d.objs /\ e.pick = d.pick /\ e.next = d.next
              /\ e.defs = [Extended(d.defs, n, {}) EXCEPT ![n] = kinds]
          BY DocumentParts DEF Fields
        <4> HIDE DEF e, n
        <4>2. Follows(d, e)
          BY <3>1, <4>1, BlockAddedFollows DEF Extended
        <4> QED
          BY <4>2 DEF e
      <3> HIDE DEF filled, added
      <3> QED
        BY <3>1, <3>2, <3>3, <3>4 DEF Fit, Failed, Done
    <2>4. CASE spec.action = "insert"
      <3> DEFINE h == d.next
                 made == AddTo(d, NewObject(d, "insert", "server"))
                 set == [made EXCEPT !.objs[h].text =
                            IF Get(spec, "attributes", {}) = {} THEN @ ELSE "set"]
      <3>1. HasRoom(d) /\ \E m \in {made, set} : o \in _finalize_entity(m, h, spec)
        BY <1>2, <2>1, <2>4 DEF BlockOutcomes, insert_block
      <3>2. Follows(d, made) /\ h \in DOMAIN made.objs
        BY <3>1, NewObjectFits, AddToFollows, DocumentAssumption DEF AllKinds
      <3>3. Follows(d, set) /\ h \in DOMAIN set.objs
        <4> DEFINE value == IF Get(spec, "attributes", {}) = {} THEN made.objs[h].text ELSE "set"
        <4>1. set = [made EXCEPT !.objs[h].text = value]
          OBVIOUS
        <4> HIDE DEF made, set
        <4>2. made.objs[h] \in Objects /\ made.current \in DOMAIN made.layers
          BY <3>2, DocumentParts DEF Follows, ObjectsFit, AllPlaced
        <4>3. value \in {"", "set"}
          BY <4>2 DEF Objects
        <4> HIDE DEF value
        <4>4. Follows(d, set)
          BY <3>2, <4>1, <4>2, <4>3, SettingFollows, FollowsBoth, RequestsAssumption DEF Follows
        <4>5. DOMAIN set.objs = DOMAIN made.objs
          BY <3>2, <4>1, DocumentParts DEF Follows, Fields
        <4> QED
          BY <3>2, <4>4, <4>5
      <3> HIDE DEF made, set
      <3> QED
        BY <3>1, <3>2, <3>3, FinalizeFits
    <2>5. CASE spec.action = "set_attrs"
      <3> DEFINE set == [d EXCEPT !.objs[spec.handle].text = "set"]
      <3>1. spec.handle \in DOMAIN d.objs /\ o \in {Failed(set), Done(set, {})}
        BY <1>2, <2>1, <2>5 DEF BlockOutcomes, set_block_attributes
      <3>2. Follows(d, set)
        <4>1. d.current \in DOMAIN d.layers
          BY DocumentParts DEF AllPlaced
        <4> QED
          BY <3>1, <4>1, SettingFollows
      <3> HIDE DEF set
      <3> QED
        BY <3>1, <3>2 DEF Fit, Failed, Done
    <2>6. CASE spec.action \in {"list", "get_attrs", "info"}
      <3>1. o \in list_blocks(d) \/ o \in get_block_attributes(d) \/ o \in block_info(d, spec)
        BY <2>1, <2>6 DEF BlockOutcomes
      <3>2. \E some \in SUBSET DOMAIN d.objs : o = Done(d, some)
        BY <1>2, <3>1 DEF list_blocks, get_block_attributes, block_info, get_block_info,
                          get_block_references
      <3> QED
        BY <3>2, DoneFits
    <2> QED
      BY <2>2, <2>3, <2>4, <2>5, <2>6
  <1> QED
    BY <1>1, <1>2

LEMMA OutcomesFit ==
    ASSUME NEW d, IsDocument(d), NEW spec, call \in Works, NEW o \in Outcomes(spec, d)
    PROVE  Fit(d, o)
  <1>1. CASE call = "draw_entities"
    BY <1>1, DrawFits DEF Outcomes
  <1>2. CASE call = "manage_entities"
    BY <1>2, EntitiesFit DEF Outcomes
  <1>3. CASE call = "manage_layers"
    BY <1>3, LayersFitTool DEF Outcomes
  <1>4. CASE call = "manage_blocks"
    BY <1>4, BlocksFitTool DEF Outcomes
  <1> QED
    BY <1>1, <1>2, <1>3, <1>4 DEF Works

-----------------------------------------------------------------------------
(* The inductive invariant: the drawings that are open, and what an undo    *)
(* would bring back in them, are well formed, and an undo brings back no    *)
(* handle that was not given out.                                           *)

DrawingsTyped ==
    /\ Open \subseteq 1 .. opened /\ opened \in Drawings /\ DOMAIN past = Open
    /\ \A id \in Open : IsDocument(past[id]) /\ Follows(past[id], docs[id])

FrontTyped ==
    /\ undone \subseteq Open /\ front \in Open \union {NoDrawing}
    /\ (front = NoDrawing) = (Open = {})

CadTyped == DrawingsTyped /\ FrontTyped

ClientTyped ==
    /\ cached \in Drawings \union {NoDrawing} /\ {filedia, strict} \subseteq BOOLEAN
    /\ call \in Tools \union {Idle}
    /\ told \subseteq Drawings \X Handles /\ doubtful \subseteq Drawings

TypesInv == CadTyped /\ ClientTyped

LEMMA Ranges ==
    ASSUME CadTyped
    PROVE  /\ Open \subseteq Drawings /\ NoDrawing \notin Open
           /\ front \in Drawings \union {NoDrawing}
           /\ Open # {} => front \in Open
           /\ \A id \in Open : IsDocument(docs[id])
  <1>1. Open \subseteq 1 .. opened /\ opened \in 1 .. MaxDrawings
    BY DEF CadTyped, DrawingsTyped, Drawings
  <1>2. Open \subseteq Drawings /\ NoDrawing \notin Open
    BY <1>1, ToolsAssumption DEF Drawings, NoDrawing
  <1> QED
    BY <1>2 DEF CadTyped, DrawingsTyped, FrontTyped, Follows

LEMMA SameTyped ==
    ASSUME CadTyped, UNCHANGED cadVars
    PROVE  CadTyped'
  BY DEF CadTyped, DrawingsTyped, FrontTyped, cadVars, Open

LEMMA EmptyTyped == IsDocument(EmptyDocument)
  <1>1. NewLayer \in LayerTable
    BY RequestsAssumption DEF NewLayer, LayerTable
  <1>2. EmptyDocument.next = 1 /\ 1 \in 1 .. (MaxObjects + 1)
    BY DocumentAssumption DEF EmptyDocument
  <1>3. /\ DOMAIN EmptyDocument = Fields
        /\ DOMAIN EmptyDocument.layers = {"0"} /\ EmptyDocument.layers["0"] = NewLayer
        /\ EmptyDocument.current = "0" /\ EmptyDocument.pick = {}
        /\ DOMAIN EmptyDocument.objs = {} /\ DOMAIN EmptyDocument.defs = {}
    BY DEF EmptyDocument, Fields
  <1>4. LayersFit(EmptyDocument) /\ AllPlaced(EmptyDocument)
    BY <1>1, <1>3, RequestsAssumption DEF LayersFit, AllPlaced
  <1>5. ObjectsFit(EmptyDocument) /\ BlocksFit(EmptyDocument)
    BY <1>2, <1>3 DEF ObjectsFit, BlocksFit
  <1> QED
    BY <1>3, <1>4, <1>5, DocumentParts

\* One drawing is changed.
LEMMA PutTyped ==
    ASSUME CadTyped, NEW id \in Open, NEW d, Follows(docs[id], d), Put(id, d)
    PROVE  CadTyped'
  <1>1. /\ docs' = [docs EXCEPT ![id] = d] /\ UNCHANGED <<opened, front>>
        /\ past' = [past EXCEPT ![id] = IF d = docs[id] THEN @ ELSE docs[id]]
        /\ undone' \subseteq undone
    BY DEF Put
  <1>2. DOMAIN docs' = Open /\ DOMAIN past' = Open
    BY <1>1 DEF CadTyped, DrawingsTyped, Open
  <1>3. ASSUME NEW k \in Open
        PROVE  IsDocument(past'[k]) /\ Follows(past'[k], docs'[k])
    <2>1. IsDocument(past[k]) /\ Follows(past[k], docs[k]) /\ IsDocument(docs[k])
      BY Ranges DEF CadTyped, DrawingsTyped
    <2>2. /\ docs'[k] = IF k = id THEN d ELSE docs[k]
          /\ past'[k] = IF k = id /\ d # docs[id] THEN docs[id] ELSE past[k]
      BY <1>1 DEF CadTyped, DrawingsTyped, Open
    <2> QED
      BY <2>1, <2>2, FollowsBoth
  <1>4. DrawingsTyped'
    BY <1>1, <1>2, <1>3 DEF CadTyped, DrawingsTyped, Open
  <1>5. FrontTyped'
    BY <1>1, <1>2 DEF CadTyped, FrontTyped, Open
  <1> QED
    BY <1>4, <1>5 DEF CadTyped

\* Some drawings are closed.
LEMMA LeftTyped ==
    ASSUME CadTyped, NEW gone,
           docs' = Without(docs, gone), past' = Without(past, gone),
           undone' = undone \ gone, opened' = opened,
           front' \in IF Open \ gone = {} THEN {NoDrawing} ELSE Open \ gone
    PROVE  CadTyped'
  <1>1. /\ Open' = Open \ gone /\ DOMAIN past' = Open \ gone
        /\ \A id \in Open' : docs'[id] = docs[id] /\ past'[id] = past[id]
    BY DEF Open, Without, CadTyped, DrawingsTyped
  <1>2. DrawingsTyped'
    BY <1>1 DEF CadTyped, DrawingsTyped
  <1>3. FrontTyped'
    BY <1>1, Ranges DEF CadTyped, FrontTyped
  <1> QED
    BY <1>2, <1>3 DEF CadTyped

\* An empty drawing is opened, and others may be closed with that.
LEMMA NewTyped ==
    ASSUME CadTyped, CanOpen, NEW left \in SUBSET Open,
           Open' = left \union {Fresh}, DOMAIN past' = left \union {Fresh},
           \A id \in Open' : /\ docs'[id] = IF id = Fresh THEN EmptyDocument ELSE docs[id]
                             /\ past'[id] = IF id = Fresh THEN EmptyDocument ELSE past[id],
           undone' \subseteq undone, undone' \subseteq Open', opened' = Fresh, front' = Fresh
    PROVE  CadTyped' /\ Fresh \in Drawings
  <1>1. /\ opened \in 1 .. MaxDrawings /\ opened < MaxDrawings /\ MaxDrawings \in Nat
        /\ Open \subseteq 1 .. opened
    BY DEF CadTyped, DrawingsTyped, Drawings, CanOpen
  <1>2. /\ Fresh \in Drawings /\ Fresh # NoDrawing /\ Open \subseteq 1 .. Fresh
        /\ Fresh \in 1 .. Fresh
    BY <1>1 DEF Drawings, Fresh, NoDrawing
  <1>3. \A id \in Open' : IsDocument(past'[id]) /\ Follows(past'[id], docs'[id])
    BY EmptyTyped, FollowsSelf DEF CadTyped, DrawingsTyped
  <1>4. DrawingsTyped'
    BY <1>2, <1>3 DEF DrawingsTyped
  <1>5. FrontTyped'
    BY <1>2 DEF FrontTyped
  <1> QED
    BY <1>2, <1>4, <1>5 DEF CadTyped

LEMMA AddDrawingTyped ==
    ASSUME CadTyped, AddDrawing
    PROVE  CadTyped' /\ Fresh \in Drawings
  <1>1. /\ Open' = Open \union {Fresh} /\ DOMAIN past' = Open \union {Fresh}
        /\ \A id \in Open' :
            /\ docs'[id] = IF id = Fresh THEN EmptyDocument ELSE docs[id]
            /\ past'[id] = IF id = Fresh THEN EmptyDocument ELSE past[id]
    BY DEF Open, Extended, AddDrawing, CadTyped, DrawingsTyped
  <1>2. undone' = undone /\ undone \subseteq Open
    BY DEF AddDrawing, CadTyped, FrontTyped
  <1> QED
    BY <1>1, <1>2, NewTyped DEF AddDrawing

LEMMA GetAdapterTyped ==
    ASSUME TypesInv, get_adapter
    PROVE  CadTyped' /\ cached' \in Drawings \union {NoDrawing}
  BY AddDrawingTyped, SameTyped, Ranges DEF TypesInv, ClientTyped, get_adapter

LEMMA SwapTyped ==
    ASSUME CadTyped, NEW id \in Open, Swap(id), UNCHANGED <<opened, front>>
    PROVE  CadTyped'
  <1> DEFINE back == [past[id] EXCEPT !.next = docs[id].next]
  <1>1. /\ docs' = [docs EXCEPT ![id] = back] /\ past' = [past EXCEPT ![id] = docs[id]]
        /\ undone' \subseteq undone \union {id}
    BY DEF Swap
  <1>2. IsDocument(past[id]) /\ Follows(past[id], docs[id]) /\ IsDocument(docs[id])
    BY Ranges DEF CadTyped, DrawingsTyped
  <1>3. /\ DOMAIN back = Fields /\ back.layers = past[id].layers
        /\ back.current = past[id].current /\ back.objs = past[id].objs
        /\ back.defs = past[id].defs /\ back.pick = past[id].pick /\ back.next = docs[id].next
    BY <1>2, DocumentParts DEF Fields
  <1> HIDE DEF back
  <1>4. Follows(docs[id], back)
    <2>1. LayersFit(back) /\ BlocksFit(back) /\ AllPlaced(back)
      BY <1>2, <1>3, DocumentParts DEF LayersFit, BlocksFit, AllPlaced
    <2>2. /\ past[id].next \in Nat /\ docs[id].next \in 1 .. (MaxObjects + 1)
          /\ past[id].next <= docs[id].next
      BY <1>2, DocumentParts DEF ObjectsFit, Follows
    <2>3. 1 .. (past[id].next - 1) \subseteq 1 .. (docs[id].next - 1)
      BY <2>2
    <2>4. ObjectsFit(back)
      BY <1>2, <1>3, <2>2, <2>3, DocumentParts DEF ObjectsFit
    <2> QED
      BY <1>3, <2>1, <2>2, <2>4, DocumentParts DEF Follows
  <1>5. DOMAIN docs' = Open /\ DOMAIN past' = Open
    BY <1>1 DEF CadTyped, DrawingsTyped, Open
  <1>6. \A k \in Open : IsDocument(past'[k]) /\ Follows(past'[k], docs'[k])
    BY <1>1, <1>2, <1>4 DEF CadTyped, DrawingsTyped, Open
  <1>7. DrawingsTyped'
    BY <1>5, <1>6 DEF CadTyped, DrawingsTyped, Open
  <1>8. FrontTyped'
    BY <1>1, <1>5 DEF CadTyped, FrontTyped, Open
  <1> QED
    BY <1>7, <1>8 DEF CadTyped

LEMMA WorkOffTyped ==
    ASSUME TypesInv, NEW spec, WorkOff(spec)
    PROVE  TypesInv'
  <1>1. PICK bound \in IF InFront(spec) /\ front \in Open THEN {cached, front} ELSE Bound :
            \E o \in Outcomes(spec, docs[IF InFront(spec) THEN front ELSE bound]) :
                LET on == IF InFront(spec) THEN front ELSE bound
                IN  /\ Put(on, o.doc) /\ cached' = bound
                    /\ told' = told \union {<<on, h>> : h \in o.handles}
                    /\ doubtful' = IF MayHide(spec, o.ok) THEN doubtful \union {on}
                                   ELSE doubtful
                    /\ Append1(spec, o.ok, on)
    BY DEF WorkOff
  <1> DEFINE on == IF InFront(spec) THEN front ELSE bound
  <1>2. PICK o \in Outcomes(spec, docs[on]) :
            /\ Put(on, o.doc) /\ cached' = bound
            /\ told' = told \union {<<on, h>> : h \in o.handles}
            /\ doubtful' \in {doubtful, doubtful \union {on}}
            /\ Append1(spec, o.ok, on)
    BY <1>1
  <1>3. on \in Open /\ bound \in Drawings \union {NoDrawing}
    BY <1>1, Ranges DEF TypesInv, ClientTyped, Bound
  <1> HIDE DEF on
  <1>4. Fit(docs[on], o)
    BY <1>2, <1>3, Ranges, OutcomesFit DEF WorkOff, TypesInv
  <1>5. CadTyped'
    BY <1>2, <1>3, <1>4, PutTyped DEF Fit, TypesInv
  <1>6. ClientTyped'
    <2>1. on \in Drawings
      BY <1>3, Ranges DEF TypesInv
    <2>2. told' \subseteq Drawings \X Handles
      BY <1>2, <1>4, <2>1 DEF Fit, TypesInv, ClientTyped
    <2> QED
      BY <1>2, <1>3, <2>1, <2>2 DEF WorkOff, Append1, TypesInv, ClientTyped
  <1> QED
    BY <1>5, <1>6 DEF TypesInv

LEMMA FileOpsTyped ==
    ASSUME TypesInv, NEW spec,
           \/ FileOpFails(spec) \/ save_drawing(spec) \/ get_open_drawings(spec)
           \/ new_drawing(spec) \/ switch_drawing(spec) \/ close_drawing(spec)
    PROVE  TypesInv'
  <1>1. CadTyped' /\ cached' \in Drawings \union {NoDrawing}
    <2>1. CASE FileOpFails(spec) \/ get_open_drawings(spec)
      BY <2>1, SameTyped DEF FileOpFails, get_open_drawings, TypesInv, ClientTyped
    <2>2. CASE save_drawing(spec)
      BY <2>2, SameTyped, Ranges DEF save_drawing, Bound, TypesInv
    <2>3. CASE new_drawing(spec)
      BY <2>3, AddDrawingTyped, Ranges DEF new_drawing, TypesInv
    <2>4. CASE switch_drawing(spec)
      <3>1. /\ UNCHANGED <<docs, past, undone, opened>>
            /\ front' \in {front, spec.drawing_name} /\ spec.drawing_name \in Open
            /\ cached' \in {front', cached}
        BY <2>4 DEF switch_drawing
      <3>2. front' \in Open
        BY <3>1, Ranges DEF TypesInv
      <3>3. CadTyped'
        BY <3>1, <3>2, Ranges DEF TypesInv, CadTyped, DrawingsTyped, FrontTyped, Open
      <3> QED
        BY <3>1, <3>2, <3>3, Ranges DEF TypesInv, ClientTyped
    <2>5. CASE close_drawing(spec)
      <3>1. CASE CloseCached /\ cached' \in {front', NoDrawing} /\ UNCHANGED opened
        <4>1. front' \in IF Open \ {cached} = {} THEN {NoDrawing} ELSE Open \ {cached}
          BY <3>1 DEF CloseCached, Remaining
        <4>2. CadTyped'
          BY <3>1, <4>1, LeftTyped DEF CloseCached, TypesInv
        <4> QED
          BY <3>1, <4>1, <4>2, Ranges DEF TypesInv
      <3>2. CASE /\ CanOpen /\ opened' = Fresh /\ front' = Fresh /\ cached' = Fresh
                 /\ docs' = Extended(Without(docs, {cached}), Fresh, EmptyDocument)
                 /\ past' = Extended(Without(past, {cached}), Fresh, EmptyDocument)
                 /\ undone' = undone \ {cached}
        <4>1. /\ Open' = Remaining \union {Fresh} /\ DOMAIN past' = Remaining \union {Fresh}
              /\ \A id \in Open' :
                  /\ docs'[id] = IF id = Fresh THEN EmptyDocument ELSE docs[id]
                  /\ past'[id] = IF id = Fresh THEN EmptyDocument ELSE past[id]
          BY <3>2 DEF Open, Extended, Without, Remaining, TypesInv, CadTyped, DrawingsTyped
        <4>2. undone' \subseteq undone /\ undone' \subseteq Remaining
          BY <3>2 DEF Remaining, TypesInv, CadTyped, FrontTyped
        <4>3. Remaining \in SUBSET Open
          BY DEF Remaining
        <4> QED
          BY <3>2, <4>1, <4>2, <4>3, NewTyped DEF TypesInv
      <3> QED
        BY <2>5, <3>1, <3>2 DEF close_drawing
    <2> QED
      BY <2>1, <2>2, <2>3, <2>4, <2>5
  <1>2. UNCHANGED <<clientVars, filedia, strict, call>>
    BY DEF FileOpFails, save_drawing, get_open_drawings, new_drawing, switch_drawing,
           close_drawing, FileOp, Append1
  <1> QED
    BY <1>1, <1>2 DEF TypesInv, ClientTyped, clientVars

LEMMA SessionOpsTyped ==
    ASSUME TypesInv, NEW spec,
           \/ SessionOpFails(spec) \/ _connect(spec) \/ _check_running(spec)
           \/ _disconnect(spec) \/ _status(spec) \/ _screenshot(spec)
           \/ export_view(spec) \/ undo_redo(spec)
    PROVE  TypesInv'
  <1>1. CadTyped' /\ cached' \in Drawings \union {NoDrawing}
    <2>1. CASE SessionOpFails(spec) \/ _disconnect(spec) \/ _status(spec)
      BY <2>1, SameTyped DEF SessionOpFails, _disconnect, _status, TypesInv, ClientTyped
    <2>2. CASE _connect(spec) \/ _screenshot(spec) \/ export_view(spec)
      BY <2>2, GetAdapterTyped DEF _connect, _screenshot, export_view
    <2>3. CASE _check_running(spec)
      BY <2>3, SameTyped, AddDrawingTyped, Ranges DEF _check_running, TypesInv, ClientTyped
    <2>4. CASE undo_redo(spec)
      <3>1. front \in Open /\ cached' \in {cached, front}
        BY <2>4 DEF undo_redo, TypesInv, CadTyped, FrontTyped
      <3>2. CadTyped'
        BY <2>4, <3>1, SwapTyped, SameTyped DEF undo_redo, TypesInv
      <3> QED
        BY <3>1, <3>2, Ranges DEF TypesInv, ClientTyped
    <2> QED
      BY <2>1, <2>2, <2>3, <2>4
  <1>2. UNCHANGED <<clientVars, strict, call>> /\ filedia' \in BOOLEAN
    BY DEF SessionOpFails, _connect, _check_running, _disconnect, _status, _screenshot,
           export_view, undo_redo, SessionOp, Append1, TypesInv, ClientTyped
  <1> QED
    BY <1>1, <1>2 DEF TypesInv, ClientTyped, clientVars

LEMMA ServerTyped ==
    ASSUME TypesInv, Server
    PROVE  TypesInv'
  <1>1. CASE EndCall
    BY <1>1, SameTyped DEF EndCall, TypesInv, ClientTyped, clientVars
  <1>2. ASSUME NEW tool \in Tools, BeginCall(tool) PROVE TypesInv'
    <2>1. CadTyped' /\ cached' \in Drawings \union {NoDrawing}
      BY <1>2, GetAdapterTyped, SameTyped DEF BeginCall, TypesInv, ClientTyped
    <2> QED
      BY <1>2, <2>1 DEF BeginCall, TypesInv, ClientTyped, clientVars
  <1>3. ASSUME NEW spec, Unreachable(spec) PROVE TypesInv'
    BY <1>3, SameTyped DEF Unreachable, Append1, TypesInv, ClientTyped, clientVars
  <1> QED
    BY <1>1, <1>2, <1>3, WorkOffTyped, FileOpsTyped, SessionOpsTyped DEF Server

LEMMA UserTyped ==
    ASSUME TypesInv, User
    PROVE  TypesInv'
  <1>1. UNCHANGED <<clientVars, cached, filedia, strict, call>>
    BY DEF User, UserDraws, UserErases, UserPicks, UserSwitches, UserCloses, UserOpens, Edit
  <1> SUFFICES CadTyped'
    BY <1>1 DEF TypesInv, ClientTyped, clientVars
  <1>2. CASE UserDraws
    <2> DEFINE d == docs[front]
               e == AddTo(d, NewObject(d, "line", "user"))
    <2>1. front \in Open /\ HasRoom(d) /\ Put(front, e)
      BY <1>2, Ranges DEF UserDraws, TypesInv, CadTyped, FrontTyped
    <2>2. Follows(d, e)
      BY <2>1, Ranges, NewObjectFits, AddToFollows DEF TypesInv, AllKinds
    <2> QED
      BY <2>1, <2>2, PutTyped DEF TypesInv
  <1>3. CASE UserErases
    BY <1>3, Ranges, ErasedFollows, PutTyped DEF UserErases, TypesInv, CadTyped, FrontTyped
  <1>4. CASE UserPicks
    <2>1. PICK h \in DOMAIN docs[front].objs : docs' = [docs EXCEPT ![front].pick = {h}]
      BY <1>4 DEF UserPicks
    <2>2. front \in Open /\ UNCHANGED <<past, undone, opened, front>>
      BY <1>4 DEF UserPicks, TypesInv, CadTyped, FrontTyped
    <2> DEFINE d == docs[front]
               e == [d EXCEPT !.pick = {h}]
    <2>3. IsDocument(d)
      BY <2>2, Ranges DEF TypesInv
    <2>4. /\ DOMAIN e = Fields /\ e.layers = d.layers /\ e.current = d.current
          /\ e.objs = d.objs /\ e.defs = d.defs /\ e.pick = {h} /\ e.next = d.next
      BY <2>3, DocumentParts DEF Fields
    <2>5. docs' = [docs EXCEPT ![front] = e]
      BY <2>1
    <2> HIDE DEF e, d
    <2>6. Follows(d, e)
      BY <2>1, <2>3, <2>4, ObjectsFollow, DocumentParts DEF ObjectsFit, AllPlaced, d
    <2>7. Open' = Open /\ \A k \in Open : IsDocument(past[k]) /\ Follows(past[k], docs'[k])
      BY <2>2, <2>5, <2>6, FollowsBoth DEF TypesInv, CadTyped, DrawingsTyped, Open, d
    <2> QED
      BY <2>2, <2>7 DEF TypesInv, CadTyped, DrawingsTyped, FrontTyped
  <1>5. CASE UserSwitches
    BY <1>5, Ranges DEF UserSwitches, TypesInv, CadTyped, DrawingsTyped, FrontTyped, Open
  <1>6. CASE UserCloses
    BY <1>6, LeftTyped DEF UserCloses, TypesInv
  <1>7. CASE UserOpens
    BY <1>7, AddDrawingTyped DEF UserOpens, TypesInv
  <1> QED
    BY <1>2, <1>3, <1>4, <1>5, <1>6, <1>7 DEF User

LEMMA TypesInvariant == Spec => []TypesInv
  <1>1. Init => TypesInv
    <2> SUFFICES ASSUME Init PROVE TypesInv
      OBVIOUS
    <2>1. /\ Open = {1} /\ DOMAIN past = {1} /\ docs[1] = InitialDrawing
          /\ past[1] = InitialDrawing
      BY DEF Init, Open
    <2>2. 1 \in Drawings
      BY ToolsAssumption DEF Drawings
    <2>3. DrawingsTyped
      BY <2>1, <2>2, FollowsSelf, ToolsAssumption DEF Init, DrawingsTyped
    <2>4. FrontTyped
      BY <2>1 DEF Init, FrontTyped, NoDrawing
    <2> QED
      BY <2>2, <2>3, <2>4 DEF Init, TypesInv, CadTyped, ClientTyped
  <1>2. TypesInv /\ [Next]_vars => TypesInv'
    <2>1. TypesInv /\ UNCHANGED vars => TypesInv'
      BY SameTyped DEF vars, TypesInv, ClientTyped, clientVars
    <2> QED
      BY <2>1, ServerTyped, UserTyped DEF Next
  <1> QED
    BY <1>1, <1>2, PTL DEF Spec

\* In every drawing that is open the objects, layers and block definitions are
\* well formed, with every object and the current layer on a layer there is,
\* whichever names and colours the tools are called with, whatever raises below
\* them, and through undo and redo; some drawing is in front when one is open.
THEOREM ToolsTypeCorrect == Spec => []TypeOK
  <1>1. TypesInv => TypeOK
    BY DEF TypesInv, CadTyped, DrawingsTyped, FrontTyped, ClientTyped, Follows, TypeOK
  <1> QED
    BY <1>1, TypesInvariant, PTL
=============================================================================

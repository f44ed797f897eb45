--------------------------- MODULE EntityActions --------------------------
(***************************************************************************)
(* manage_entities and the selection, manipulation and entity methods of   *)
(* the adapter it calls.                                                   *)
(***************************************************************************)
EXTENDS CadDocument

\* The handles select finds: an object whose property cannot be read is passed
\* over.  The named selection set it leaves in the drawing is not modelled.
_select_entities_generic(d, hs) == {Done(d, some) : some \in SUBSET hs}

select_by_layer(d, value) == _select_entities_generic(d, OnLayer(d, value))
select_by_color(d, value) ==
    _select_entities_generic(d,
        {h \in DOMAIN d.objs : d.objs[h].color = _get_color_index(value)})
select_by_type(d, value) ==
    _select_entities_generic(d, {h \in DOMAIN d.objs : d.objs[h].kind = value})

select(d, by, value) ==
    CASE by = "layer" -> select_by_layer(d, value)
      [] by = "color" -> select_by_color(d, value)
      [] by = "type"  -> select_by_type(d, value)
      [] OTHER        -> {Failed(d)}

\* Move, Rotate and ScaleEntity change the shape or place of an object.
Reshaped(d) == [h \in DOMAIN d.objs |-> [d.objs[h] EXCEPT !.shape = 1 - @]]

move_entities(d, handles)   == ForSome(d, handles, Reshaped(d))
rotate_entities(d, handles) == ForSome(d, handles, Reshaped(d))
scale_entities(d, handles)  == ForSome(d, handles, Reshaped(d))

\* An unknown name of a colour is white.
change_entity_color(d, handles, color) ==
    ForSome(d, handles, With(d, "color", _get_color_index(color)))

\* Slip: the objects are put on the layer without looking whether there is one.
change_entity_layer_NoAdd(d, handles, layer) ==
    {Failed(d)} \union
    ForSome(d, handles, With(d, "layer", layer))

\* The layer is added when it is missing, whether or not an object follows;
\* AutoCAD adds none with an illegal name.
change_entity_layer(d, handles, layer) ==
    {Failed(d)} \union
    (IF layer \notin LayerNames THEN {}
     ELSE ForSome(AddLayer(d, layer), handles, With(d, "layer", layer)))

set_entities_color_bylayer(d, handles) ==
    ForSome(d, handles, With(d, "color", "bylayer"))

delete_entity(d, h) ==
    IF h \in DOMAIN d.objs THEN {Failed(d), Done(Erased(d, {h}), {})} ELSE {Failed(d)}

\* The tool deletes handle by handle and succeeds when one was deleted.
delete_entities(d, handles) ==
    {Failed(d)} \union
    {Done(Erased(d, some), {}) : some \in
        (SUBSET {h \in handles : \E o \in delete_entity(d, h) : o.ok}) \ {{}}}

\* The selection set is filled and the COPY command sent: no change here.  One
\* handle that is not found makes it False.
copy_entities(d, handles) ==
    {Failed(d)} \union (IF handles \subseteq DOMAIN d.objs THEN {Done(d, {})} ELSE {})

\* The clipboard may hold anything; the tool says success whether or not an
\* object was pasted and names no handle.
paste_entities(d) ==
    {Done(d, {})} \union
    (IF HasRoom(d)
     THEN {Done(AddTo(d, NewObject(d, kind, "server")), {}) : kind \in Kinds}
     ELSE {})

ENTITY_DISPATCH ==
    [select            |-> {"by", "value"},
     move              |-> {"handles", "offset_x", "offset_y"},
     rotate            |-> {"handles", "center_x", "center_y", "angle"},
     scale             |-> {"handles", "center_x", "center_y", "scale_factor"},
     set_color         |-> {"handles", "color"},
     set_layer         |-> {"handles", "layer_name"},
     set_color_bylayer |-> {"handles"},
     copy              |-> {"handles"},
     paste             |-> {"base_point"},
     delete            |-> {"handles"}]

EntityOutcomes(spec, d) ==
    CASE spec.action = "select"            -> select(d, spec.by, spec.value)
      [] spec.action = "move"   ->
            Unless(~MoveEntityRequest(spec), d, move_entities(d, spec.handles))
      [] spec.action = "rotate" ->
            Unless(~RotateEntityRequest(spec), d, rotate_entities(d, spec.handles))
      [] spec.action = "scale"  ->
            Unless(~ScaleEntityRequest(spec), d, scale_entities(d, spec.handles))
      [] spec.action = "set_color"         -> change_entity_color(d, spec.handles, spec.color)
      [] spec.action = "set_layer"         -> change_entity_layer(d, spec.handles, spec.layer_name)
      [] spec.action = "set_color_bylayer" -> set_entities_color_bylayer(d, spec.handles)
      [] spec.action = "copy"              -> copy_entities(d, spec.handles)
      [] spec.action = "paste"             ->
            Unless(Len(spec.base_point) < 2, d, paste_entities(d))
      [] spec.action = "delete"            -> delete_entities(d, spec.handles)

\* One spec of a manage_entities call.
manage_entities(d, spec, allowed) ==
    IF Served(ENTITY_DISPATCH, spec) /\ allowed THEN EntityOutcomes(spec, d) ELSE {Failed(d)}

\* What a result that says success claims of the drawing: of the named objects
\* one at least is as the operation leaves it.
EntityClaim(spec, before, d) ==
    CASE spec.action \in {"move", "rotate", "scale"} ->
            \E h \in spec.handles \intersect DOMAIN d.objs :
                d.objs[h].shape # before.objs[h].shape
      [] spec.action = "set_color" ->
            \E h \in spec.handles \intersect DOMAIN d.objs : 
                d.objs[h].color = _get_color_index(spec.color)
      [] spec.action = "set_layer" ->
            OnLayer(d, spec.layer_name) \intersect spec.handles # {}
      [] spec.action = "delete" ->
            \E h \in spec.handles \intersect DOMAIN before.objs : h \notin DOMAIN d.objs
      [] OTHER -> TRUE
=============================================================================

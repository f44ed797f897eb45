--------------------------- MODULE LayerActions ---------------------------
(***************************************************************************)
(* manage_layers and the layer methods of the adapter it calls: for each   *)
(* action the outcomes it can have on a drawing.                           *)
(***************************************************************************)
EXTENDS CadDocument

\* Layers.Add, then colour, line weight and linetype: a colour that a layer
\* cannot have, or a linetype that cannot be loaded, makes it False when the
\* layer is there already.
create_layer(d, name, color) ==
    LET added   == AddLayer(d, name)
        colored == [added EXCEPT !.layers[name].color = color]
    IN  IF color = "bylayer" THEN {Failed(d), Failed(added)}
        ELSE Attempt(<<d, added, colored, colored>>)

\* AutoCAD refuses a name that is taken or illegal; layer "0" is refused here.
rename_layer(d, old, new) ==
    IF \/ old = "0" \/ old \notin DOMAIN d.layers
       \/ new \in DOMAIN d.layers \/ new \notin LayerNames
    THEN {Failed(d)}
    ELSE Attempt(<<d,
            [d EXCEPT !.layers = Extended(Without(@, {old}), new, d.layers[old]),
                      !.current = IF @ = old THEN new ELSE @,
                      !.objs = [h \in DOMAIN @ |->
                          IF @[h].layer = old THEN [@[h] EXCEPT !.layer = new] ELSE @[h]]]>>)

\* AutoCAD deletes no layer that is current or in use.
delete_layer(d, name) ==
    IF \/ name = "0" \/ name \notin DOMAIN d.layers
       \/ name = d.current \/ OnLayer(d, name) # {}
    THEN {Failed(d)}
    ELSE Attempt(<<d, [d EXCEPT !.layers = Without(@, {name})]>>)

\* turn_layer_on and turn_layer_off thaw and freeze; the current layer cannot
\* be frozen.  The tool goes through the names and succeeds when all did.
Freezable(d, name, frozen) ==
    name \in DOMAIN d.layers /\ (frozen => name # d.current)

turn_layers(d, names, frozen) ==
    {LET after == [d EXCEPT !.layers = [n \in DOMAIN @ |->
                      IF n \in some THEN [@[n] EXCEPT !.frozen = frozen] ELSE @[n]]]
     IN  IF some = names THEN Done(after, {}) ELSE Failed(after)
        : some \in SUBSET {n \in names : Freezable(d, n, frozen)}}

\* bylayer is no colour of a layer, and an unknown name of a colour is white.
set_layer_color(d, name, color) ==
    IF name \notin DOMAIN d.layers \/ color = "bylayer"
    THEN {Failed(d)}
    ELSE Attempt(<<d, [d EXCEPT !.layers[name].color = _get_color_index(color)]>>)

\* list, is_on and info answer with success whatever they could read.
LayerQuery(d) == {Done(d, {})}

LAYER_DISPATCH ==
    [create    |-> {"name"},
     rename    |-> {"old_name", "new_name"},
     delete    |-> {"name"},
     turn_on   |-> {"names"},
     turn_off  |-> {"names"},
     set_color |-> {"name", "color"},
     list      |-> {},
     is_on     |-> {"name"},
     info      |-> {}]

LayerOutcomes(spec, d) ==
    CASE spec.action = "create"    ->
            Unless(~CreateLayerRequest(spec), d,
                   create_layer(d, spec.name, Get(spec, "color", "white")))
      [] spec.action = "rename"    -> rename_layer(d, spec.old_name, spec.new_name)
      [] spec.action = "delete"    -> delete_layer(d, spec.name)
      [] spec.action = "turn_on"   -> turn_layers(d, spec.names, FALSE)
      [] spec.action = "turn_off"  -> turn_layers(d, spec.names, TRUE)
      [] spec.action = "set_color" -> set_layer_color(d, spec.name, spec.color)
      [] OTHER                     -> LayerQuery(d)

\* One spec of a manage_layers call.
manage_layers(d, spec, allowed) ==
    IF Served(LAYER_DISPATCH, spec) /\ allowed THEN LayerOutcomes(spec, d) ELSE {Failed(d)}

\* What a result that says success claims of the drawing.
LayerClaim(spec, d) ==
    CASE spec.action = "create"    -> /\ spec.name \in DOMAIN d.layers
                                      /\ d.layers[spec.name].color = Get(spec, "color", "white")
      [] spec.action = "rename"    -> /\ spec.new_name \in DOMAIN d.layers
                                      /\ spec.old_name \notin DOMAIN d.layers
      [] spec.action = "delete"    -> spec.name \notin DOMAIN d.layers
      [] spec.action \in {"turn_on", "turn_off"} ->
            \A n \in spec.names : /\ n \in DOMAIN d.layers
                                  /\ d.layers[n].frozen = (spec.action = "turn_off")
      [] spec.action = "set_color" -> d.layers[spec.name].color = _get_color_index(spec.color)
      [] OTHER                     -> TRUE
=============================================================================

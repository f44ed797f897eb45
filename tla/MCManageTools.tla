--------------------------- MODULE MCManageTools ---------------------------
(***************************************************************************)
(* Values for the legacy tools: a drawing with a line of the person, an    *)
(* inserted block and its definition, and for each tool the specs whose    *)
(* handling differs.                                                       *)
(***************************************************************************)
EXTENDS ManageTools

MCLayerNames == {"0", "walls", "AI_PREVIEW_OUTLINE"}
MCColors == {"white", "red"}
MCKinds == {"line", "insert"}
MCPreview == {"AI_PREVIEW_OUTLINE"}

MCInitial ==
    LET line   == AddTo(EmptyDocument, NewObject(EmptyDocument, "line", "user"))
        door   == AddTo(line, NewObject(EmptyDocument, "insert", "user"))
        walls  == AddLayer(door, "walls")
    IN  [walls EXCEPT !.objs[1].layer = "walls", !.defs = "door" :> {"line"}]

Incomplete == {[name |-> "walls"], [action |-> "explode"]}

MCSpecs ==
    [draw_entities   |-> {[action |-> "line", start |-> <<0, 0>>, end |-> <<1, 0>>, layer |-> "walls"],
                          [action |-> "circle", center |-> <<0, 0>>, radius |-> 0],
                          [action |-> "arc", center |-> <<0, 0>>]},
     manage_entities |-> {[action |-> "move", handles |-> {1, 2}, offset_x |-> 1, offset_y |-> 0],
                          [action |-> "scale", handles |-> {1}, center_x |-> 0, center_y |-> 0,
                           scale_factor |-> 0],
                          [action |-> "set_layer", handles |-> {1, 3},
                           layer_name |-> "AI_PREVIEW_OUTLINE"],
                          [action |-> "delete", handles |-> {1, 2}],
                          [action |-> "paste", base_point |-> <<0, 0>>],
                          [action |-> "select", by |-> "layer", value |-> "walls"]},
     manage_layers   |-> {[action |-> "create", name |-> "AI_PREVIEW_OUTLINE", color |-> "red"],
                          [action |-> "create", name |-> "walls", color |-> "red"],
                          [action |-> "rename", old_name |-> "walls",
                           new_name |-> "AI_PREVIEW_OUTLINE"],
                          [action |-> "rename", old_name |-> "walls", new_name |-> "a|b"],
                          [action |-> "delete", name |-> "walls"],
                          [action |-> "turn_off", names |-> {"walls", "AI_PREVIEW_OUTLINE"}]}
                         \union Incomplete,
     manage_blocks   |-> {[action |-> "create", block_name |-> "window"],
                          [action |-> "create", block_name |-> "a|b", entity_handles |-> {1}],
                          [action |-> "create", block_name |-> "window", entity_handles |-> {1, 3}],
                          [action |-> "insert", block_name |-> "door", insertion_point |-> <<0, 0>>,
                           attributes |-> {"TAG"}],
                          [action |-> "set_attrs", handle |-> 2, attributes |-> {"TAG"}],
                          [action |-> "info", block_name |-> "door", include |-> "both"]},
     manage_files    |-> {[action |-> "save"], [action |-> "new"], [action |-> "close"],
                          [action |-> "list"], [action |-> "switch", drawing_name |-> 1],
                          [action |-> "switch", drawing_name |-> 2]},
     manage_session  |-> {[action |-> a] : a \in
                             {"connect", "disconnect", "status", "check_running", "undo", "redo",
                              "screenshot", "export_view"}}]

MCTools == DOMAIN MCSpecs
=============================================================================

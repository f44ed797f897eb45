--------------------------- MODULE BlockActions ---------------------------
(***************************************************************************)
(* manage_blocks and the block methods of the adapter it calls.            *)
(***************************************************************************)
EXTENDS DrawActions

KindsOf(d, hs) == {d.objs[h].kind : h \in hs}

\* The definition is added first and filled afterwards: when none of the
\* handles is found, or CopyObjects fails, an empty one stays.  AutoCAD refuses
\* an illegal name.
create_block_from_entities(d, name, handles) ==
    IF name \in DOMAIN d.defs \/ name \notin BlockNames THEN {Failed(d)}
    ELSE LET added == [d EXCEPT !.defs = Extended(@, name, {})]
         IN  {Failed(d), Failed(added)} \union
             {Done([added EXCEPT !.defs[name] = KindsOf(d, some)], {}) :
                 some \in (SUBSET (handles \intersect DOMAIN d.objs)) \ {{}}}

\* The picked objects are read before the definition is added.
create_block_from_selection(d, name) ==
    IF name \in DOMAIN d.defs \/ name \notin BlockNames \/ d.pick = {} THEN {Failed(d)}
    ELSE LET added == [d EXCEPT !.defs = Extended(@, name, {})]
         IN  Attempt(<<d, added, [added EXCEPT !.defs[name] = KindsOf(d, d.pick)]>>)

\* Attributes are set one after the other and failures only logged.
insert_block(d, spec) ==
    IF \/ spec.block_name \notin DOMAIN d.defs \/ ~HasRoom(d)
       \/ Len(parse_coordinate(spec.insertion_point)) < 2
    THEN {Failed(d)}
    ELSE LET h    == d.next
             made == AddTo(d, NewObject(d, "insert", "server"))
         IN  {Failed(d)} \union
             UNION {_finalize_entity(m, h, spec) :
                 m \in {made, [made EXCEPT !.objs[h].text =
                                  IF Get(spec, "attributes", {}) = {} THEN @ ELSE "set"]}}

\* False when the object has no attribute of that name.
set_block_attributes(d, handle, attributes) ==
    IF \/ handle \notin DOMAIN d.objs
       \/ d.objs[handle].kind # "insert" \/ attributes = {}
    THEN {Failed(d)}
    ELSE LET set == [d EXCEPT !.objs[handle].text = "set"]
         IN  {Failed(d), Failed(set), Done(set, {})}

\* What cannot be read comes back empty, with success.
list_blocks(d) == {Done(d, {})}
get_block_info(d) == {Done(d, {})}
get_block_attributes(d) == {Done(d, {})}

\* A reference that cannot be read is passed over.
get_block_references(d) ==
    {Done(d, some) : some \in SUBSET {h \in DOMAIN d.objs : d.objs[h].kind = "insert"}}

block_info(d, spec) ==
    CASE Get(spec, "include", "info") = "info" -> get_block_info(d)
      [] Get(spec, "include", "info") \in {"references", "both"} -> get_block_references(d)
      [] OTHER -> {Failed(d)}

BLOCK_DISPATCH ==
    [create    |-> {"block_name"},
     insert    |-> {"block_name", "insertion_point"},
     list      |-> {},
     info      |-> {"block_name"},
     get_attrs |-> {"handle"},
     set_attrs |-> {"handle", "attributes"}]

BlockOutcomes(spec, d) ==
    CASE spec.action = "create" ->
            IF "entity_handles" \in DOMAIN spec
            THEN create_block_from_entities(d, spec.block_name, spec.entity_handles)
            ELSE create_block_from_selection(d, spec.block_name)
      [] spec.action = "insert"    -> insert_block(d, spec)
      [] spec.action = "set_attrs" -> set_block_attributes(d, spec.handle, spec.attributes)
      [] spec.action = "list"      -> list_blocks(d)
      [] spec.action = "get_attrs" -> get_block_attributes(d)
      [] spec.action = "info"      -> block_info(d, spec)

\* One spec of a manage_blocks call.
manage_blocks(d, spec, allowed) ==
    IF Served(BLOCK_DISPATCH, spec) /\ allowed THEN BlockOutcomes(spec, d) ELSE {Failed(d)}

\* What a result that says success claims of the drawing.
BlockClaim(spec, before, d) ==
    CASE spec.action = "create" -> /\ spec.block_name \in DOMAIN d.defs
                                   /\ d.defs[spec.block_name] # {}
                                   /\ spec.block_name \notin DOMAIN before.defs
      [] spec.action = "insert" -> d.next = before.next + 1
      [] spec.action = "set_attrs" -> d.objs[spec.handle].text = "set"
      [] OTHER -> TRUE
=============================================================================

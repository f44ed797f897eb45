---------------------------- MODULE ManageTools ----------------------------
(***************************************************************************)
(* The legacy batch tools (draw_entities, manage_entities, manage_layers,  *)
(* manage_blocks, manage_files, manage_session) on the drawings that are   *)
(* open.  A call goes through its specs one after the other, and every     *)
(* spec has a result of its own; nothing depends on the specs still to     *)
(* come, so a batch is read as it is worked off.  Tools exclude each other *)
(* by the CAD gate; a person works in the drawings all the time.           *)
(***************************************************************************)
EXTENDS LayerActions, EntityActions, BlockActions

CONSTANTS Tools,          \* the tools that are called
          Specs,          \* for each tool the specs of its batches
          InitialDrawing, \* what the first drawing holds
          MaxDrawings,    \* bound: drawings ever open
          MaxOps,         \* bound: specs worked off
          MaxEdits        \* bound: edits by the person

ASSUME ToolsAssumption ==
    /\ DOMAIN Specs = Tools
    /\ IsDocument(InitialDrawing)
    /\ \A h \in DOMAIN InitialDrawing.objs : InitialDrawing.objs[h].by = "user"
    /\ MaxDrawings \in Nat \ {0} /\ MaxOps \in Nat /\ MaxEdits \in Nat

Drawings == 1 .. MaxDrawings
NoDrawing == 0
Idle == "idle"
NoResult == [ok |-> FALSE]

VARIABLES docs,      \* the open drawings: id -> document
          past,      \* what an undo brings back in each drawing
          undone,    \* the drawings whose last command was undone
          opened,    \* drawings opened so far
          front,     \* Application.ActiveDocument, NoDrawing when none is open
          cached,    \* self.document of the adapter, NoDrawing for None
          filedia,   \* whether file commands ask with a dialog
          strict,    \* MULTICAD_STRICT_GUARDED_WRITES
          call,      \* the tool that holds the gate, or Idle
          last,      \* the result that was just appended
          told,      \* <<drawing, handle>> a result has named
          doubtful,  \* drawings in which something may have been made unnamed
          spent, edits

cadVars == <<docs, past, undone, opened, front>>
clientVars == <<told, doubtful>>
vars == <<cadVars, clientVars, cached, filedia, strict, call, last, spent, edits>>

Open == DOMAIN docs
CanOpen == opened < MaxDrawings
Fresh == opened + 1

TypeOK ==
    /\ Open \subseteq 1 .. opened /\ opened \in Drawings
    /\ \A id \in Open : IsDocument(docs[id])
    /\ DOMAIN past = Open /\ undone \subseteq Open
    /\ front \in Open \union {NoDrawing}
    /\ (front = NoDrawing) = (Open = {})
    /\ cached \in Drawings \union {NoDrawing}
    /\ {filedia, strict} \subseteq BOOLEAN
    /\ call \in Tools \union {Idle}
    /\ told \subseteq Drawings \X Handles
    /\ doubtful \subseteq Drawings

Init ==
    /\ docs = [id \in {1} |-> InitialDrawing] /\ past = docs /\ undone = {}
    /\ opened = 1 /\ front = 1 /\ cached = 1
    /\ filedia = TRUE /\ strict \in BOOLEAN
    /\ call = Idle /\ last = NoResult
    /\ told = {} /\ doubtful = {} /\ spent = 0 /\ edits = 0

-----------------------------------------------------------------------------
(* Strict mode and the dispatch tables.                                     *)

READ_ONLY_ACTIONS ==
    [manage_entities |-> {"select"},
     manage_layers   |-> {"list", "info", "is_on"},
     manage_files    |-> {"list", "switch"},
     manage_blocks   |-> {"list", "info", "get_attrs"},
     manage_session  |-> {"connect", "disconnect", "status", "list_supported",
                          "check_running", "zoom_extents", "screenshot", "export_view"}]

CONSTANT PREVIEW_LAYERS   \* the layers of the guarded workflow

\* Slip: creating a layer is let through whatever it is called.
assert_legacy_action_allowed_AnyLayer(tool, spec) ==
    \/ ~strict
    \/ tool = "manage_layers" /\ spec.action = "create"
    \/ tool \in DOMAIN READ_ONLY_ACTIONS /\ spec.action \in READ_ONLY_ACTIONS[tool]

\* A preview layer may be created, so that the guarded workflow finds it.
assert_legacy_action_allowed(tool, spec) ==
    \/ ~strict
    \/ /\ tool = "manage_layers" /\ spec.action = "create"
       /\ "name" \in DOMAIN spec /\ spec.name \in PREVIEW_LAYERS
    \/ tool \in DOMAIN READ_ONLY_ACTIONS /\ spec.action \in READ_ONLY_ACTIONS[tool]

FILE_DISPATCH == [save |-> {}, new |-> {}, close |-> {}, list |-> {},
                  switch |-> {"drawing_name"}]

SESSION_DISPATCH ==
    [action \in READ_ONLY_ACTIONS["manage_session"] \union {"undo", "redo", "open_dashboard"}
        |-> {}]

-----------------------------------------------------------------------------
(* A call.                                                                  *)

\* Documents.Add: the new drawing is in front.
AddDrawing ==
    /\ CanOpen
    /\ opened' = Fresh /\ front' = Fresh
    /\ docs' = Extended(docs, Fresh, EmptyDocument)
    /\ past' = Extended(past, Fresh, EmptyDocument)
    /\ UNCHANGED undone

\* get_adapter: a cached drawing that answers stays, else the adapter connects
\* to the drawing in front, or to one it adds when none is open.
get_adapter ==
    \/ cached \in Open /\ UNCHANGED <<cadVars, cached>>
    \/ cached \notin Open /\ Open # {} /\ cached' = front /\ UNCHANGED cadVars
    \/ Open = {} /\ AddDrawing /\ cached' = Fresh

\* draw_entities is refused as a whole in strict mode, and manage_session goes
\* without the decorator that gets the adapter first.
BeginCall(tool) ==
    /\ call = Idle /\ spent < MaxOps
    /\ tool = "draw_entities" => ~strict
    /\ call' = tool /\ last' = NoResult
    /\ IF tool = "manage_session" THEN UNCHANGED <<cadVars, cached>> ELSE get_adapter
    /\ UNCHANGED <<clientVars, filedia, strict, spent, edits>>

EndCall ==
    /\ call # Idle
    /\ call' = Idle /\ last' = NoResult
    /\ UNCHANGED <<cadVars, clientVars, cached, filedia, strict, spent, edits>>

\* A spec is worked off and its result appended.
Append1(spec, ok, on) ==
    /\ call # Idle /\ spent < MaxOps
    /\ spent' = spent + 1
    /\ last' = [ok |-> ok, spec |-> spec, on |-> on]
    /\ UNCHANGED <<call, strict, edits>>

\* A drawing after a command, with what an undo would bring back.
Put(id, d) ==
    /\ docs' = [docs EXCEPT ![id] = d]
    /\ past' = [past EXCEPT ![id] = IF d = docs[id] THEN @ ELSE docs[id]]
    /\ undone' = IF d = docs[id] THEN undone ELSE undone \ {id}
    /\ UNCHANGED <<opened, front>>

\* self.document after _get_document: None becomes the drawing in front, and
\* when the ping of the application fails the adapter connects again.
Bound == {cached, front} \intersect Open

\* These go to the drawing in front, everything else to the cached one.
InFront(spec) ==
    \/ call = "manage_blocks" /\ Get(spec, "action", "") = "create"
    \/ call = "manage_entities" /\ Get(spec, "action", "") = "paste"

Outcomes(spec, d) ==
    LET allowed == assert_legacy_action_allowed(call, spec)
    IN  CASE call = "draw_entities"   -> draw_entities(d, spec)
          [] call = "manage_entities" -> manage_entities(d, spec, allowed)
          [] call = "manage_layers"   -> manage_layers(d, spec, allowed)
          [] call = "manage_blocks"   -> manage_blocks(d, spec, allowed)

Works == {"draw_entities", "manage_entities", "manage_layers", "manage_blocks"}

\* Something may have been made that no result names.
MayHide(spec, ok) ==
    \/ call = "draw_entities" /\ ~ok
    \/ call = "manage_blocks" /\ Get(spec, "action", "") = "insert" /\ ~ok
    \/ call = "manage_entities" /\ Get(spec, "action", "") = "paste"

\* A spec on the drawing it gets to.
WorkOff(spec) ==
    /\ call \in Works
    /\ \E bound \in IF InFront(spec) /\ front \in Open THEN {cached, front} ELSE Bound :
        LET on == IF InFront(spec) THEN front ELSE bound
        IN  \E o \in Outcomes(spec, docs[on]) :
            /\ Put(on, o.doc)
            /\ cached' = bound
            /\ told' = told \union {<<on, h>> : h \in o.handles}
            /\ doubtful' = IF MayHide(spec, o.ok) THEN doubtful \union {on} ELSE doubtful
            /\ Append1(spec, o.ok, on)
    /\ UNCHANGED filedia

\* The results of these say success when the exception was caught below them.
AnswersAnyway == {"list", "is_on", "info", "get_attrs", "select", "paste"}

\* No drawing is open, or the cached one was closed under the adapter.
Unreachable(spec) ==
    /\ call \in Works /\ cached \notin Open
    /\ \E ok \in BOOLEAN :
        /\ ok => /\ Get(spec, "action", "") \in AnswersAnyway
                 /\ assert_legacy_action_allowed(call, spec)
        /\ Append1(spec, ok, NoDrawing)
    /\ UNCHANGED <<cadVars, clientVars, cached, filedia>>

-----------------------------------------------------------------------------
(* manage_files.                                                            *)

FileOp(action, spec) ==
    /\ call = "manage_files" /\ Served(FILE_DISPATCH, spec) /\ spec.action = action
    /\ assert_legacy_action_allowed(call, spec)
    /\ UNCHANGED <<clientVars, filedia>>

\* Served, and answered with success whatever happens below.
Sure(table, spec, actions) ==
    /\ Served(table, spec) /\ spec.action \in actions
    /\ assert_legacy_action_allowed(call, spec)

\* What the tool refuses, and a method whose exception was caught.
FileOpFails(spec) ==
    /\ call = "manage_files" /\ ~Sure(FILE_DISPATCH, spec, {"list"})
    /\ Append1(spec, FALSE, NoDrawing)
    /\ UNCHANGED <<cadVars, clientVars, cached, filedia>>

\* SaveAs and the list change no drawing; what is on disk is not modelled.
save_drawing(spec) ==
    /\ FileOp("save", spec)
    /\ cached' \in Bound /\ Append1(spec, TRUE, NoDrawing)
    /\ UNCHANGED cadVars

get_open_drawings(spec) ==
    /\ FileOp("list", spec)
    /\ Append1(spec, TRUE, NoDrawing)
    /\ UNCHANGED <<cadVars, cached>>

\* The new drawing is taken over twice: as what Add returns, then as the
\* drawing in front, which another one may be by then.
new_drawing(spec) ==
    /\ FileOp("new", spec)
    /\ AddDrawing
    /\ cached' \in {Fresh} \union ({front} \ {NoDrawing})
    /\ Append1(spec, TRUE, cached')

\* Slip: the drawing that was asked for counts as the one in front.
Activated_Trusted(id, requested) == TRUE

\* Activate may return without switching: only a drawing that is observed in
\* front is cached.
Activated(id, requested) == id = requested

switch_drawing(spec) ==
    /\ FileOp("switch", spec)
    /\ spec.drawing_name \in Open
    /\ front' \in {front, spec.drawing_name}
    /\ IF Activated(front', spec.drawing_name)
       THEN cached' = front' /\ Append1(spec, TRUE, front')
       ELSE UNCHANGED cached /\ Append1(spec, FALSE, NoDrawing)
    /\ UNCHANGED <<docs, past, undone, opened>>

\* The cached drawing is closed, and one that is left comes to the front.
Remaining == Open \ {cached}
CloseCached ==
    /\ docs' = Without(docs, {cached}) /\ past' = Without(past, {cached})
    /\ undone' = undone \ {cached}
    /\ front' \in IF Remaining = {} THEN {NoDrawing}
                  ELSE IF front \in Remaining THEN {front} ELSE Remaining

\* Then the adapter takes the drawing in front; when there is none, or it
\* cannot be read, a drawing is added, and None kept when that fails.
close_drawing(spec) ==
    /\ FileOp("close", spec)
    /\ cached \in Open
    /\ \/ CloseCached /\ cached' \in {front', NoDrawing} /\ UNCHANGED opened
       \/ /\ CanOpen
          /\ docs' = Extended(Without(docs, {cached}), Fresh, EmptyDocument)
          /\ past' = Extended(Without(past, {cached}), Fresh, EmptyDocument)
          /\ undone' = undone \ {cached}
          /\ opened' = Fresh /\ front' = Fresh /\ cached' = Fresh
    /\ Append1(spec, TRUE, NoDrawing)

-----------------------------------------------------------------------------
(* manage_session.                                                          *)

SessionOp(actions, spec) ==
    /\ call = "manage_session" /\ Served(SESSION_DISPATCH, spec) /\ spec.action \in actions
    /\ assert_legacy_action_allowed(call, spec)
    /\ UNCHANGED clientVars

\* What the tool refuses, and an adapter that cannot be reached.
SessionOpFails(spec) ==
    /\ call = "manage_session"
    /\ ~Sure(SESSION_DISPATCH, spec, {"status", "list_supported", "check_running"})
    /\ Append1(spec, FALSE, NoDrawing)
    /\ UNCHANGED <<cadVars, clientVars, cached, filedia>>

_connect(spec) ==
    /\ SessionOp({"connect"}, spec)
    /\ get_adapter /\ Append1(spec, TRUE, NoDrawing)
    /\ UNCHANGED filedia

\* A new adapter connects to what runs, and replaces the one there was; when
\* nothing runs, nothing is replaced, and the answer is a success as well.
_check_running(spec) ==
    /\ SessionOp({"check_running"}, spec)
    /\ \/ Open # {} /\ cached' = front /\ UNCHANGED cadVars
       \/ Open = {} /\ AddDrawing /\ cached' = Fresh
       \/ UNCHANGED <<cadVars, cached>>
    /\ Append1(spec, TRUE, NoDrawing)
    /\ UNCHANGED filedia

_disconnect(spec) ==
    /\ SessionOp({"disconnect"}, spec)
    /\ cached' = NoDrawing /\ Append1(spec, TRUE, NoDrawing)
    /\ UNCHANGED <<cadVars, filedia>>

\* What changes nothing: answers from the process, and pictures of the window.
_status(spec) ==
    /\ SessionOp({"status", "list_supported", "open_dashboard"}, spec)
    /\ Append1(spec, TRUE, NoDrawing)
    /\ UNCHANGED <<cadVars, cached, filedia>>

_screenshot(spec) ==
    /\ SessionOp({"zoom_extents", "screenshot"}, spec)
    /\ get_adapter
    /\ \E ok \in BOOLEAN : Append1(spec, ok, NoDrawing)
    /\ UNCHANGED filedia

\* FILEDIA goes to 0 and back to 1 on the straight path: an exception between
\* the two leaves it at 0.
export_view(spec) ==
    /\ SessionOp({"export_view"}, spec)
    /\ get_adapter
    /\ \E ok \in BOOLEAN :
        /\ filedia' \in IF ok THEN {TRUE} ELSE {filedia, FALSE, TRUE}
        /\ Append1(spec, ok, NoDrawing)

\* _undo takes back the last command in the drawing in front, whoever gave
\* it, and _redo brings it again; both answer with success when the command
\* could be sent, also when there was nothing to take back.
Swap(id) ==
    /\ docs' = [docs EXCEPT ![id] = [past[id] EXCEPT !.next = docs[id].next]]
    /\ past' = [past EXCEPT ![id] = docs[id]]
    /\ undone' = IF id \in undone THEN undone \ {id} ELSE undone \union {id}

undo_redo(spec) ==
    /\ SessionOp({"undo", "redo"}, spec)
    /\ front # NoDrawing /\ cached' = IF cached \in Open THEN cached ELSE front
    /\ IF (spec.action = "redo") = (front \in undone) /\ past[front] # docs[front]
       THEN Swap(front) /\ UNCHANGED <<opened, front>>
       ELSE UNCHANGED cadVars
    /\ Append1(spec, TRUE, front)
    /\ UNCHANGED filedia

-----------------------------------------------------------------------------
(* The person at the AutoCAD window.                                        *)

Edit ==
    /\ edits < MaxEdits /\ edits' = edits + 1
    /\ last' = NoResult
    /\ UNCHANGED <<clientVars, cached, filedia, strict, call, spent>>

UserDraws ==
    /\ Edit /\ front # NoDrawing /\ HasRoom(docs[front])
    /\ Put(front, AddTo(docs[front], NewObject(docs[front], "line", "user")))

UserErases ==
    /\ Edit /\ front # NoDrawing
    /\ \E h \in DOMAIN docs[front].objs : Put(front, Erased(docs[front], {h}))

UserPicks ==
    /\ Edit /\ front # NoDrawing
    /\ \E h \in DOMAIN docs[front].objs :
        docs' = [docs EXCEPT ![front].pick = {h}]
    /\ UNCHANGED <<past, undone, opened, front>>

UserSwitches ==
    /\ Edit /\ front' \in Open
    /\ UNCHANGED <<docs, past, undone, opened>>

UserCloses ==
    /\ Edit /\ front # NoDrawing
    /\ LET left == Open \ {front}
       IN  /\ docs' = Without(docs, {front}) /\ past' = Without(past, {front})
           /\ undone' = undone \ {front}
           /\ front' \in IF left = {} THEN {NoDrawing} ELSE left
    /\ UNCHANGED opened

UserOpens == Edit /\ AddDrawing

User ==
    \/ UserDraws \/ UserErases \/ UserPicks
    \/ UserSwitches \/ UserCloses \/ UserOpens

-----------------------------------------------------------------------------
Server ==
    \/ EndCall
    \/ \E tool \in Tools : BeginCall(tool)
    \/ /\ call # Idle
       /\ \E spec \in Specs[call] :
            \/ WorkOff(spec) \/ Unreachable(spec)
            \/ FileOpFails(spec) \/ save_drawing(spec) \/ get_open_drawings(spec)
            \/ new_drawing(spec) \/ switch_drawing(spec) \/ close_drawing(spec)
            \/ SessionOpFails(spec) \/ _connect(spec) \/ _check_running(spec)
            \/ _disconnect(spec) \/ _status(spec) \/ _screenshot(spec)
            \/ export_view(spec) \/ undo_redo(spec)

Next == Server \/ User

Spec == Init /\ [][Next]_vars

-----------------------------------------------------------------------------
(* Properties.                                                              *)

\* What strict mode protects in a drawing: everything but preview layers.
Guarded(d) ==
    [objs |-> d.objs, defs |-> d.defs,
     layers |-> [n \in DOMAIN d.layers \ PREVIEW_LAYERS |-> d.layers[n]]]

\* In strict mode no legacy tool, whatever it is called with and however its
\* calls end, changes an object, a block definition or a layer that is not a
\* preview layer, in any of the open drawings, and none is closed
\* (assert_legacy_action_allowed, the tools that ask it).
StrictKeepsDrawings ==
    [][strict /\ call # Idle /\ edits' = edits =>
        \A id \in Open : id \in DOMAIN docs' /\ Guarded(docs'[id]) = Guarded(docs[id])]_vars

\* An object that the server made and that no result has named is only to be
\* found where a draw or an insert reported a failure, or after a paste: the
\* handle of everything else was told, through undo and redo, and in whichever
\* drawing it went (_finalize_entity, the loops of the tools).
UntoldOnlyWhereDoubtful ==
    \A id \in Open : \A h \in DOMAIN docs[id].objs :
        docs[id].objs[h].by = "server" => <<id, h>> \in told \/ id \in doubtful

\* A result that says success is true of the drawing it was worked off on: the
\* layer is there with its colour, all the named layers are on or off, one of
\* the named objects at least is as asked for, the block definition is new and
\* not empty, the drawing that was asked for is in front and cached, and file
\* commands ask with a dialog again (the success fields of the handlers).
Claim(spec, on, on2) ==
    CASE call = "manage_layers"   -> LayerClaim(spec, on2)
      [] call = "manage_entities" -> EntityClaim(spec, on, on2)
      [] call = "manage_blocks"   -> BlockClaim(spec, on, on2)
      [] OTHER                    -> TRUE

SuccessIsTrue ==
    [][last'.ok /\ spent' # spent =>
        /\ call \in Works /\ last'.on # NoDrawing =>
              Claim(last'.spec, docs[last'.on], docs'[last'.on])
        /\ call = "manage_files" /\ last'.spec.action = "switch" =>
              front' = last'.spec.drawing_name /\ cached' = front'
        /\ call = "manage_session" /\ last'.spec.action = "export_view" => filedia']_vars
=============================================================================

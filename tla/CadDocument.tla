---------------------------- MODULE CadDocument ----------------------------
(***************************************************************************)
(* A drawing as the legacy tools see it through COM: its layers, its       *)
(* objects, its block definitions, what is picked, and the outcomes a      *)
(* sequence of COM calls can have.  Geometry is one bit that every change  *)
(* of shape or place flips; linetypes and line weights are left out.       *)
(***************************************************************************)
EXTENDS Requests, TLC

CONSTANTS BlockNames,   \* the legal names of block definitions
          Kinds,        \* kinds of objects on the clipboard, "insert" among them
          MaxObjects    \* bound: handles given out per drawing

ASSUME DocumentAssumption == "insert" \in Kinds /\ MaxObjects \in Nat

Handles == 1 .. MaxObjects

\* A layer that was just added, and an object that was just added to the
\* current layer, before anything is set.
NewLayer == [color |-> "white", frozen |-> FALSE]
NewObject(d, kind, by) ==
    [kind |-> kind, layer |-> d.current, color |-> "bylayer",
     shape |-> 0, text |-> "", by |-> by]

\* The kinds the drawing methods add, and what else there is.
AllKinds == Kinds \union {"line", "circle", "arc", "polyline", "text", "dimension",
                         "spline", "mleader", "table"}

LayerTable == [color : Colors, frozen : BOOLEAN]
Objects == [kind : AllKinds, layer : LayerNames, color : Colors \union {"bylayer"},
            shape : {0, 1}, text : {"", "set"}, by : {"user", "server"}]

IsDocument(d) ==
    /\ DOMAIN d = {"layers", "current", "objs", "defs", "pick", "next"}
    /\ DOMAIN d.layers \subseteq LayerNames
    /\ \A n \in DOMAIN d.layers : d.layers[n] \in LayerTable
    /\ DOMAIN d.objs \subseteq 1 .. (d.next - 1) /\ d.next \in 1 .. (MaxObjects + 1)
    /\ \A h \in DOMAIN d.objs : d.objs[h] \in Objects
    /\ DOMAIN d.defs \subseteq BlockNames
    /\ \A n \in DOMAIN d.defs : d.defs[n] \subseteq AllKinds
    /\ d.pick \subseteq DOMAIN d.objs
    \* every object is on a layer of its drawing, and so is the current layer
    /\ {d.objs[h].layer : h \in DOMAIN d.objs} \union {d.current} \subseteq DOMAIN d.layers

EmptyDocument ==
    [layers |-> [n \in {"0"} |-> NewLayer], current |-> "0", objs |-> <<>>, defs |-> <<>>,
     pick |-> {}, next |-> 1]

-----------------------------------------------------------------------------
(* What the calls of the object model do to a drawing.                      *)

Without(f, keys) == [k \in DOMAIN f \ keys |-> f[k]]
Extended(f, key, value) == [k \in DOMAIN f \union {key} |-> IF k = key THEN value ELSE f[k]]

HasRoom(d) == d.next <= MaxObjects

\* ModelSpace.Add...: a handle is never given twice in a drawing.
AddTo(d, object) ==
    [d EXCEPT !.objs = Extended(@, d.next, object), !.next = @ + 1]

\* Layers.Add returns the layer when there is one of that name.
AddLayer(d, name) ==
    IF name \in DOMAIN d.layers THEN d
    ELSE [d EXCEPT !.layers = Extended(@, name, NewLayer)]

\* Every object with a value of one of its properties, and the objects of hs
\* exchanged for what they become.
With(d, property, value) == [h \in DOMAIN d.objs |-> [d.objs[h] EXCEPT ![property] = value]]
Changed(d, hs, become) ==
    [d EXCEPT !.objs = [h \in DOMAIN @ |-> IF h \in hs THEN become[h] ELSE @[h]]]

Erased(d, hs) ==
    [d EXCEPT !.objs = Without(@, hs), !.pick = @ \ hs]

OnLayer(d, name) == {h \in DOMAIN d.objs : d.objs[h].layer = name}

-----------------------------------------------------------------------------
\* A spec that names an action of the table and has the fields it requires.
Served(table, spec) ==
    /\ "action" \in DOMAIN spec /\ spec.action \in DOMAIN table
    /\ table[spec.action] \subseteq DOMAIN spec

(* Outcomes: the drawing afterwards, whether the result says success, and   *)
(* the handles it names.                                                    *)

\* A name that is no colour is white.
_get_color_index(color) == IF ColorValidator(color) THEN color ELSE "white"

Done(d, handles) == [doc |-> d, ok |-> TRUE, handles |-> handles]
Failed(d) == [doc |-> d, ok |-> FALSE, handles |-> {}]

\* What is refused before the drawing is touched.
Unless(refused, d, outcomes) == IF refused THEN {Failed(d)} ELSE outcomes

\* A method that goes through the given stages of the drawing: a COM call
\* may raise at each of them, and what was done before stays done.
Attempt(stages) ==
    {Failed(stages[i]) : i \in 1 .. (Len(stages) - 1)}
        \union {Done(stages[Len(stages)], {})}

\* A loop over handles that goes on after the ones that fail and reports
\* success when one of them went through.
ForSome(d, hs, become) ==
    {Failed(d)} \union
    {Done(Changed(d, some, become), {}) :
        some \in (SUBSET (hs \intersect DOMAIN d.objs)) \ {{}}}
=============================================================================

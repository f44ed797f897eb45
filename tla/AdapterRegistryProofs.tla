----------------------- MODULE AdapterRegistryProofs -----------------------
(***************************************************************************)
(* For any number of adapters, threads and kinds of CAD: the releases of   *)
(* COM apartments match the initialisations, and get_adapter answers with  *)
(* a connected adapter or leaves nothing behind.                           *)
(***************************************************************************)
EXTENDS AdapterRegistry, FiniteSetTheorems, TLAPS

USE RegistryAssumption DEF None, Adapters

Hold == [app : {"none", "live", "stale"}, doc : BOOLEAN, com : BOOLEAN]
Held(t) == {a \in Adapters : local[a][t].com}

OpType == [at : Stages, name : {"get_adapter", "auto_detect_cad"}, thread : Threads,
           adapter : 0 .. made, only_if_running : BOOLEAN, left : Seq(Types),
           before : 0 .. made]

\* A call on its way: whom it works with, and that the adapters it has made and
\* not registered hold nothing on its thread.
CallInv ==
    /\ op \in OpType
    /\ op.at \in {"reconnect", "drop"} => registry # None
    /\ op.at = "trying" => op.before < made /\ op.left # <<>>
    /\ op.at = "returned" => op.adapter # None
    /\ op.at \in {"look", "reconnect", "drop", "detect", "trying"} => registry <= op.before
    /\ \A a \in (op.before + 1) .. made : a # registry => local[a][op.thread] = Nothing

OpInv == op = Idle \/ CallInv

\* The inductive invariant.
IInv == TypeOK /\ ApartmentsMatch /\ OpInv

-----------------------------------------------------------------------------
(* Apartments are counted.                                                  *)

LEMMA HeldFinite == \A t : IsFiniteSet(Held(t)) /\ Cardinality(Held(t)) \in Nat
  <1>1. IsFiniteSet(Adapters)
    BY FS_Interval
  <1>2. \A t : Held(t) \in SUBSET Adapters
    BY DEF Held
  <1> QED
    BY <1>1, <1>2, FS_Subset, FS_CardinalityType

\* What a step that lets one adapter go on one thread leaves.
LEMMA Released ==
    ASSUME TypeOK, ApartmentsMatch, NEW a \in Adapters, NEW t \in Threads,
           local' = [local EXCEPT ![a][t] = Nothing],
           apartment' = IF local[a][t].com THEN [apartment EXCEPT ![t] = @ - 1]
                        ELSE apartment
    PROVE  /\ local' \in [Adapters -> [Threads -> Hold]]
           /\ apartment' \in [Threads -> Nat]
           /\ ApartmentsMatch'
  <1>1. local' \in [Adapters -> [Threads -> Hold]]
    BY DEF TypeOK, Hold, Nothing
  <1>2. \A s \in Threads : Held(s)' = IF s = t THEN Held(s) \ {a} ELSE Held(s)
    BY DEF TypeOK, Held, Nothing
  <1>3. \A s \in Threads : apartment[s] = Cardinality(Held(s))
    BY DEF ApartmentsMatch, Held
  <1>4. Cardinality(Held(t) \ {a}) =
          IF local[a][t].com THEN Cardinality(Held(t)) - 1 ELSE Cardinality(Held(t))
    BY HeldFinite, FS_RemoveElement DEF Held
  <1>5. Cardinality(Held(t) \ {a}) \in Nat
    BY HeldFinite, FS_RemoveElement, FS_CardinalityType
  <1>6. apartment' \in [Threads -> Nat]
    BY <1>3, <1>4, <1>5 DEF TypeOK
  <1>7. \A s \in Threads : apartment'[s] = Cardinality(Held(s)')
    BY <1>2, <1>3, <1>4 DEF TypeOK
  <1>8. \A s \in Threads, b \in Adapters :
           local'[b][s].app # "none" => local'[b][s].com \/ s \in Foreign
    BY DEF TypeOK, ApartmentsMatch, Nothing
  <1> QED
    BY <1>1, <1>6, <1>7, <1>8 DEF ApartmentsMatch, Held

\* What a step that connects an adapter leaves.
LEMMA Acquired ==
    ASSUME TypeOK, ApartmentsMatch, NEW a \in Adapters, op.thread \in Threads, Connected(a)
    PROVE  /\ local' \in [Adapters -> [Threads -> Hold]]
           /\ apartment' \in [Threads -> Nat]
           /\ ApartmentsMatch'
  <1> DEFINE t == op.thread
  <1>1. local' \in [Adapters -> [Threads -> Hold]]
    BY DEF TypeOK, Hold, Connected, Holds, Mine, Initialises
  <1>2. \A s \in Threads :
           Held(s)' = IF s = t /\ Initialises(a) THEN Held(s) \union {a} ELSE Held(s)
    BY DEF TypeOK, Held, Connected, Holds, Mine, Initialises
  <1>3. \A s \in Threads : apartment[s] = Cardinality(Held(s))
    BY DEF ApartmentsMatch, Held
  <1>4. Initialises(a) => Cardinality(Held(t) \union {a}) = Cardinality(Held(t)) + 1
    BY HeldFinite, FS_AddElement DEF Held, Initialises, Mine
  <1>5. apartment' \in [Threads -> Nat]
    BY DEF TypeOK, Connected
  <1>6. \A s \in Threads : apartment'[s] = Cardinality(Held(s)')
    BY <1>2, <1>3, <1>4 DEF TypeOK, Connected
  <1>7. \A s \in Threads, b \in Adapters :
           local'[b][s].app # "none" => local'[b][s].com \/ s \in Foreign
    BY DEF TypeOK, ApartmentsMatch, Connected, Holds, Mine, Initialises
  <1> QED
    BY <1>1, <1>5, <1>6, <1>7 DEF ApartmentsMatch, Held

-----------------------------------------------------------------------------
(* The adapters of a call.                                                  *)

LEMMA Going == ASSUME IInv, op.at # "idle" PROVE CallInv
  BY DEF IInv, OpInv, Idle

\* The types that a step which makes no adapter has to see to.
LEMMA TypesFrom ==
    ASSUME TypeOK, UNCHANGED <<made, kind>>, running' \subseteq Types,
           local' \in [Adapters -> [Threads -> Hold]],
           \A a \in Adapters : a > made => local'[a] = local[a],
           apartment' \in [Threads -> Nat], registry' \in 0 .. made,
           op' = Idle \/ op' \in OpType'
    PROVE  TypeOK'
  BY DEF TypeOK, Hold, OpType, Idle

\* A step that goes to another place of the same call, on the adapters of
\* which it changes at most the one that was there before.
LEMMA CallFrom ==
    ASSUME TypeOK, CallInv, UNCHANGED made, op' \in OpType',
           op'.before = op.before, op'.thread = op.thread,
           op'.at \in {"reconnect", "drop"} => registry' # None,
           op'.at = "trying" => op'.before < made' /\ op'.left # <<>>,
           op'.at = "returned" => op'.adapter # None,
           op'.at \in {"look", "reconnect", "drop", "detect", "trying"}
                => registry' <= op'.before,
           \A a \in (op.before + 1) .. made :
               /\ a # registry' => a # registry
               /\ a # registry' /\ local[a][op.thread] = Nothing
                    => local'[a][op.thread] = Nothing
    PROVE  CallInv'
  BY DEF CallInv, OpType

LEMMA InitStep == Init => IInv
  <1> SUFFICES ASSUME Init PROVE IInv
    OBVIOUS
  <1>1. TypeOK
    BY DEF Init, TypeOK, Nothing, Idle
  <1>2. \A t \in Threads : Held(t) = {}
    BY DEF Init, Held, Nothing
  <1>3. \A t \in Threads : apartment[t] = Cardinality(Held(t))
    BY <1>2, FS_EmptySet DEF Init
  <1>4. ApartmentsMatch
    BY <1>3 DEF Init, ApartmentsMatch, Held, Nothing
  <1> QED
    BY <1>1, <1>4 DEF IInv, OpInv, Init

\* A call begins.
LEMMA CallStep ==
    ASSUME IInv, NEW t \in Threads, get_adapter(t) \/ auto_detect_cad(t)
    PROVE  IInv'
  <1>1. PICK only \in BOOLEAN, name \in {"get_adapter", "auto_detect_cad"},
             stage \in {"look", "detect"} : Call(t, name, only, stage, Priorities)
    BY DEF get_adapter, auto_detect_cad
  <1>2. op' \in OpType' /\ op'.at \in {"look", "detect"} /\ op'.before = made
    BY <1>1 DEF IInv, TypeOK, OpType, Call, Stages
  <1>3. TypeOK'
    BY <1>1, <1>2, TypesFrom DEF IInv, TypeOK, Call, Hold
  <1>4. ApartmentsMatch'
    BY <1>1 DEF IInv, ApartmentsMatch, Call
  <1>5. CallInv'
    BY <1>1, <1>2 DEF IInv, TypeOK, CallInv, Call
  <1> QED
    BY <1>3, <1>4, <1>5 DEF IInv, OpInv

\* What changes the place of the call only.
LEMMA MoveStep ==
    ASSUME IInv, LookAtAdapter \/ Check \/ Raised
    PROVE  IInv'
  <1>1. UNCHANGED <<running, made, kind, local, apartment, registry>>
    BY DEF LookAtAdapter, Check, Raised
  <1>2. ApartmentsMatch'
    BY <1>1 DEF IInv, ApartmentsMatch
  <1>3. CallInv
    BY Going DEF LookAtAdapter, Check, Raised
  <1>4. CASE op' = Idle
    BY <1>1, <1>2, <1>4, TypesFrom DEF IInv, OpInv, TypeOK, Hold
  <1>5. CASE LookAtAdapter
    <2>1. /\ op' \in OpType' /\ op'.before = op.before /\ op'.thread = op.thread
          /\ op'.at \in {"returned", "detect", "reconnect"}
          /\ op'.at = "returned" => op'.adapter = registry /\ registry # None
          /\ op'.at = "reconnect" => registry # None
      BY <1>1, <1>3, <1>5 DEF IInv, TypeOK, CallInv, OpType, LookAtAdapter, Look, Goto, Stages
    <2>2. CallInv'
      BY <1>1, <1>3, <1>5, <2>1, CallFrom DEF IInv, CallInv, LookAtAdapter
    <2> QED
      BY <1>1, <1>2, <2>1, <2>2, TypesFrom DEF IInv, OpInv, TypeOK, Hold
  <1>6. CASE Check /\ op' # Idle
    <2>1. /\ op' \in OpType' /\ op'.before = op.before /\ op'.thread = op.thread
          /\ op'.at \in {"returned", "raised"}
          /\ op'.at = "returned" => op'.adapter # None
      <3>1. op \in OpType /\ OpType' = OpType /\ registry \in 0 .. made
        BY <1>1, <1>3 DEF IInv, TypeOK, CallInv, OpType
      <3>2. \/ registry # None /\ op' = [op EXCEPT !.at = "returned", !.adapter = registry]
            \/ op' = [op EXCEPT !.at = "raised"]
        BY <1>6 DEF Check
      <3>3. CASE registry # None /\ op' = [op EXCEPT !.at = "returned", !.adapter = registry]
        BY <3>1, <3>3 DEF OpType, Stages
      <3>4. CASE op' = [op EXCEPT !.at = "raised"]
        BY <3>1, <3>4 DEF OpType, Stages
      <3> QED
        BY <3>2, <3>3, <3>4
    <2>2. CallInv'
      BY <1>1, <1>3, <2>1, CallFrom DEF IInv
    <2> QED
      BY <1>1, <1>2, <2>1, <2>2, TypesFrom DEF IInv, OpInv, TypeOK, Hold
  <1> QED
    BY <1>4, <1>5, <1>6 DEF Raised

LEMMA ReconnectStep ==
    ASSUME IInv, Reconnect
    PROVE  IInv'
  <1>1. CallInv /\ op.thread \in Threads
    BY Going DEF Reconnect, CallInv, OpType
  <1>2. registry \in Adapters /\ registry <= made /\ registry <= op.before
    BY <1>1 DEF IInv, TypeOK, CallInv, Reconnect
  <1>3. /\ local' \in [Adapters -> [Threads -> Hold]]
        /\ apartment' \in [Threads -> Nat] /\ ApartmentsMatch'
    <2>1. CASE Connected(registry)
      BY <1>1, <1>2, <2>1, Acquired DEF IInv
    <2>2. CASE ConnectFails(registry)
      BY <1>1, <1>2, <2>2, Released DEF IInv, ConnectFails, disconnect, Holds, Mine
    <2> QED
      BY <2>1, <2>2 DEF Reconnect
  <1>4. \A b \in Adapters : b # registry => local'[b] = local[b]
    BY <1>1, <1>2 DEF IInv, TypeOK, Reconnect, Connected, ConnectFails, disconnect, Holds
  <1>5. running' \subseteq Types /\ UNCHANGED <<made, kind, registry>>
    BY <1>2 DEF IInv, TypeOK, Reconnect, Connected, ConnectFails
  <1>6. /\ op' \in OpType' /\ op'.before = op.before /\ op'.thread = op.thread
        /\ op'.at = "drop" \/ (op'.at = "returned" /\ op'.adapter = registry)
    <2>1. op \in OpType /\ OpType' = OpType /\ registry \in 0 .. made
      BY <1>1, <1>5 DEF IInv, TypeOK, CallInv, OpType
    <2>2. CASE op' = [op EXCEPT !.at = "returned", !.adapter = registry]
      BY <2>1, <2>2 DEF OpType, Stages
    <2>3. CASE Goto("drop")
      BY <2>1, <2>3 DEF OpType, Stages, Goto
    <2> QED
      BY <2>2, <2>3 DEF Reconnect
  <1>7. CallInv'
    BY <1>1, <1>2, <1>4, <1>5, <1>6, CallFrom DEF IInv, TypeOK, CallInv, OpType
  <1> QED
    BY <1>2, <1>3, <1>4, <1>5, <1>6, <1>7, TypesFrom DEF IInv, OpInv, TypeOK

LEMMA DropStep ==
    ASSUME IInv, Drop
    PROVE  IInv'
  <1>1. CallInv /\ op.thread \in Threads
    BY Going DEF Drop, CallInv, OpType
  <1>2. registry \in Adapters /\ registry <= made /\ registry <= op.before
    BY <1>1 DEF IInv, TypeOK, CallInv, Drop
  <1>3. /\ local' \in [Adapters -> [Threads -> Hold]]
        /\ apartment' \in [Threads -> Nat] /\ ApartmentsMatch'
    BY <1>1, <1>2, Released DEF IInv, Drop, disconnect, Holds, Mine
  <1>4. \A b \in Adapters : b # registry => local'[b] = local[b]
    BY <1>1, <1>2 DEF IInv, TypeOK, Drop, disconnect, Holds
  <1>5. registry' = None /\ UNCHANGED <<running, made, kind>>
    BY DEF Drop
  <1>6. op' \in OpType' /\ op'.before = op.before /\ op'.thread = op.thread /\ op'.at = "detect"
    BY <1>1, <1>5 DEF CallInv, OpType, Drop, Goto, Stages
  <1>7. CallInv'
    BY <1>1, <1>2, <1>4, <1>5, <1>6, CallFrom DEF IInv, TypeOK, CallInv, OpType
  <1> QED
    BY <1>2, <1>3, <1>4, <1>5, <1>6, <1>7, TypesFrom DEF IInv, OpInv, TypeOK

LEMMA TryNextStep ==
    ASSUME IInv, TryNext
    PROVE  IInv'
  <1>1. CallInv /\ op.thread \in Threads /\ op.before \in 0 .. made /\ op.left \in Seq(Types)
    BY Going DEF TryNext, CallInv, OpType
  <1>2. /\ made + 1 \in Adapters /\ made' = made + 1
        /\ UNCHANGED <<running, local, apartment, registry>>
    BY DEF IInv, TypeOK, TryNext
  <1>3. kind' \in [Adapters -> Types]
    <2>1. Head(op.left) \in Types
      BY <1>1 DEF TryNext
    <2> QED
      BY <1>2, <2>1 DEF IInv, TypeOK, TryNext
  <1>4. /\ op' \in OpType' /\ op'.before = op.before /\ op'.thread = op.thread
        /\ op'.at = "trying" /\ op'.left = op.left
    <2>1. op \in OpType /\ op' = [op EXCEPT !.at = "trying"]
      BY <1>1 DEF CallInv, TryNext, Goto
    <2>2. OpType \subseteq OpType'
      BY <1>2 DEF IInv, TypeOK, OpType
    <2> QED
      BY <2>1, <2>2 DEF OpType, Stages
  <1>5. TypeOK'
    <2>1. made' \in 0 .. MaxAdapters /\ registry' \in 0 .. made'
      BY <1>2 DEF IInv, TypeOK
    <2> QED
      BY <1>2, <1>3, <1>4, <2>1 DEF IInv, TypeOK, OpType
  <1>6. ApartmentsMatch'
    BY DEF IInv, ApartmentsMatch, TryNext
  <1>7. local[made + 1][op.thread] = Nothing
    BY <1>1, <1>2 DEF IInv, TypeOK
  <1>8. CallInv'
    <2>1. registry <= op.before /\ op.left # <<>>
      BY <1>1 DEF CallInv, TryNext
    <2>2. \A a \in (op.before + 1) .. (made + 1) :
              a # registry => local[a][op.thread] = Nothing
      BY <1>1, <1>2, <1>7 DEF IInv, TypeOK, CallInv
    <2>3. op'.left # <<>> /\ op'.before < made' /\ registry' <= op'.before
      BY <1>1, <1>2, <1>4, <2>1 DEF IInv, TypeOK
    <2>4. \A a \in (op'.before + 1) .. made' : a # registry' => local'[a][op'.thread] = Nothing
      BY <1>2, <1>4, <2>2
    <2> QED
      BY <1>4, <2>3, <2>4 DEF CallInv
  <1> QED
    BY <1>5, <1>6, <1>8 DEF IInv, OpInv

LEMMA TryStep ==
    ASSUME IInv, Try
    PROVE  IInv'
  <1>1. CallInv /\ op.thread \in Threads /\ op.before \in 0 .. made /\ op.left \in Seq(Types)
    BY Going DEF Try, CallInv, OpType
  <1>2. made \in Adapters /\ op.before < made /\ op.left # <<>> /\ registry <= op.before
    BY <1>1 DEF IInv, TypeOK, CallInv, Try
  <1>3. CASE Connected(made) /\ registry' = made /\ Goto("check")
    <2>1. /\ local' \in [Adapters -> [Threads -> Hold]]
          /\ apartment' \in [Threads -> Nat] /\ ApartmentsMatch'
      BY <1>1, <1>2, <1>3, Acquired DEF IInv
    <2>2. \A b \in Adapters : b # made => local'[b] = local[b]
      BY <1>1, <1>2, <1>3 DEF IInv, TypeOK, Connected, Holds
    <2>3. /\ running' \subseteq Types /\ UNCHANGED <<made, kind>>
          /\ registry' \in 0 .. made
      BY <1>2, <1>3 DEF IInv, TypeOK, Try, Connected
    <2>4. op' \in OpType' /\ op'.before = op.before /\ op'.thread = op.thread /\ op'.at = "check"
      BY <1>1, <1>3, <2>3 DEF CallInv, OpType, Goto, Stages
    <2>5. \A a \in (op.before + 1) .. made :
             /\ a # registry' => a # registry
             /\ a # registry' /\ local[a][op.thread] = Nothing => local'[a][op.thread] = Nothing
      BY <1>1, <1>2, <1>3, <2>2, <2>3 DEF IInv, TypeOK
    <2>6. CallInv'
      BY <1>1, <2>3, <2>4, <2>5, CallFrom DEF IInv
    <2> QED
      BY <1>2, <2>1, <2>2, <2>3, <2>4, <2>6, TypesFrom DEF IInv, OpInv, TypeOK
  <1>4. CASE /\ ConnectFails(made)
             /\ op' = [op EXCEPT !.at = "detect", !.left = Tail(@)] /\ UNCHANGED registry
    <2>1. /\ local' \in [Adapters -> [Threads -> Hold]]
          /\ apartment' \in [Threads -> Nat] /\ ApartmentsMatch'
      BY <1>1, <1>2, <1>4, Released DEF IInv, ConnectFails, disconnect, Holds, Mine
    <2>2. /\ local'[made][op.thread] = Nothing
          /\ \A b \in Adapters : b # made => local'[b] = local[b]
      BY <1>1, <1>2, <1>4 DEF IInv, TypeOK, ConnectFails, disconnect, Holds
    <2>3. UNCHANGED <<running, made, kind>>
      BY <1>4 DEF Try, ConnectFails
    <2>4. op' \in OpType' /\ op'.before = op.before /\ op'.thread = op.thread /\ op'.at = "detect"
      <3>1. Tail(op.left) \in Seq(Types)
        BY <1>1, <1>2
      <3> QED
        BY <1>1, <1>4, <2>3, <3>1 DEF CallInv, OpType, Stages
    <2>5. \A a \in (op.before + 1) .. made :
             local[a][op.thread] = Nothing => local'[a][op.thread] = Nothing
      BY <1>1, <1>2, <2>2 DEF IInv, TypeOK
    <2>6. CallInv'
      BY <1>1, <1>2, <1>4, <2>3, <2>4, <2>5, CallFrom DEF IInv
    <2> QED
      BY <1>2, <1>4, <2>1, <2>2, <2>3, <2>4, <2>6, TypesFrom DEF IInv, OpInv, TypeOK
  <1> QED
    BY <1>3, <1>4 DEF Try

LEMMA ShutdownStep ==
    ASSUME IInv, NEW t \in Threads, shutdown_all(t)
    PROVE  IInv'
  <1>1. op = Idle
    BY DEF IInv, OpInv, CallInv, OpType, Stages, shutdown_all
  <1>2. OpInv'
    BY <1>1 DEF OpInv, shutdown_all
  <1>3. CASE registry = None
    BY <1>2, <1>3 DEF IInv, TypeOK, ApartmentsMatch, shutdown_all
  <1>4. CASE registry # None
    <2>1. registry \in Adapters
      BY <1>4 DEF IInv, TypeOK
    <2>2. /\ local' \in [Adapters -> [Threads -> Hold]]
          /\ apartment' \in [Threads -> Nat] /\ ApartmentsMatch'
      BY <1>4, <2>1, Released DEF IInv, shutdown_all
    <2>3. \A b \in Adapters : b # registry => local'[b] = local[b]
      BY <1>4, <2>1 DEF IInv, TypeOK, shutdown_all
    <2>4. TypeOK'
      BY <1>1, <2>1, <2>2, <2>3, TypesFrom DEF IInv, TypeOK, shutdown_all
    <2> QED
      BY <1>2, <2>2, <2>4 DEF IInv
  <1> QED
    BY <1>3, <1>4

LEMMA UseStep ==
    ASSUME IInv, Use
    PROVE  IInv'
  <1>1. CallInv
    BY Going DEF Use
  <1>2. op.thread \in Threads /\ op.adapter \in Adapters /\ op.adapter <= made
    BY <1>1 DEF IInv, TypeOK, CallInv, OpType, Use
  <1>3. OpInv'
    BY DEF OpInv, Use
  <1>4. CASE UNCHANGED <<running, local, apartment>>
    BY <1>3, <1>4, TypesFrom DEF IInv, TypeOK, Hold, ApartmentsMatch, Use
  <1>5. CASE Connected(op.adapter) \/ ConnectFails(op.adapter)
    <2>1. /\ local' \in [Adapters -> [Threads -> Hold]]
          /\ apartment' \in [Threads -> Nat] /\ ApartmentsMatch'
      <3>1. CASE Connected(op.adapter)
        BY <1>1, <1>2, <3>1, Acquired DEF IInv
      <3>2. CASE ConnectFails(op.adapter)
        BY <1>1, <1>2, <3>2, Released DEF IInv, ConnectFails, disconnect, Holds, Mine
      <3> QED
        BY <1>5, <3>1, <3>2
    <2>2. \A b \in Adapters : b # op.adapter => local'[b] = local[b]
      BY <1>1, <1>2, <1>5 DEF IInv, TypeOK, Connected, ConnectFails, disconnect, Holds
    <2>3. running' \subseteq Types
      BY <1>2, <1>5 DEF IInv, TypeOK, Connected, ConnectFails
    <2>4. op' = Idle /\ UNCHANGED <<made, kind, registry>> /\ registry \in 0 .. made
      BY DEF IInv, TypeOK, Use
    <2>5. \A b \in Adapters : b > made => local'[b] = local[b]
      BY <1>2, <2>2 DEF IInv, TypeOK
    <2>6. TypeOK'
      BY <2>1, <2>3, <2>4, <2>5, TypesFrom DEF IInv
    <2> QED
      BY <1>3, <2>1, <2>6 DEF IInv
  <1> QED
    BY <1>4, <1>5 DEF Use

\* Applications come and go: no apartment changes, and what held nothing holds
\* nothing.
LEMMA ApplicationStep ==
    ASSUME IInv, Start \/ Quit \/ CloseDocument
    PROVE  IInv'
  <1>1. /\ running' \subseteq Types /\ UNCHANGED <<made, kind, apartment, registry, op>>
    BY DEF IInv, TypeOK, Start, Quit, CloseDocument
  <1>2. local' \in [Adapters -> [Threads -> Hold]]
    <2> \A a \in Adapters, t \in Threads : local[a][t] \in Hold
      BY DEF IInv, TypeOK, Hold
    <2>1. CASE Quit
      <3>1. PICK type \in running : local' = [a \in Adapters |-> [t \in Threads |->
                        IF kind[a] = type /\ local[a][t].app = "live"
                        THEN [local[a][t] EXCEPT !.app = "stale"] ELSE local[a][t]]]
        BY <2>1 DEF Quit, Adapters
      <3>2. \A a \in Adapters, t \in Threads : [local[a][t] EXCEPT !.app = "stale"] \in Hold
        BY DEF Hold
      <3> QED
        BY <3>1, <3>2
    <2>2. CASE CloseDocument
      <3>1. PICK a \in 1 .. made, t \in Threads : local' = [local EXCEPT ![a][t].doc = FALSE]
        BY <2>2 DEF CloseDocument
      <3>2. a \in Adapters /\ local \in [Adapters -> [Threads -> Hold]]
        BY DEF IInv, TypeOK, Hold
      <3>3. [local[a][t] EXCEPT !.doc = FALSE] \in Hold
        BY <3>2 DEF Hold
      <3> QED
        BY <3>1, <3>2, <3>3
    <2>3. CASE Start
      BY <2>3 DEF IInv, TypeOK, Hold, Start
    <2> QED
      BY <2>1, <2>2, <2>3
  <1>3. \A a \in Adapters, t \in Threads :
           /\ local'[a][t].com = local[a][t].com
           /\ local[a][t].app = "none" => local'[a][t].app = "none"
           /\ local[a][t] = Nothing => local'[a][t] = Nothing
    <2>1. CASE Quit
      BY <2>1 DEF IInv, TypeOK, Nothing, Quit
    <2>2. CASE CloseDocument
      BY <2>2 DEF IInv, TypeOK, Nothing, CloseDocument
    <2>3. CASE Start
      BY <2>3 DEF IInv, TypeOK, Start
    <2> QED
      BY <2>1, <2>2, <2>3
  <1>4. ApartmentsMatch'
    <2>1. \A t \in Threads : Held(t)' = Held(t)
      BY <1>3 DEF Held
    <2> QED
      BY <1>1, <1>3, <2>1 DEF IInv, ApartmentsMatch, Held
  <1>5. \A a \in Adapters : local[a] = [t \in Threads |-> Nothing]
                                => local'[a] = [t \in Threads |-> Nothing]
    BY <1>2, <1>3
  <1>6. TypeOK'
    BY <1>1, <1>2, <1>5 DEF IInv, TypeOK, Hold
  <1>7. OpInv'
    BY <1>1, <1>3 DEF IInv, TypeOK, OpInv, CallInv, OpType
  <1> QED
    BY <1>4, <1>6, <1>7 DEF IInv

LEMMA NextStep == IInv /\ [Next]_vars => IInv'
  <1> SUFFICES ASSUME IInv, [Next]_vars PROVE IInv'
    OBVIOUS
  <1>1. CASE \E t \in Threads : get_adapter(t) \/ auto_detect_cad(t)
    BY <1>1, CallStep
  <1>2. CASE \E t \in Threads : shutdown_all(t)
    BY <1>2, ShutdownStep
  <1>3. CASE UNCHANGED vars
    BY <1>3 DEF IInv, TypeOK, ApartmentsMatch, OpInv, CallInv, OpType, vars
  <1> QED
    BY <1>1, <1>2, <1>3, MoveStep, ReconnectStep, DropStep, TryNextStep, TryStep,
       UseStep, ApplicationStep DEF Next

-----------------------------------------------------------------------------
(* Theorems.                                                                *)

LEMMA Invariant == Spec => []IInv
  BY InitStep, NextStep, PTL DEF Spec

\* The registry and its adapters keep their types.
THEOREM RegistryTypeCorrect == Spec => []TypeOK
  BY Invariant, PTL DEF IInv

\* Releases and initialisations of COM match on every thread, for any number of
\* adapters and threads and however applications come and go.
THEOREM ApartmentsMatchHolds == Spec => []ApartmentsMatch
  BY Invariant, PTL DEF IInv

LEMMA AnswerStep ==
    ASSUME IInv, [Next]_vars,
           op.at # "returned" /\ op'.at = "returned"
    PROVE  /\ op'.adapter = registry'
           /\ local'[op'.adapter][op.thread].app = "live" /\ local'[op'.adapter][op.thread].doc
  <1>1. LookAtAdapter \/ Reconnect \/ Check
    <2>1. ~UNCHANGED vars
      BY DEF vars
    <2>2. ASSUME NEW t \in Threads
          PROVE  ~get_adapter(t) /\ ~auto_detect_cad(t) /\ ~shutdown_all(t)
      BY DEF get_adapter, auto_detect_cad, shutdown_all, Call
    <2>3. ~Drop /\ ~TryNext /\ ~Use /\ ~Raised
      BY Going DEF CallInv, OpType, Drop, TryNext, Use, Raised, Goto, Idle
    <2>4. ~Try
      BY Going DEF CallInv, OpType, Try, Goto
    <2>5. ~Start /\ ~Quit /\ ~CloseDocument
      BY DEF Start, Quit, CloseDocument
    <2> QED
      BY <2>1, <2>2, <2>3, <2>4, <2>5 DEF Next
  <1>2. CallInv /\ op \in OpType
    BY <1>1, Going DEF CallInv, LookAtAdapter, Reconnect, Check
  <1>3. CASE LookAtAdapter
    BY <1>2, <1>3 DEF LookAtAdapter, Look, is_connected, Mine, Goto, OpType
  <1>4. CASE Reconnect
    <2>1. Connected(registry) /\ op' = [op EXCEPT !.at = "returned", !.adapter = registry]
      BY <1>2, <1>4 DEF Reconnect, Goto, OpType
    <2>2. registry \in Adapters /\ UNCHANGED registry
      BY <1>2, <1>4 DEF IInv, TypeOK, CallInv, Reconnect
    <2> QED
      BY <1>2, <2>1, <2>2 DEF IInv, TypeOK, OpType, Connected, Holds
  <1>5. CASE Check
    BY <1>2, <1>5 DEF Check, is_connected, Mine, OpType, Idle
  <1> QED
    BY <1>1, <1>3, <1>4, <1>5

LEMMA RaiseStep ==
    ASSUME IInv, [Next]_vars,
           op.at # "raised" /\ op'.at = "raised"
    PROVE  \A a \in (op.before + 1) .. made : a # registry => local[a][op.thread] = Nothing
  <1>1. op # Idle
    <2>1. SUFFICES ASSUME op = Idle PROVE FALSE
      OBVIOUS
    <2>2. ~UNCHANGED vars
      BY DEF vars
    <2>3. ASSUME NEW t \in Threads
          PROVE  ~get_adapter(t) /\ ~auto_detect_cad(t) /\ ~shutdown_all(t)
      BY DEF get_adapter, auto_detect_cad, shutdown_all, Call
    <2>4. ~LookAtAdapter /\ ~Reconnect /\ ~Drop /\ ~TryNext /\ ~Try /\ ~Check /\ ~Use /\ ~Raised
      BY <2>1 DEF LookAtAdapter, Reconnect, Drop, TryNext, Try, Check, Use, Raised, Idle
    <2>5. ~Start /\ ~Quit /\ ~CloseDocument
      BY DEF Start, Quit, CloseDocument
    <2> QED
      BY <2>2, <2>3, <2>4, <2>5 DEF Next
  <1> QED
    BY <1>1 DEF IInv, OpInv, CallInv

\* What get_adapter answers is registered and connected on the thread that
\* asked; when it raises, the adapters it made hold nothing, but for the one
\* that is registered.
THEOREM AnswerIsConnectedHolds == Spec => AnswerIsConnected
  <1>1. IInv /\ [Next]_vars =>
          [/\ op.at # "returned" /\ op'.at = "returned" =>
                /\ op'.adapter = registry'
                /\ local'[op'.adapter][op.thread].app = "live"
                /\ local'[op'.adapter][op.thread].doc
           /\ op.at # "raised" /\ op'.at = "raised" =>
                \A a \in (op.before + 1) .. made :
                    a # registry => local[a][op.thread] = Nothing]_vars
    BY AnswerStep, RaiseStep
  <1> QED
    BY <1>1, Invariant, PTL DEF Spec, AnswerIsConnected
=============================================================================

--------------------------- MODULE AdapterRegistry ---------------------------
(***************************************************************************)
(* The registry of the one active adapter (adapters/adapter_manager.py),   *)
(* the adapter's connection (adapters/mixins/connection_mixin.py) and the  *)
(* COM apartments of the threads that use it.  What an adapter holds is    *)
(* per thread (threading.local in autocad_adapter.py).  The operations of  *)
(* the registry exclude each other by its lock; each attempt to connect is *)
(* a step, so that applications start and quit in between.                 *)
(***************************************************************************)
EXTENDS Naturals, Sequences, FiniteSets

CONSTANTS Threads,        \* the threads that call tools
          Foreign,        \* those that some other code has initialised for COM
          Types,          \* the kinds of CAD application
          Priorities,     \* cad_priorities, a sequence of Types
          Installed,      \* the kinds that can be started
          MaxAdapters     \* bound: adapters ever made

ASSUME RegistryAssumption ==
    /\ Foreign \subseteq Threads /\ Threads # {}
    /\ Priorities \in Seq(Types) /\ Installed \subseteq Types
    /\ MaxAdapters \in Nat

None == 0
Adapters == 1 .. MaxAdapters

VARIABLES
    running,    \* the applications that run
    made,       \* adapters made so far
    kind,       \* the kind each was made for
    local,      \* what it holds on each thread: application proxy, document, apartment
    apartment,  \* successful CoInitialize calls less releases, per thread
    registry,   \* _adapter
    op          \* the call that holds the lock and where it is

vars == <<running, made, kind, local, apartment, registry, op>>

Nothing == [app |-> "none", doc |-> FALSE, com |-> FALSE]
Idle == [at |-> "idle"]
Stages == {"look", "reconnect", "drop", "detect", "trying", "check", "returned", "raised"}

TypeOK ==
    /\ running \subseteq Types
    /\ made \in 0 .. MaxAdapters
    /\ kind \in [Adapters -> Types]
    /\ local \in [Adapters -> [Threads -> [app : {"none", "live", "stale"}, doc : BOOLEAN,
                                           com : BOOLEAN]]]
    /\ \A a \in Adapters : a > made => local[a] = [t \in Threads |-> Nothing]
    /\ apartment \in [Threads -> Nat]
    /\ registry \in 0 .. made
    /\ op.at \in {"idle"} \union Stages

Init ==
    /\ running \in SUBSET Types
    /\ made = 0 /\ kind \in {[a \in Adapters |-> t] : t \in Types}
    /\ local = [a \in Adapters |-> [t \in Threads |-> Nothing]]
    /\ apartment = [t \in Threads |-> 0]
    /\ registry = None /\ op = Idle

-----------------------------------------------------------------------------
(* The connection of one adapter, on the thread that calls.                 *)

Mine(a) == local[a][op.thread]
Holds(a, what) == local' = [local EXCEPT ![a][op.thread] = what]

\* is_connected asks for the name of the document; the application is not asked.
is_connected(a) == Mine(a).app = "live" /\ Mine(a).doc

\* Slip: without asking whether it has been done.
Initialises_Always(a) == op.thread \notin Foreign

\* CoInitialize, unless this adapter has done it on this thread; an error is
\* swallowed (a thread that was initialised in another mode).
Initialises(a) == ~Mine(a).com /\ op.thread \notin Foreign

Connected(a) ==
    /\ kind[a] \in running \/ (~op.only_if_running /\ kind[a] \in Installed)
    /\ running' = running \union {kind[a]}
    /\ Holds(a, [app |-> "live", doc |-> TRUE, com |-> Mine(a).com \/ Initialises(a)])
    /\ apartment' = IF Initialises(a) THEN [apartment EXCEPT ![op.thread] = @ + 1] ELSE apartment

\* Slip: the apartment is given back without being marked so.
disconnect_KeepsFlag(a) ==
    /\ Holds(a, [Nothing EXCEPT !.com = Mine(a).com])
    /\ apartment' = IF Mine(a).com THEN [apartment EXCEPT ![op.thread] = @ - 1] ELSE apartment

\* disconnect lets go of what the calling thread has, and of nothing else.
disconnect(a) ==
    /\ Holds(a, Nothing)
    /\ apartment' = IF Mine(a).com THEN [apartment EXCEPT ![op.thread] = @ - 1] ELSE apartment

\* connect() ends connected, or in disconnect(): three times no active object,
\* a server that cannot be started, a document that does not answer.  What was
\* initialised on the way is released with the rest.
ConnectFails(a) == disconnect(a) /\ UNCHANGED running

-----------------------------------------------------------------------------
(* get_adapter, auto_detect_cad and shutdown_all.                           *)

Goto(stage) == op' = [op EXCEPT !.at = stage]

Call(t, name, only, stage, left) ==
    /\ op.at = "idle" /\ op' = [at |-> stage, name |-> name, thread |-> t, adapter |-> None,
                                only_if_running |-> only, left |-> left, before |-> made]
    /\ UNCHANGED <<running, made, kind, local, apartment, registry>>

get_adapter(t) ==
    \E only \in BOOLEAN : Call(t, "get_adapter", only, "look", Priorities)

\* Slip: an adapter that is there is taken without asking it.
Look_Unasked == registry # None

\* The registry has an adapter that answers on this thread, or has to connect
\* it again, or has to look for one.
Look == registry # None /\ is_connected(registry)

LookAtAdapter ==
    /\ op.at = "look"
    /\ IF Look THEN op' = [op EXCEPT !.at = "returned", !.adapter = registry]
       ELSE Goto(IF registry = None THEN "detect" ELSE "reconnect")
    /\ UNCHANGED <<running, made, kind, local, apartment, registry>>

Reconnect ==
    /\ op.at = "reconnect"
    /\ \/ Connected(registry) /\ op' = [op EXCEPT !.at = "returned", !.adapter = registry]
       \/ ConnectFails(registry) /\ Goto("drop")
    /\ UNCHANGED <<made, kind, registry>>

\* Only what this thread holds of the former adapter is released.
Drop ==
    /\ op.at = "drop"
    /\ disconnect(registry) /\ registry' = None /\ Goto("detect")
    /\ UNCHANGED <<running, made, kind>>

\* One kind after the other gets an adapter of its own, until one connects.
\* The one there was before is replaced, not released.
TryNext ==
    /\ op.at = "detect" /\ op.left # <<>> /\ made < MaxAdapters
    /\ LET a == made + 1
       IN  /\ made' = a
           /\ kind' = [kind EXCEPT ![a] = Head(op.left)]
           /\ Goto("trying")
    /\ UNCHANGED <<running, local, apartment, registry>>

Try ==
    /\ op.at = "trying"
    /\ \/ Connected(made) /\ registry' = made /\ Goto("check")
       \/ /\ ConnectFails(made)
          /\ op' = [op EXCEPT !.at = "detect", !.left = Tail(@)] /\ UNCHANGED registry
    /\ UNCHANGED <<made, kind>>

\* The search is over; get_adapter asks the adapter there is once more.
Check ==
    /\ op.at = "check" \/ (op.at = "detect" /\ op.left = <<>>)
    /\ op' = CASE op.name = "auto_detect_cad" -> Idle
               [] registry # None /\ is_connected(registry) ->
                    [op EXCEPT !.at = "returned", !.adapter = registry]
               [] OTHER -> [op EXCEPT !.at = "raised"]
    /\ UNCHANGED <<running, made, kind, local, apartment, registry>>

auto_detect_cad(t) == Call(t, "auto_detect_cad", TRUE, "detect", Priorities)

shutdown_all(t) ==
    /\ op.at = "idle"
    /\ LET a == registry
       IN  IF a = None THEN UNCHANGED <<local, apartment>>
           ELSE /\ local' = [local EXCEPT ![a][t] = Nothing]
                /\ apartment' = IF local[a][t].com THEN [apartment EXCEPT ![t] = @ - 1]
                                ELSE apartment
    /\ registry' = None
    /\ UNCHANGED <<running, made, kind, op>>

\* The tool works with the adapter: an application that does not answer the
\* ping is connected to again, if it runs, and the outcome is not asked for.
Use ==
    /\ op.at = "returned"
    /\ IF Mine(op.adapter).app = "live" THEN UNCHANGED <<running, local, apartment>>
       ELSE \/ kind[op.adapter] \in running /\ Connected(op.adapter)
            \/ ConnectFails(op.adapter)
    /\ op' = Idle
    /\ UNCHANGED <<made, kind, registry>>

Raised == op.at = "raised" /\ op' = Idle
          /\ UNCHANGED <<running, made, kind, local, apartment, registry>>

-----------------------------------------------------------------------------
(* The applications.                                                        *)

Start == /\ \E type \in Types \ running : running' = running \union {type}
         /\ UNCHANGED <<made, kind, local, apartment, registry, op>>

\* The proxies of an application that quits are stale on every thread.
Quit ==
    /\ \E type \in running :
        /\ running' = running \ {type}
        /\ local' = [a \in Adapters |-> [t \in Threads |->
                        IF kind[a] = type /\ local[a][t].app = "live"
                        THEN [local[a][t] EXCEPT !.app = "stale"] ELSE local[a][t]]]
    /\ UNCHANGED <<made, kind, apartment, registry, op>>

\* The person closes the document the adapter holds.
CloseDocument ==
    /\ \E a \in 1 .. made, t \in Threads :
        local[a][t].doc /\ local' = [local EXCEPT ![a][t].doc = FALSE]
    /\ UNCHANGED <<running, made, kind, apartment, registry, op>>

Next ==
    \/ \E t \in Threads : get_adapter(t) \/ auto_detect_cad(t) \/ shutdown_all(t)
    \/ LookAtAdapter \/ Reconnect \/ Drop \/ TryNext \/ Try \/ Check \/ Use \/ Raised
    \/ Start \/ Quit \/ CloseDocument

Spec == Init /\ [][Next]_vars

-----------------------------------------------------------------------------
(* Properties.                                                              *)

\* The releases of each thread still to come are as many as the adapters that
\* will ask for one, and an adapter has a proxy only on a thread that is
\* initialised for COM, however applications come and go and whichever thread
\* connects or disconnects (the flag of connect and disconnect).
ApartmentsMatch ==
    \A t \in Threads :
        /\ apartment[t] = Cardinality({a \in Adapters : local[a][t].com})
        /\ \A a \in Adapters : local[a][t].app # "none" => local[a][t].com \/ t \in Foreign

\* get_adapter answers with the registered adapter, connected on the thread that
\* asked, or raises; then the adapters made on the way hold nothing, but for
\* one that connected and lost its application before it was asked again
\* (get_adapter, _auto_detect_internal).
AnswerIsConnected ==
    [][/\ op.at # "returned" /\ op'.at = "returned" =>
            /\ op'.adapter = registry'
            /\ local'[op'.adapter][op.thread].app = "live" /\ local'[op'.adapter][op.thread].doc
       /\ op.at # "raised" /\ op'.at = "raised" =>
            \A a \in (op.before + 1) .. made :
                a # registry => local[a][op.thread] = Nothing]_vars

\* Every successful CoInitialize has its release: what is no longer registered
\* holds no apartment (the comment in connect).  auto_detect_cad replaces the
\* adapter without releasing it, and disconnect releases one thread only.
ReplacedHoldsNothing ==
    op.at = "idle" =>
        \A a \in 1 .. made : a # registry => \A t \in Threads : ~local[a][t].com
=============================================================================

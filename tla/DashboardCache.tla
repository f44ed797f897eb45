--------------------------- MODULE DashboardCache ---------------------------
(***************************************************************************)
(* The snapshot the web dashboard shows (DashboardCache in web/api.py) and *)
(* the operations that publish to it: HTTP requests the worker executes    *)
(* under the CAD gate and the event loop publishes later, and session      *)
(* tools of the MCP server, which publish before they leave the gate.      *)
(*                                                                         *)
(* A user works in AutoCAD all the time.  A COM call may fail.  One step   *)
(* is one COM call, one critical section, or one entry of or exit from the *)
(* gate.  The worker and its timeouts are in CadWorker; here a request may *)
(* be given up before it starts or before its result is published.         *)
(***************************************************************************)
EXTENDS Naturals

CONSTANTS
    Job,         \* operations: an HTTP request, or one operation of a session tool
    Drawing      \* the drawings of the user

None == "None"

ASSUME CacheAssumption ==
    /\ None \notin Drawing /\ None \notin Job

VARIABLES
    active,      \* AutoCAD: the drawing in front, None when it is not running
    gate,        \* the job in the CAD gate
    revision,    \* _CAD_REVISION
    cache,       \* _data of the cache
    kind,        \* what each job is
    pc,          \* where it is
    result,      \* the snapshot it collects
    outcome,     \* how its command ended
    entries,     \* history: how often the gate was entered
    at,          \* history: the entry of each job
    published    \* history: the jobs that called replace

jobVars == <<kind, pc, result, outcome>>
historyVars == <<entries, at, published>>
vars == <<active, gate, revision, cache, jobVars, historyVars>>

\* "read" stands for the commands that publish no snapshot (export, entities).
Http == {"refresh", "switch", "read"}
Session == {"connect", "check_running", "disconnect"}

\* The fields of a snapshot the properties tell apart.  layers is the drawing
\* whose layers are listed, from the observation whose content this is.
Snapshot == [connected : BOOLEAN, current_drawing : Drawing \cup {None},
             layers : Drawing \cup {None}, cad_revision : Nat, from : Nat]

empty_snapshot ==
    [connected |-> FALSE, current_drawing |-> None, layers |-> None, cad_revision |-> 0,
     from |-> 0]

InGate(j) ==
    \/ pc[j] \in {"enter", "name", "layers", "finish"}
    \/ kind[j] \in Session /\ pc[j] = "publish"

TypeOK ==
    /\ active \in Drawing \cup {None}
    /\ gate \in Job \cup {None}
    /\ revision \in Nat
    /\ cache \in Snapshot
    /\ kind \in [Job -> Http \cup Session]
    /\ pc \in [Job -> {"new", "queued", "enter", "name", "layers", "finish", "publish", "done"}]
    /\ result \in [Job -> Snapshot]
    /\ outcome \in [Job -> {"none", "ok", "disconnected", "failed"}]
    /\ entries \in Nat
    /\ at \in [Job -> 0 .. entries]
    /\ published \subseteq Job
    /\ \A j \in Job : InGate(j) <=> gate = j
    /\ \A j \in Job : pc[j] = "finish" => outcome[j] # "none"

Init ==
    /\ active \in Drawing \cup {None}
    /\ gate = None /\ revision = 0
    /\ cache = empty_snapshot
    /\ kind \in [Job -> Http \cup Session]
    /\ pc = [j \in Job |-> "new"]
    /\ result = [j \in Job |-> empty_snapshot]
    /\ outcome = [j \in Job |-> "none"]
    /\ entries = 0 /\ at = [j \in Job |-> 0] /\ published = {}

-----------------------------------------------------------------------------
(* The cache.                                                              *)

\* Variants named <definition>_<slip> are what a plausible slip in the code
\* would make of a definition.  The specification does not use them.

\* A publication is refused when a newer one has won.
Older_Never(incoming, current) == FALSE
Older(incoming, current) == current # 0 /\ (incoming = 0 \/ incoming < current)

replace(snapshot) ==
    cache' = IF Older(snapshot.cad_revision, cache.cad_revision) THEN cache ELSE snapshot

-----------------------------------------------------------------------------
(* A job on its way to the gate.                                           *)

Goto(j, where) == pc' = [pc EXCEPT ![j] = where]

\* The routes read the fallback from the cache before they submit the command.
Request(j) ==
    /\ pc[j] = "new" /\ kind[j] \in Http
    /\ Goto(j, "queued")
    /\ result' = [result EXCEPT ![j] = cache]
    /\ UNCHANGED <<active, gate, revision, cache, kind, outcome, historyVars>>

\* A handler that has given up: its command is not executed, or its result is
\* not published.
Abandon(j) ==
    /\ kind[j] \in Http
    /\ pc[j] \in {"queued", "publish"}
    /\ Goto(j, "done")
    /\ UNCHANGED <<active, gate, revision, cache, kind, result, outcome, historyVars>>

Enter(j) ==
    /\ gate = None
    /\ pc[j] = IF kind[j] \in Http THEN "queued" ELSE "new"
    /\ gate' = j /\ Goto(j, "enter")
    /\ entries' = entries + 1 /\ at' = [at EXCEPT ![j] = entries']
    /\ UNCHANGED <<active, revision, cache, kind, result, outcome, published>>

-----------------------------------------------------------------------------
(* The command of a request, in the gate.                                  *)

Ends(j, what) == outcome' = [outcome EXCEPT ![j] = what]

\* _connected_adapter.
NotConnected(j) ==
    /\ pc[j] = "enter" /\ kind[j] \in Http
    /\ Goto(j, "finish") /\ Ends(j, "disconnected")
    /\ UNCHANGED <<active, gate, revision, cache, kind, result, historyVars>>

\* switch_drawing may fail before or after AutoCAD has changed the drawing.
SwitchDrawing(j) ==
    /\ pc[j] = "enter" /\ kind[j] = "switch" /\ active # None
    /\ \/ active' \in Drawing /\ Goto(j, "name") /\ UNCHANGED outcome
       \/ /\ active' \in Drawing /\ Goto(j, "finish")
          /\ \E what \in {"failed", "disconnected"} : Ends(j, what)
    /\ UNCHANGED <<gate, revision, cache, kind, result, historyVars>>

StartRefresh(j) ==
    /\ pc[j] = "enter" /\ kind[j] = "refresh" /\ active # None
    /\ Goto(j, "name")
    /\ UNCHANGED <<active, gate, revision, cache, kind, result, outcome, historyVars>>

Read(j) ==
    /\ pc[j] = "enter" /\ kind[j] = "read" /\ active # None
    /\ Goto(j, "finish")
    /\ \E what \in {"ok", "failed", "disconnected"} : Ends(j, what)
    /\ UNCHANGED <<active, gate, revision, cache, kind, result, historyVars>>

\* collect_dashboard_snapshot: what cannot be read is None, or the fallback.
CollectName(j) ==
    /\ pc[j] = "name" /\ Goto(j, "layers")
    /\ \E name \in {active, None} :
          result' = [result EXCEPT ![j].current_drawing = name]
    /\ UNCHANGED <<active, gate, revision, cache, kind, outcome, historyVars>>

CollectLayers(j) ==
    /\ pc[j] = "layers" /\ Goto(j, "finish")
    /\ \/ active # None /\ result' = [result EXCEPT ![j].layers = active]
       \/ UNCHANGED result
    /\ \/ active # None /\ Ends(j, "ok")
       \/ \E what \in {"failed", "disconnected"} : Ends(j, what)
    /\ UNCHANGED <<active, gate, revision, cache, kind, historyVars>>

\* What a job publishes: its snapshot, or that AutoCAD cannot be reached.  Any
\* exception says so to refresh_dashboard_cache, to a route only the error
\* CadDisconnectedError.
Shows(j) == outcome[j] = "ok" /\ kind[j] # "read"
Clears(j) == outcome[j] = "disconnected" \/ (outcome[j] = "failed" /\ kind[j] \in Session)

\* The gate is left however the command ended.
AfterCommand_Succeeded(j) == IF kind[j] \in Http /\ outcome[j] = "ok" THEN None ELSE gate
AfterCommand(j) == IF kind[j] \in Http THEN None ELSE gate

\* The command is over: a revision is taken, whatever the outcome, before the
\* gate is left.
Finish(j) ==
    /\ pc[j] = "finish"
    /\ revision' = revision + 1
    /\ Goto(j, IF Shows(j) \/ Clears(j) THEN "publish" ELSE "done")
    /\ result' = [result EXCEPT ![j] =
          IF Clears(j) THEN [empty_snapshot EXCEPT !.cad_revision = revision', !.from = at[j]]
          ELSE [@ EXCEPT !.connected = TRUE, !.cad_revision = revision', !.from = at[j]]]
    /\ gate' = AfterCommand(j)
    /\ UNCHANGED <<active, cache, kind, outcome, historyVars>>

-----------------------------------------------------------------------------
(* The session tools, in the gate until they have published.               *)

\* _connect may launch AutoCAD; then both refresh the cache, whose fallback they
\* read here.
ConnectSession(j) ==
    /\ pc[j] = "enter" /\ kind[j] \in {"connect", "check_running"}
    /\ \/ /\ IF kind[j] = "connect" /\ active = None THEN active' \in Drawing
             ELSE active # None /\ UNCHANGED active
          /\ Goto(j, "name")
          /\ result' = [result EXCEPT ![j] = cache]
          /\ UNCHANGED gate
       \/ Goto(j, "done") /\ gate' = None /\ UNCHANGED <<active, result>>
    /\ UNCHANGED <<revision, cache, kind, outcome, historyVars>>

DisconnectSession(j) ==
    /\ pc[j] = "enter" /\ kind[j] = "disconnect"
    /\ Goto(j, "finish") /\ Ends(j, "disconnected")
    /\ UNCHANGED <<active, gate, revision, cache, kind, result, historyVars>>

-----------------------------------------------------------------------------
\* A handler publishes from the event loop, a session tool from the gate.
Publish(j) ==
    /\ pc[j] = "publish"
    /\ replace(result[j])
    /\ published' = published \cup {j}
    /\ Goto(j, "done")
    /\ gate' = IF kind[j] \in Session THEN None ELSE gate
    /\ UNCHANGED <<active, revision, kind, result, outcome, entries, at>>

\* The user opens, switches to or closes a drawing, or AutoCAD.
UserActs ==
    /\ active' \in (Drawing \cup {None}) \ {active}
    /\ UNCHANGED <<gate, revision, cache, jobVars, historyVars>>

Operation(j) ==
    \/ Request(j) \/ Abandon(j) \/ Enter(j) \/ NotConnected(j) \/ SwitchDrawing(j)
    \/ StartRefresh(j) \/ Read(j) \/ CollectName(j) \/ CollectLayers(j) \/ Finish(j)
    \/ ConnectSession(j) \/ DisconnectSession(j) \/ Publish(j)

Next == UserActs \/ \E j \in Job : Operation(j)

Spec == Init /\ [][Next]_vars

-----------------------------------------------------------------------------
(* Properties.                                                             *)

\* The cache implements NewestView: whatever the order in which the event loop
\* and the session tools publish, and whatever is given up, the cache shows the
\* newest of the published observations, a confirmed disconnection included
\* (DashboardCache.replace and the revisions taken under the CAD gate).
View == INSTANCE NewestView
            WITH published <- {at[j] : j \in published},
                 shown <- cache.from

ShowsNewest == View!Spec

=============================================================================

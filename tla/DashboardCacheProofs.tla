------------------------ MODULE DashboardCacheProofs ------------------------
(* Proofs about DashboardCache: it implements NewestView.                  *)
EXTENDS DashboardCache, TLAPS

-----------------------------------------------------------------------------
(* The inductive invariant.                                                *)

\* Jobs that have published or are about to.
Pending(j) == pc[j] = "publish" \/ j \in published

\* An entry of the gate is that of one job, and the job inside has the last one.
EntriesDiffer == \A j, k \in Job : j # k /\ at[j] # 0 => at[j] # at[k]
LastInside == gate # None => at[gate] = entries /\ entries # 0

PublishedDone == \A j \in published : pc[j] = "done"

\* Revisions, which the code compares, order results as entries of the gate do.
Stamped ==
    \A j \in Job : Pending(j) =>
        /\ at[j] # 0 /\ result[j].from = at[j]
        /\ result[j].cad_revision # 0 /\ result[j].cad_revision <= revision
SameOrder ==
    \A j, k \in Job : Pending(j) /\ Pending(k) /\ at[j] < at[k] =>
        result[j].cad_revision < result[k].cad_revision

CacheIs(j) == cache.from = at[j] /\ cache.cad_revision = result[j].cad_revision

CacheNewest ==
    \/ published = {} /\ cache.from = 0 /\ cache.cad_revision = 0
    \/ \E j \in published : CacheIs(j) /\ \A k \in published : at[k] <= at[j]

IInv ==
    /\ TypeOK /\ EntriesDiffer /\ LastInside /\ PublishedDone
    /\ Stamped /\ SameOrder /\ CacheNewest

-----------------------------------------------------------------------------
LEMMA SnapshotType ==
    /\ empty_snapshot \in Snapshot
    /\ \A s \in Snapshot, n, m \in Nat :
          /\ [empty_snapshot EXCEPT !.cad_revision = n, !.from = m] \in Snapshot
          /\ [s EXCEPT !.connected = TRUE, !.cad_revision = n, !.from = m] \in Snapshot
    /\ \A s \in Snapshot, d \in Drawing \cup {None} :
          /\ [s EXCEPT !.current_drawing = d] \in Snapshot
          /\ [s EXCEPT !.layers = d] \in Snapshot
  BY DEF Snapshot, empty_snapshot

LEMMA InitIInv == Init => IInv
  <1> SUFFICES ASSUME Init PROVE IInv
    OBVIOUS
  <1>1. TypeOK
    <2>1. \A j \in Job : InGate(j) <=> gate = j
      BY CacheAssumption DEF Init, InGate
    <2>2. cache \in Snapshot /\ result \in [Job -> Snapshot]
      BY SnapshotType DEF Init
    <2>3. at \in [Job -> 0 .. entries] /\ entries \in Nat
      BY DEF Init
    <2> QED
      BY <2>1, <2>2, <2>3 DEF Init, TypeOK
  <1>2. CacheNewest
    BY DEF Init, CacheNewest, empty_snapshot
  <1> QED
    BY <1>1, <1>2 DEF Init, IInv, EntriesDiffer, LastInside, PublishedDone, Stamped,
       SameOrder, Pending
-----------------------------------------------------------------------------
(* Types.                                                                  *)

\* A job that moves and stays on its side of the gate keeps the owner right.
LEMMA SameSide ==
    ASSUME TypeOK, NEW j \in Job, NEW where, Goto(j, where), UNCHANGED <<gate, kind>>,
           InGate(j)' <=> InGate(j)
    PROVE  \A k \in Job : InGate(k)' <=> gate' = k
  BY DEF TypeOK, InGate, Goto

\* So does a job that enters the gate, or leaves it.
LEMMA CrossesGate ==
    ASSUME TypeOK, NEW j \in Job, NEW where, Goto(j, where), UNCHANGED kind,
           \/ ~InGate(j) /\ InGate(j)' /\ gate = None /\ gate' = j
           \/ InGate(j) /\ ~InGate(j)' /\ gate' = None
    PROVE  \A k \in Job : InGate(k)' <=> gate' = k
  BY CacheAssumption DEF TypeOK, InGate, Goto

LEMMA TypeStep == TypeOK /\ [Next]_vars => TypeOK'
  <1> SUFFICES ASSUME TypeOK, [Next]_vars PROVE TypeOK'
    OBVIOUS
  <1> USE DEF Http, Session
  <1>1. ASSUME NEW j \in Job, Request(j) PROVE TypeOK'
    <2>1. \A k \in Job : InGate(k)' <=> gate' = k
      BY <1>1, SameSide DEF Request, InGate, Goto, TypeOK
    <2> QED
      BY <1>1, <2>1 DEF Request, TypeOK, Goto, historyVars
  <1>2. ASSUME NEW j \in Job, Abandon(j) PROVE TypeOK'
    <2>1. \A k \in Job : InGate(k)' <=> gate' = k
      BY <1>2, SameSide DEF Abandon, InGate, Goto, TypeOK
    <2> QED
      BY <1>2, <2>1 DEF Abandon, TypeOK, Goto, historyVars
  <1>3. ASSUME NEW j \in Job, Enter(j) PROVE TypeOK'
    <2>1. \A k \in Job : InGate(k)' <=> gate' = k
      BY <1>3, CrossesGate DEF Enter, InGate, Goto, TypeOK
    <2>2. entries' \in Nat /\ at' \in [Job -> 0 .. entries']
      BY <1>3 DEF Enter, TypeOK
    <2> QED
      BY <1>3, <2>1, <2>2 DEF Enter, TypeOK, Goto
  <1>4. ASSUME NEW j \in Job, NotConnected(j) PROVE TypeOK'
    <2>1. \A k \in Job : InGate(k)' <=> gate' = k
      BY <1>4, SameSide DEF NotConnected, InGate, Goto, TypeOK
    <2> QED
      BY <1>4, <2>1 DEF NotConnected, TypeOK, Goto, Ends, historyVars
  <1>5. ASSUME NEW j \in Job, SwitchDrawing(j) PROVE TypeOK'
    <2>1. \A k \in Job : InGate(k)' <=> gate' = k
      BY <1>5, SameSide DEF SwitchDrawing, InGate, Goto, TypeOK
    <2> QED
      BY <1>5, <2>1 DEF SwitchDrawing, TypeOK, Goto, Ends, historyVars
  <1>6. ASSUME NEW j \in Job, StartRefresh(j) PROVE TypeOK'
    <2>1. \A k \in Job : InGate(k)' <=> gate' = k
      BY <1>6, SameSide DEF StartRefresh, InGate, Goto, TypeOK
    <2> QED
      BY <1>6, <2>1 DEF StartRefresh, TypeOK, Goto, historyVars
  <1>7. ASSUME NEW j \in Job, Read(j) PROVE TypeOK'
    <2>1. \A k \in Job : InGate(k)' <=> gate' = k
      BY <1>7, SameSide DEF Read, InGate, Goto, TypeOK
    <2> QED
      BY <1>7, <2>1 DEF Read, TypeOK, Goto, Ends, historyVars
  <1>8. ASSUME NEW j \in Job, CollectName(j) PROVE TypeOK'
    <2>1. \A k \in Job : InGate(k)' <=> gate' = k
      BY <1>8, SameSide DEF CollectName, InGate, Goto, TypeOK
    <2>2. result' \in [Job -> Snapshot]
      <3>1. PICK name \in {active, None} : result' = [result EXCEPT ![j].current_drawing = name]
        BY <1>8 DEF CollectName
      <3>2. [result[j] EXCEPT !.current_drawing = name] \in Snapshot
        BY <3>1, SnapshotType DEF TypeOK
      <3> QED
        BY <3>1, <3>2 DEF TypeOK
    <2> QED
      BY <1>8, <2>1, <2>2 DEF CollectName, TypeOK, Goto, historyVars
  <1>9. ASSUME NEW j \in Job, CollectLayers(j) PROVE TypeOK'
    <2>1. \A k \in Job : InGate(k)' <=> gate' = k
      BY <1>9, SameSide DEF CollectLayers, InGate, Goto, TypeOK
    <2>2. result' \in [Job -> Snapshot]
      <3>1. [result[j] EXCEPT !.layers = active] \in Snapshot
        BY SnapshotType DEF TypeOK
      <3> QED
        BY <1>9, <3>1 DEF CollectLayers, TypeOK
    <2> QED
      BY <1>9, <2>1, <2>2 DEF CollectLayers, TypeOK, Goto, Ends, historyVars
  <1>10. ASSUME NEW j \in Job, Finish(j) PROVE TypeOK'
    <2>1. \A k \in Job : InGate(k)' <=> gate' = k
      <3>1. CASE kind[j] \in Http
        BY <1>10, <3>1, CrossesGate DEF Finish, AfterCommand, InGate, Goto, TypeOK
      <3>2. CASE kind[j] \in Session
        <4>1. Shows(j) \/ Clears(j) => InGate(j)'
          BY <1>10, <3>2 DEF Finish, InGate, Goto, TypeOK
        <4> QED
          BY <1>10, <3>2, <4>1, SameSide DEF Finish, AfterCommand, InGate, Goto, TypeOK,
             Shows, Clears
      <3> QED
        BY <3>1, <3>2 DEF TypeOK
    <2>2. revision' \in Nat /\ at[j] \in Nat
      BY <1>10 DEF Finish, TypeOK
    <2>3. result' \in [Job -> Snapshot]
      BY <1>10, <2>2, SnapshotType DEF Finish, TypeOK
    <2> QED
      BY <1>10, <2>1, <2>2, <2>3 DEF Finish, TypeOK, Goto, AfterCommand, historyVars
  <1>11. ASSUME NEW j \in Job, ConnectSession(j) PROVE TypeOK'
    <2>1. \A k \in Job : InGate(k)' <=> gate' = k
      BY <1>11, SameSide, CrossesGate DEF ConnectSession, InGate, Goto, TypeOK
    <2> QED
      BY <1>11, <2>1 DEF ConnectSession, TypeOK, Goto, historyVars
  <1>12. ASSUME NEW j \in Job, DisconnectSession(j) PROVE TypeOK'
    <2>1. \A k \in Job : InGate(k)' <=> gate' = k
      BY <1>12, SameSide DEF DisconnectSession, InGate, Goto, TypeOK
    <2> QED
      BY <1>12, <2>1 DEF DisconnectSession, TypeOK, Goto, Ends, historyVars
  <1>13. ASSUME NEW j \in Job, Publish(j) PROVE TypeOK'
    <2>1. \A k \in Job : InGate(k)' <=> gate' = k
      BY <1>13, SameSide, CrossesGate DEF Publish, InGate, Goto, TypeOK
    <2> QED
      BY <1>13, <2>1 DEF Publish, TypeOK, Goto, replace
  <1>14. CASE UserActs
    BY <1>14 DEF UserActs, TypeOK, jobVars, historyVars, InGate
  <1>15. CASE UNCHANGED vars
    BY <1>15 DEF vars, TypeOK, jobVars, historyVars, InGate
  <1> QED
    BY <1>1, <1>2, <1>3, <1>4, <1>5, <1>6, <1>7, <1>8, <1>9, <1>10, <1>11, <1>12, <1>13,
       <1>14, <1>15 DEF Next, Operation
-----------------------------------------------------------------------------
(* The order of revisions.                                                 *)

\* Most steps neither add a pending job nor touch a pending result.
LEMMA QuietStep ==
    ASSUME IInv, TypeOK', UNCHANGED <<revision, cache, entries, at, published>>,
           gate' \in {gate, None}, PublishedDone',
           \A j \in Job : Pending(j)' => Pending(j) /\ result'[j] = result[j]
    PROVE  IInv'
  <1>1. EntriesDiffer' /\ LastInside'
    BY DEF IInv, EntriesDiffer, LastInside
  <1>2. Stamped' /\ SameOrder'
    BY DEF IInv, Stamped, SameOrder
  <1>3. CacheNewest'
    BY DEF IInv, CacheNewest, CacheIs, Pending, TypeOK
  <1> QED
    BY <1>1, <1>2, <1>3 DEF IInv

LEMMA EnterStep == ASSUME IInv, TypeOK', NEW j \in Job, Enter(j) PROVE IInv'
  <1>1. /\ j \notin published /\ pc[j] # "publish" /\ ~Pending(j)'
        /\ \A k \in Job : Pending(k)' <=> Pending(k)
        /\ \A k \in Job \ {j} : at'[k] = at[k]
        /\ at'[j] = entries + 1 /\ entries' = entries + 1 /\ entries \in Nat
        /\ \A k \in Job : at[k] \in Nat /\ at[k] <= entries
        /\ gate' = j /\ UNCHANGED <<revision, cache, result, published>>
    BY DEF Enter, IInv, PublishedDone, Pending, TypeOK, Goto, Http, Session
  <1>2. EntriesDiffer' /\ LastInside'
    BY <1>1 DEF IInv, EntriesDiffer, LastInside
  <1>3. PublishedDone'
    BY <1>1 DEF IInv, PublishedDone, Enter, Goto, TypeOK
  <1>4. Stamped' /\ SameOrder'
    BY <1>1 DEF IInv, Stamped, SameOrder
  <1>5. CacheNewest'
    <2>1. \A k \in published : k \in Job /\ k # j
      BY <1>1 DEF IInv, TypeOK
    <2> QED
      BY <1>1, <2>1 DEF IInv, CacheNewest, CacheIs
  <1> QED
    BY <1>2, <1>3, <1>4, <1>5 DEF IInv

\* The revision taken in the gate is above all others, and so is the entry of
\* the job that takes it.
LEMMA FinishStep == ASSUME IInv, TypeOK', NEW j \in Job, Finish(j) PROVE IInv'
  <1>1. /\ gate = j /\ at[j] = entries /\ entries # 0 /\ j \notin published /\ ~Pending(j)
        /\ \A k \in Job : at[k] \in Nat /\ at[k] <= entries
        /\ \A k \in Job \ {j} : at[k] # entries
        /\ entries \in Nat /\ revision \in Nat
    BY CacheAssumption DEF Finish, IInv, TypeOK, InGate, LastInside, EntriesDiffer,
       PublishedDone, Pending
  <1>2. /\ revision' = revision + 1
        /\ \A k \in Job \ {j} : result'[k] = result[k] /\ pc'[k] = pc[k]
        /\ UNCHANGED <<cache, entries, at, published>> /\ gate' \in {gate, None}
    BY DEF Finish, AfterCommand, Goto, historyVars, IInv, TypeOK
  <1>3. result'[j].from = at[j] /\ result'[j].cad_revision = revision'
    BY DEF Finish, IInv, TypeOK, Snapshot, empty_snapshot
  <1>4. \A k \in Job \ {j} : Pending(k)' <=> Pending(k)
    BY <1>2 DEF Pending
  <1>5. EntriesDiffer' /\ LastInside' /\ PublishedDone'
    BY <1>1, <1>2 DEF IInv, EntriesDiffer, LastInside, PublishedDone, TypeOK
  <1>6. Stamped'
    <2> SUFFICES ASSUME NEW k \in Job, Pending(k)'
                 PROVE  /\ at'[k] # 0 /\ result'[k].from = at'[k]
                        /\ result'[k].cad_revision # 0 /\ result'[k].cad_revision <= revision'
      BY DEF Stamped
    <2>1. CASE k = j
      BY <1>1, <1>2, <1>3, <2>1
    <2>2. CASE k # j
      <3>1. result[k].cad_revision \in Nat
        BY DEF IInv, TypeOK, Snapshot
      <3> QED
        BY <1>1, <1>2, <1>4, <2>2, <3>1 DEF IInv, Stamped
    <2> QED
      BY <2>1, <2>2
  <1>7. SameOrder'
    <2> SUFFICES ASSUME NEW k \in Job, NEW m \in Job, Pending(k)', Pending(m)', at[k] < at[m]
                 PROVE  result'[k].cad_revision < result'[m].cad_revision
      BY <1>2 DEF SameOrder
    <2>1. k # j
      BY <1>1
    <2>2. CASE m = j
      <3>1. result[k].cad_revision \in Nat /\ result[k].cad_revision <= revision
        BY <1>4, <2>1 DEF IInv, TypeOK, Snapshot, Stamped
      <3> QED
        BY <1>1, <1>2, <1>3, <2>1, <2>2, <3>1
    <2>3. CASE m # j
      BY <1>2, <1>4, <2>1, <2>3 DEF IInv, SameOrder
    <2> QED
      BY <2>2, <2>3
  <1>8. CacheNewest'
    <2>1. \A k \in published : k \in Job /\ k # j
      BY <1>1 DEF IInv, TypeOK
    <2> QED
      BY <1>2, <2>1 DEF IInv, CacheNewest, CacheIs
  <1> QED
    BY <1>5, <1>6, <1>7, <1>8 DEF IInv

\* Comparing revisions, replace keeps the newer of two observations.
LEMMA PublishStep ==
    ASSUME IInv, TypeOK', NEW j \in Job, Publish(j)
    PROVE  /\ IInv'
           /\ \A k \in published : at[k] # at[j]
           /\ cache'.from = IF at[j] > cache.from THEN at[j] ELSE cache.from
  <1>1. /\ Pending(j) /\ j \notin published /\ published' = published \cup {j}
        /\ UNCHANGED <<revision, entries, at, result>> /\ gate' \in {gate, None}
        /\ pc'[j] = "done" /\ \A k \in Job \ {j} : pc'[k] = pc[k]
    BY DEF Publish, Pending, IInv, PublishedDone, TypeOK, Goto
  <1>2. published \subseteq Job /\ \A k \in Job : at[k] \in Nat /\ result[k].cad_revision \in Nat
    BY DEF IInv, TypeOK, Snapshot
  <1>3. /\ at[j] # 0 /\ result[j].from = at[j] /\ result[j].cad_revision # 0
        /\ \A k \in published : at[k] # at[j]
    BY <1>1, <1>2 DEF IInv, Stamped, EntriesDiffer
  <1>4. \A k \in Job : Pending(k)' <=> Pending(k)
    BY <1>1 DEF Pending
  <1>5. /\ EntriesDiffer' /\ LastInside' /\ PublishedDone' /\ Stamped' /\ SameOrder'
    BY <1>1, <1>2, <1>4 DEF IInv, EntriesDiffer, LastInside, PublishedDone, Stamped, SameOrder
  <1>6. CASE published = {} /\ cache.from = 0 /\ cache.cad_revision = 0
    <2>1. cache' = result[j]
      BY <1>6 DEF Publish, replace, Older
    <2>2. CacheNewest'
      BY <1>1, <1>2, <1>3, <1>6, <2>1 DEF CacheNewest, CacheIs
    <2> QED
      BY <1>2, <1>3, <1>5, <1>6, <2>1, <2>2 DEF IInv
  <1>7. ASSUME NEW k \in published, CacheIs(k), \A m \in published : at[m] <= at[k]
        PROVE  /\ CacheNewest'
               /\ cache'.from = IF at[j] > cache.from THEN at[j] ELSE cache.from
    <2>1. k \in Job /\ Pending(k) /\ k # j /\ at[k] # 0 /\ result[k].cad_revision # 0
      BY <1>1, <1>2 DEF Pending, IInv, Stamped
    <2>2. CASE at[k] < at[j]
      <3>1. cache' = result[j]
        BY <1>1, <1>2, <1>7, <2>1, <2>2 DEF IInv, SameOrder, CacheIs, Publish, replace, Older
      <3> QED
        BY <1>1, <1>2, <1>3, <1>7, <2>2, <3>1 DEF CacheNewest, CacheIs
    <2>3. CASE at[j] < at[k]
      <3>1. cache' = cache
        BY <1>1, <1>2, <1>7, <2>1, <2>3 DEF IInv, SameOrder, CacheIs, Publish, replace, Older
      <3> QED
        BY <1>1, <1>2, <1>3, <1>7, <2>3, <3>1 DEF CacheNewest, CacheIs
    <2> QED
      BY <1>2, <1>3, <2>1, <2>2, <2>3
  <1> QED
    BY <1>3, <1>5, <1>6, <1>7 DEF IInv, CacheNewest

\* What the other steps have in common.
LEMMA OtherStep ==
    ASSUME IInv, TypeOK', NEW j \in Job,
           \/ Request(j) \/ Abandon(j) \/ NotConnected(j) \/ SwitchDrawing(j)
           \/ StartRefresh(j) \/ Read(j) \/ CollectName(j) \/ CollectLayers(j)
           \/ ConnectSession(j) \/ DisconnectSession(j)
    PROVE  IInv' /\ UNCHANGED <<cache, at, published>>
  <1>1. /\ UNCHANGED <<revision, cache, entries, at, published>> /\ gate' \in {gate, None}
        /\ pc'[j] # "publish" /\ \A k \in Job \ {j} : pc'[k] = pc[k] /\ result'[k] = result[k]
    BY DEF Request, Abandon, NotConnected, SwitchDrawing, StartRefresh, Read, CollectName,
       CollectLayers, ConnectSession, DisconnectSession, Goto, historyVars, IInv, TypeOK
  <1>2. pc[j] # "done"
    BY DEF Request, Abandon, NotConnected, SwitchDrawing, StartRefresh, Read, CollectName,
       CollectLayers, ConnectSession, DisconnectSession
  <1>3. j \notin published
    BY <1>2 DEF IInv, PublishedDone
  <1>4. PublishedDone'
    BY <1>1, <1>3 DEF IInv, TypeOK, PublishedDone
  <1>5. \A k \in Job : Pending(k)' => Pending(k) /\ result'[k] = result[k]
    BY <1>1, <1>3 DEF Pending
  <1> QED
    BY <1>1, <1>4, <1>5, QuietStep

LEMMA IdleStep ==
    ASSUME IInv, TypeOK', UserActs \/ UNCHANGED vars
    PROVE  IInv' /\ UNCHANGED <<cache, at, published>>
  <1>1. UNCHANGED <<gate, revision, cache, entries, at, published, pc, result>>
    BY DEF UserActs, vars, jobVars, historyVars
  <1>2. PublishedDone' /\ \A j \in Job : Pending(j)' => Pending(j) /\ result'[j] = result[j]
    BY <1>1 DEF IInv, PublishedDone, Pending
  <1> QED
    BY <1>1, <1>2, QuietStep

-----------------------------------------------------------------------------
(* The refinement.                                                         *)

Shown == cache.from
Published == {at[j] : j \in published}

\* A publication is a step of NewestView; every other step changes nothing of
\* what it talks about.
LEMMA ViewStep ==
    ASSUME IInv, [Next]_vars
    PROVE  IInv' /\ [View!Next]_<<Published, Shown>>
  <1> USE DEF Published, Shown
  <1>1. TypeOK'
    BY TypeStep DEF IInv
  <1>2. ASSUME NEW j \in Job, Publish(j)
        PROVE  IInv' /\ View!Next
    <2>1. published' = published \cup {j} /\ at' = at
      BY <1>2 DEF Publish
    <2>2. Published' = Published \cup {at[j]} /\ at[j] \notin Published
      BY <1>1, <1>2, <2>1, PublishStep
    <2>3. Shown' = IF at[j] > Shown THEN at[j] ELSE Shown
      BY <1>1, <1>2, PublishStep
    <2>4. View!Next
      BY <2>2, <2>3 DEF View!Next, View!Publish
    <2> QED
      BY <1>1, <1>2, <2>4, PublishStep
  <1>3. ASSUME NEW j \in Job, Enter(j)
        PROVE  IInv' /\ UNCHANGED <<Published, Shown>>
    <2>1. j \notin published
      BY <1>3 DEF Enter, IInv, PublishedDone, Http
    <2>2. UNCHANGED <<published, cache>> /\ \A k \in published : at'[k] = at[k]
      BY <1>3, <2>1 DEF Enter, IInv, TypeOK
    <2> QED
      BY <1>1, <1>3, <2>2, EnterStep
  <1>4. ASSUME NEW j \in Job, Finish(j)
        PROVE  IInv' /\ UNCHANGED <<Published, Shown>>
    BY <1>1, <1>4, FinishStep DEF Finish, historyVars
  <1>5. ASSUME NEW j \in Job, Operation(j), ~Publish(j), ~Enter(j), ~Finish(j)
        PROVE  IInv' /\ UNCHANGED <<Published, Shown>>
    BY <1>1, <1>5, OtherStep DEF Operation
  <1>6. CASE UserActs \/ UNCHANGED vars
    BY <1>1, <1>6, IdleStep
  <1> QED
    BY <1>2, <1>3, <1>4, <1>5, <1>6 DEF Next

\* For any number of jobs and drawings the types are kept, and the gate is owned
\* by the job inside it (cad_operation, _execute_request, _serialized_cad_tool).
THEOREM TypesKept == Spec => []TypeOK
  <1>1. Init => TypeOK
    BY InitIInv DEF IInv
  <1> QED
    BY <1>1, TypeStep, PTL DEF Spec

\* For any number of jobs and drawings the dashboard shows the newest of the
\* published observations (DashboardCache.replace, next_cad_revision).
THEOREM CacheShowsNewest == Spec => ShowsNewest
  <1>1. Init => View!Init
    BY DEF Init, View!Init, empty_snapshot
  <1>2. IInv /\ [Next]_vars => IInv' /\ [View!Next]_<<Published, Shown>>
    BY ViewStep
  <1> QED
    BY <1>1, <1>2, InitIInv, PTL DEF Spec, ShowsNewest, View!Spec, Published, Shown

=============================================================================

--------------------------- MODULE ReceiptsProofs ---------------------------
(***************************************************************************)
(* For every set of drawings, plans and receipts and every lifetime: the   *)
(* module Receipts keeps its types, no receipt starts two executions, none *)
(* is accepted late or after a restart, and, when the drawings do not      *)
(* change during a call, what is drawn is what was validated.              *)
(***************************************************************************)
EXTENDS Receipts, TLAPS

USE SessionAssumption, ReceiptAssumption

-----------------------------------------------------------------------------
(* The adapter's session.                                                  *)

\* Every way to obtain a document leaves the session well formed, and gives a
\* document.
LEMMA SessionStep ==
    ASSUME SessionTypeOK, NEW mayDrop \in BOOLEAN, GetAdapter \/ GetDocument(mayDrop)
    PROVE  SessionTypeOK' /\ document' \in Document
  BY DEF SessionTypeOK, GetAdapter, GetDocument, Connect, cadVars, sessionVars, NoDocument

\* While no connection is dropped, a call that has a document keeps it.
LEMMA SessionKept ==
    ASSUME SessionTypeOK, document \in Document, GetDocument(FALSE)
    PROVE  UNCHANGED sessionVars
  BY DEF GetDocument, NoDocument

LEMMA DisconnectStep ==
    ASSUME SessionTypeOK, Disconnect
    PROVE  SessionTypeOK'
  BY DEF SessionTypeOK, Disconnect, cadVars

LEMMA UserStep ==
    ASSUME SessionTypeOK, UserActsOnDrawings, UNCHANGED document
    PROVE  SessionTypeOK'
  <1>1. CASE \E d \in open : active' = d /\ UNCHANGED <<open, identity, unit>>
    BY <1>1 DEF SessionTypeOK
  <1>2. CASE \E d \in Document \ open : /\ open' = open \cup {d} /\ active' = d
                                        /\ UNCHANGED <<identity, unit>>
    BY <1>2 DEF SessionTypeOK
  <1>3. CASE /\ \E d \in open :
                  /\ open' = open \ {d}
                  /\ IF open' = {} THEN active' = NoDocument
                     ELSE IF active = d THEN active' \in open' ELSE active' = active
             /\ UNCHANGED <<identity, unit>>
    BY <1>3 DEF SessionTypeOK
  <1>4. CASE /\ \E d \in open, name \in Identity : identity' = [identity EXCEPT ![d] = name]
             /\ UNCHANGED <<open, active, unit>>
    BY <1>4 DEF SessionTypeOK
  <1>5. CASE /\ \E d \in open, code \in Unit : unit' = [unit EXCEPT ![d] = code]
             /\ UNCHANGED <<open, active, identity>>
    BY <1>5 DEF SessionTypeOK
  <1>6. QED BY <1>1, <1>2, <1>3, <1>4, <1>5 DEF UserActsOnDrawings

-----------------------------------------------------------------------------
(* Types.                                                                  *)

LEMMA Reads ==
    ASSUME SessionTypeOK', document' \in Document
    PROVE  IdentityRead \in Identity /\ UnitRead \in Unit
  BY DEF SessionTypeOK, IdentityRead, UnitRead

LEMMA PurgeType ==
    ASSUME NEW now \in Clock, receipts \in [ReceiptId -> Receipt \cup {NoReceipt}]
    PROVE  purge_expired(now) \in [ReceiptId -> Receipt \cup {NoReceipt}]
  BY DEF purge_expired

LEMMA BeginType ==
    ASSUME TypeOK, NEW step \in Pc \ {"idle"}, NEW plan \in Plan, NEW id \in ReceiptId,
           BeginCall(step, plan, id)
    PROVE  TypeOK'
  <1>1. SessionTypeOK' /\ document' \in Document
    BY SessionStep DEF BeginCall, TypeOK
  <1>2. call' \in Call
    BY <1>1, Reads DEF BeginCall, Call, UnitCode, TypeOK
  <1> QED BY <1>1, <1>2 DEF BeginCall, TypeOK, historyVars, Held, Issued

LEMMA ReadType ==
    ASSUME TypeOK, NEW from \in Pc \ {"idle"}, NEW to \in Pc \ {"idle"}, ReadDocument(from, to)
    PROVE  TypeOK'
  <1>1. SessionTypeOK' /\ document' \in Document
    BY SessionStep DEF ReadDocument, TypeOK
  <1>2. call' \in Call
    BY <1>1, Reads DEF ReadDocument, Call, UnitCode, TypeOK
  <1> QED BY <1>1, <1>2 DEF ReadDocument, TypeOK, historyVars, Held, Issued

LEMMA IssueType ==
    ASSUME TypeOK, Issue
    PROVE  TypeOK'
  <1>1. call \in Call /\ call.id \in ReceiptId /\ call.now \in Clock
    BY DEF TypeOK, Issue, Call
  <1>2. purge_expired(call.now) \in [ReceiptId -> Receipt \cup {NoReceipt}]
    BY <1>1, PurgeType DEF TypeOK
  <1>3. [plan |-> call.plan, identity |-> call.identity, unit |-> call.unit,
         expires |-> call.now + Lifetime, consumed |-> FALSE] \in Receipt
    BY <1>1 DEF Call, Receipt, Lifetime, Clock
  <1>4. receipts' \in [ReceiptId -> Receipt \cup {NoReceipt}]
    BY <1>1, <1>2, <1>3 DEF Issue, issue
  <1>5. validated' \in [ReceiptId -> Validation \cup {NoValidation}]
    BY <1>1 DEF Issue, issue, TypeOK, Call, Validation
  <1>6. \A id \in ReceiptId : Held(id)' => Issued(id)'
    <2> SUFFICES ASSUME NEW id \in ReceiptId, Held(id)' PROVE Issued(id)'
      OBVIOUS
    <2>1. CASE id = call.id
      <3>1. validated'[id] = [plan |-> call.plan, identity |-> call.identity,
                              unit |-> call.unit, at |-> call.now, life |-> life]
        BY <2>1, <1>1 DEF Issue, issue, TypeOK
      <3>2. DOMAIN validated'[id] # DOMAIN NoValidation
        <4>1. "plan" \in DOMAIN validated'[id] BY <3>1
        <4>2. "plan" \notin DOMAIN NoValidation BY DEF NoValidation
        <4> QED BY <4>1, <4>2
      <3> QED BY <3>2 DEF Issued
    <2>2. CASE id # call.id
      <3>1. Held(id)
        BY <2>2, <1>1, <1>2 DEF Issue, issue, Held, purge_expired, TypeOK
      <3> QED BY <3>1, <2>2, <1>1 DEF Issue, issue, TypeOK, Issued
    <2> QED BY <2>1, <2>2
  <1> QED BY <1>4, <1>5, <1>6
          DEF Issue, TypeOK, Return, Pc, sessionVars, SessionTypeOK

LEMMA ConsumeType ==
    ASSUME TypeOK, Consume
    PROVE  TypeOK'
  <1>1. call \in Call /\ call.id \in ReceiptId
    BY DEF TypeOK, Consume, Call
  <1>2. CASE Accept /\ Goto("record")
    <2>1. receipts[call.id] \in Receipt
      BY <1>1, <1>2 DEF Accept, Usable, Held, TypeOK
    <2>2. receipts' \in [ReceiptId -> Receipt \cup {NoReceipt}]
      <3>1. [receipts[call.id] EXCEPT !.consumed = TRUE] \in Receipt
        BY <2>1 DEF Receipt
      <3> QED BY <3>1, <1>1, <1>2 DEF Accept, TypeOK
    <2>3. accepted' \in [ReceiptId -> Nat]
      BY <1>1, <1>2 DEF Accept, TypeOK
    <2>4. \A id \in ReceiptId : Held(id)' => Held(id)
      BY <1>1, <1>2 DEF Accept, Held, Usable, TypeOK
    <2> QED
      BY <1>2, <2>2, <2>3, <2>4
         DEF Consume, Goto, TypeOK, Pc, Issued, sessionVars, SessionTypeOK
  <1>3. CASE Refuse /\ Return /\ UNCHANGED accepted
    <2>1. receipts' \in [ReceiptId -> Receipt \cup {NoReceipt}]
      BY <1>1, <1>3 DEF Refuse, TypeOK
    <2>2. \A id \in ReceiptId : Held(id)' => Held(id)
      BY <1>1, <1>3 DEF Refuse, Held, TypeOK
    <2> QED BY <1>3, <2>1, <2>2 DEF Consume, Return, TypeOK, Pc, Issued, sessionVars, SessionTypeOK
  <1> QED BY <1>2, <1>3 DEF Consume

LEMMA DrawType ==
    ASSUME TypeOK, Draw
    PROVE  TypeOK'
  <1>1. SessionTypeOK' /\ document' \in Document
    BY SessionStep DEF Draw, TypeOK
  <1>2. call \in Call
    BY DEF Draw, TypeOK
  <1>3. drawn' \subseteq [id : ReceiptId, plan : Plan, identity : Identity, unit : Unit]
    BY <1>1, <1>2, Reads DEF Draw, TypeOK, Call
  <1> QED BY <1>1, <1>2, <1>3 DEF Draw, TypeOK, Goto, Return, Pc, Held, Issued

LEMMA TypeStep ==
    ASSUME TypeOK, [Next]_vars
    PROVE  TypeOK'
  <1> USE DEF TypeOK, Held, Issued
  <1>1. ASSUME NEW plan \in Plan, BeginValidate(plan) PROVE TypeOK'
    BY <1>1, BeginType DEF BeginValidate, Pc
  <1>2. ASSUME NEW plan \in Plan, NEW id \in ReceiptId, BeginExecute(plan, id) PROVE TypeOK'
    BY <1>2, BeginType DEF BeginExecute, Pc
  <1>3. CASE ValidateRead
    BY <1>3, ReadType DEF ValidateRead, Pc
  <1>4. CASE ValidateLayers
    BY <1>4, SessionStep DEF ValidateLayers, Return, Pc, Call, historyVars
  <1>5. CASE Issue
    BY <1>5, IssueType
  <1>6. CASE ExecuteRead
    BY <1>6, ReadType DEF ExecuteRead, Pc
  <1>7. CASE Consume
    BY <1>7, ConsumeType
  <1>8. CASE Record
    BY <1>8 DEF Record, Goto, Pc, historyVars, sessionVars, SessionTypeOK
  <1>9. CASE Revalidate
    BY <1>9, SessionStep DEF Revalidate, Goto, Return, Pc, historyVars
  <1>10. CASE Draw
    BY <1>10, DrawType
  <1>11. CASE CallRaises
    BY <1>11, DisconnectStep
       DEF CallRaises, Raise, Return, Pc, historyVars, sessionVars, SessionTypeOK
  <1>12. CASE UserChanges
    BY <1>12, UserStep DEF UserChanges, historyVars
  <1>13. CASE Tick
    BY <1>13 DEF Tick, historyVars, Clock, sessionVars, SessionTypeOK
  <1>14. CASE RestartServer
    BY <1>14 DEF RestartServer, Restarted, Return, Pc, cadVars, SessionTypeOK
  <1>15. CASE UNCHANGED vars
    BY <1>15 DEF vars, SessionTypeOK
  <1>16. QED
    BY <1>1, <1>2, <1>3, <1>4, <1>5, <1>6, <1>7, <1>8, <1>9, <1>10, <1>11,
       <1>12, <1>13, <1>14, <1>15 DEF Next

LEMMA TypeInit == Init => TypeOK
  BY DEF Init, TypeOK, SessionInit, SessionTypeOK, Clock, Pc, Held

\* The types of Receipts hold for all constants.
THEOREM ReceiptsTypeCorrect == Spec => []TypeOK
  BY TypeInit, TypeStep, PTL DEF Spec

-----------------------------------------------------------------------------
(* The store: what it holds is what was issued, in this process, and what  *)
(* was accepted stays consumed.                                            *)

Kept(id) ==
    Held(id) =>
        /\ receipts[id].plan = validated[id].plan
        /\ receipts[id].identity = validated[id].identity
        /\ receipts[id].unit = validated[id].unit
        /\ receipts[id].expires = validated[id].at + TTL
        /\ validated[id].life = life

Spent(id) ==
    \/ accepted[id] = 0
    \/ accepted[id] = 1 /\ Issued(id) /\ (Held(id) => receipts[id].consumed)

StoreInv == \A id \in ReceiptId : Kept(id) /\ Spent(id)

\* A step that leaves the store alone.
LEMMA StoreStutter ==
    ASSUME StoreInv, UNCHANGED <<receipts, validated, accepted, life>>
    PROVE  StoreInv'
  BY DEF StoreInv, Kept, Spent, Held, Issued

LEMMA StoreIssue ==
    ASSUME TypeOK, StoreInv, Issue
    PROVE  StoreInv'
  <1>1. call \in Call /\ call.id \in ReceiptId
    BY DEF TypeOK, Issue, Call
  <1> SUFFICES ASSUME NEW id \in ReceiptId PROVE Kept(id)' /\ Spent(id)'
    BY DEF StoreInv
  <1>2. Issued(id) => Issued(id)' /\ validated'[id] = validated[id]
    BY <1>1 DEF Issue, issue, TypeOK, Issued
  <1>3. CASE id = call.id
    <2>1. accepted'[id] = 0
      BY <1>1, <1>3 DEF Issue, issue, StoreInv, Spent
    <2>2. receipts'[id] = [plan |-> call.plan, identity |-> call.identity, unit |-> call.unit,
                           expires |-> call.now + TTL, consumed |-> FALSE]
      BY <1>1, <1>3, PurgeType DEF Issue, issue, TypeOK, purge_expired, Lifetime
    <2>3. validated'[id] = [plan |-> call.plan, identity |-> call.identity,
                            unit |-> call.unit, at |-> call.now, life |-> life]
      BY <1>1, <1>3 DEF Issue, issue, TypeOK
    <2> QED BY <2>1, <2>2, <2>3 DEF Kept, Spent, Issue
  <1>4. CASE id # call.id
    <2>1. receipts'[id] \in {receipts[id], NoReceipt}
      BY <1>1, <1>4 DEF Issue, issue, TypeOK, purge_expired
    <2>2. validated'[id] = validated[id] /\ accepted'[id] = accepted[id] /\ life' = life
      BY <1>1, <1>4 DEF Issue, issue, TypeOK
    <2> QED BY <2>1, <2>2 DEF StoreInv, Kept, Spent, Held, Issued
  <1> QED BY <1>3, <1>4

\* What an accepted call has established.
LEMMA AcceptFacts ==
    ASSUME TypeOK, StoreInv, Accept, pc = "consume"
    PROVE  /\ call.id \in ReceiptId /\ Issued(call.id)
           /\ accepted[call.id] = 0
           /\ validated[call.id].plan = call.plan
           /\ validated[call.id].identity = call.identity
           /\ validated[call.id].unit = call.unit
           /\ validated[call.id].life = life
           /\ call.now < validated[call.id].at + TTL
           /\ \A id \in ReceiptId \ {call.id} : accepted'[id] = accepted[id]
           /\ accepted'[call.id] = 1
  <1>1. call \in Call /\ call.id \in ReceiptId
    BY DEF TypeOK, Call
  <1>2. Held(call.id) /\ ~receipts[call.id].consumed /\ ~(receipts[call.id].expires <= call.now)
    BY DEF Accept, Usable, Expired
  <1>3. accepted[call.id] = 0
    BY <1>1, <1>2 DEF StoreInv, Spent
  <1>4. Issued(call.id)
    BY <1>1, <1>2 DEF TypeOK
  <1>5. validated[call.id].at + TTL \in Nat /\ call.now \in Nat
    BY <1>1, <1>4 DEF TypeOK, Issued, Validation, Call, Clock
  <1>6. Kept(call.id)
    BY <1>1 DEF StoreInv
  <1>7. call.now < validated[call.id].at + TTL
    BY <1>2, <1>5, <1>6 DEF Kept
  <1> QED BY <1>1, <1>2, <1>3, <1>4, <1>6, <1>7 DEF Accept, Matches, Kept, TypeOK

LEMMA StoreConsume ==
    ASSUME TypeOK, StoreInv, Consume
    PROVE  StoreInv'
  <1>1. call \in Call /\ call.id \in ReceiptId /\ pc = "consume"
    BY DEF TypeOK, Consume, Call
  <1>2. validated' = validated /\ life' = life
    BY DEF Consume
  <1> SUFFICES ASSUME NEW id \in ReceiptId PROVE Kept(id)' /\ Spent(id)'
    BY DEF StoreInv
  <1>3. CASE Accept
    <2>1. CASE id = call.id
      <3>1. Held(id) /\ receipts[id] \in Receipt
        BY <1>1, <1>3, <2>1 DEF Accept, Usable, Held, TypeOK
      <3>2. receipts'[id] = [receipts[id] EXCEPT !.consumed = TRUE]
        BY <1>1, <1>3, <2>1 DEF Accept, TypeOK
      <3>3. accepted'[id] = 1 /\ Issued(id)
        BY <1>1, <1>3, <2>1, AcceptFacts
      <3> QED BY <1>2, <3>1, <3>2, <3>3 DEF StoreInv, Kept, Spent, Issued, Receipt
    <2>2. CASE id # call.id
      <3>1. receipts'[id] = receipts[id] /\ accepted'[id] = accepted[id]
        BY <1>1, <1>3, <2>2 DEF Accept, TypeOK
      <3> QED BY <1>2, <3>1 DEF StoreInv, Kept, Spent, Held, Issued
    <2> QED BY <2>1, <2>2
  <1>4. CASE Refuse /\ UNCHANGED accepted
    <2>1. receipts'[id] \in {receipts[id], NoReceipt}
      BY <1>1, <1>4 DEF Refuse, TypeOK
    <2> QED BY <1>2, <1>4, <2>1 DEF StoreInv, Kept, Spent, Held, Issued
  <1> QED BY <1>3, <1>4 DEF Consume

\* Only Issue, Consume and RestartServer change the store.
OtherStep ==
    \/ \E plan \in Plan : BeginValidate(plan) \/ \E id \in ReceiptId : BeginExecute(plan, id)
    \/ ValidateRead \/ ValidateLayers \/ ExecuteRead \/ Record \/ Revalidate \/ Draw
    \/ CallRaises \/ UserChanges \/ Tick \/ UNCHANGED vars

LEMMA OtherSteps ==
    ASSUME OtherStep
    PROVE  UNCHANGED <<receipts, validated, accepted, life>>
  BY DEF OtherStep, BeginValidate, BeginExecute, BeginCall, ValidateRead, ReadDocument,
         ValidateLayers, ExecuteRead, Record, Revalidate, Draw, CallRaises, Raise,
         UserChanges, Tick, historyVars, vars

LEMMA NextSteps ==
    ASSUME [Next]_vars
    PROVE  OtherStep \/ Issue \/ Consume \/ RestartServer
  BY DEF Next, OtherStep

LEMMA StoreStep ==
    ASSUME TypeOK, StoreInv, [Next]_vars
    PROVE  StoreInv'
  <1>1. CASE OtherStep
    BY <1>1, OtherSteps, StoreStutter
  <1>2. CASE Issue
    BY <1>2, StoreIssue
  <1>3. CASE Consume
    BY <1>3, StoreConsume
  <1>4. CASE RestartServer
    BY <1>4 DEF RestartServer, Restarted, StoreInv, Kept, Spent, Held, Issued
  <1>5. QED BY <1>1, <1>2, <1>3, <1>4, NextSteps

LEMMA StoreInit == Init => StoreInv
  BY DEF Init, StoreInv, Kept, Spent, Held

LEMMA StoreHolds == Spec => []StoreInv
  BY ReceiptsTypeCorrect, StoreInit, StoreStep, PTL DEF Spec

\* A receipt starts at most one execution, whatever follows.
THEOREM OneTimeHolds == Spec => []OneTime
  <1>1. StoreInv => OneTime
    BY DEF StoreInv, Spent, OneTime
  <1> QED BY <1>1, StoreHolds, PTL

\* A receipt is accepted only by the process that issued it, within TTL.
THEOREM AcceptedInTimeHolds == Spec => AcceptedInTime
  <1> DEFINE InTime ==
        \A id \in ReceiptId : accepted'[id] # accepted[id] =>
            /\ validated[id].life = life
            /\ call.now < validated[id].at + TTL
  <1>1. ASSUME TypeOK, StoreInv, [Next]_vars PROVE [InTime]_vars
    <2>1. CASE OtherStep
      BY <2>1, OtherSteps
    <2>2. CASE Issue
      BY <2>2 DEF Issue
    <2>3. CASE Consume
      <3>1. CASE Accept
        BY <2>3, <3>1, <1>1, AcceptFacts DEF Consume
      <3>2. CASE UNCHANGED accepted
        BY <3>2
      <3> QED BY <2>3, <3>1, <3>2 DEF Consume
    <2>4. CASE RestartServer
      BY <2>4 DEF RestartServer
    <2> QED BY <1>1, <2>1, <2>2, <2>3, <2>4, NextSteps
  <1> QED BY <1>1, ReceiptsTypeCorrect, StoreHolds, PTL DEF Spec, AcceptedInTime

-----------------------------------------------------------------------------
(* What the dictionary holds.  Nothing in it was issued after the time read *)
(* by the call that is about to issue: that call read the clock last.       *)

NotAhead ==
    /\ call.now <= clock
    /\ \A id \in ReceiptId : Held(id) => validated[id].at <= clock

InOrder == pc = "issue" => \A id \in ReceiptId : Held(id) => validated[id].at <= call.now

RecentInv == NotAhead /\ InOrder /\ OnlyRecentHeld

\* The numbers the invariant compares.
LEMMA Times ==
    ASSUME TypeOK
    PROVE  /\ clock \in Nat /\ call.now \in Nat
           /\ \A id \in ReceiptId : Held(id) => validated[id].at \in Nat /\ receipts[id].expires \in Nat
  BY DEF TypeOK, Clock, Call, NoCall, Held, Issued, Validation, Receipt

\* A step that issues nothing may forget receipts, move the clock on and read it.
LEMMA RecentKept ==
    ASSUME TypeOK, RecentInv,
           validated' = validated, clock' \in Nat, clock <= clock',
           call'.now \in {call.now, clock, 0},
           pc' = "issue" => call'.now = clock \/ (pc = "issue" /\ call' = call),
           \A id \in ReceiptId : Held(id)' =>
                Held(id) /\ receipts'[id].expires = receipts[id].expires
    PROVE  RecentInv'
  <1>1. NotAhead'
    BY Times DEF RecentInv, NotAhead
  <1>2. InOrder'
    BY Times DEF RecentInv, NotAhead, InOrder
  <1>3. OnlyRecentHeld'
    BY DEF RecentInv, OnlyRecentHeld
  <1> QED BY <1>1, <1>2, <1>3 DEF RecentInv

LEMMA OtherTimes ==
    ASSUME TypeOK, OtherStep
    PROVE  /\ clock' \in Nat /\ clock <= clock'
           /\ call'.now \in {call.now, clock, 0}
           /\ pc' = "issue" => call'.now = clock \/ (pc = "issue" /\ call' = call)
  <1> USE DEF historyVars
  <1>0. clock \in Nat /\ (pc # "idle" => call \in Call)
    BY DEF TypeOK, Clock
  <1>1. ASSUME NEW plan \in Plan, NEW id \in ReceiptId, NEW step \in {"validateRead", "executeRead"},
               BeginCall(step, plan, id)
        PROVE  clock' = clock /\ call'.now = clock /\ pc' # "issue"
    BY <1>1 DEF BeginCall
  <1>2. ASSUME NEW from \in Pc \ {"idle"}, NEW to \in {"validateLayers", "consume"},
               ReadDocument(from, to)
        PROVE  clock' = clock /\ call'.now = clock /\ pc' # "issue"
    BY <1>0, <1>2 DEF ReadDocument, Call
  <1>3. CASE \E plan \in Plan : BeginValidate(plan) \/ \E id \in ReceiptId : BeginExecute(plan, id)
    BY <1>0, <1>1, <1>3 DEF BeginValidate, BeginExecute
  <1>4. CASE ValidateRead \/ ExecuteRead
    BY <1>0, <1>2, <1>4 DEF ValidateRead, ExecuteRead, Pc
  <1>5. CASE ValidateLayers
    <2>1. CASE pc' = "issue" /\ call' = [call EXCEPT !.now = clock]
      <3>1. call \in Call
        BY <1>0, <1>5 DEF ValidateLayers
      <3>2. call'.now = clock
        BY <2>1, <3>1 DEF Call
      <3> QED BY <1>0, <1>5, <2>1, <3>2 DEF ValidateLayers
    <2>2. CASE Return
      BY <1>0, <1>5, <2>2 DEF ValidateLayers, Return, NoCall
    <2> QED BY <1>5, <2>1, <2>2 DEF ValidateLayers
  <1>6. CASE Record \/ Revalidate \/ Draw
    BY <1>0, <1>6 DEF Record, Revalidate, Draw, Goto, Return, NoCall
  <1>7. CASE CallRaises
    BY <1>0, <1>7 DEF CallRaises, Raise, Return, NoCall
  <1>8. CASE UserChanges \/ Tick \/ UNCHANGED vars
    BY <1>0, <1>8 DEF UserChanges, Tick, vars
  <1> QED BY <1>3, <1>4, <1>5, <1>6, <1>7, <1>8 DEF OtherStep

\* Issuing: what survives the purge expires after the time the new receipt is
\* issued at, and the new one expires after every older one was issued.
LEMMA RecentIssue ==
    ASSUME TypeOK, StoreInv, RecentInv, Issue
    PROVE  RecentInv'
  <1>1. call \in Call /\ call.id \in ReceiptId /\ pc = "issue" /\ call.now \in Nat /\ clock \in Nat
    BY DEF TypeOK, Issue, Call, Clock
  <1>2. receipts'[call.id].expires = call.now + TTL /\ validated'[call.id].at = call.now
    <2>1. receipts'[call.id] = [plan |-> call.plan, identity |-> call.identity, unit |-> call.unit,
                                expires |-> call.now + TTL, consumed |-> FALSE]
      BY <1>1 DEF Issue, issue, TypeOK, purge_expired, Lifetime
    <2>2. validated'[call.id] = [plan |-> call.plan, identity |-> call.identity,
                                 unit |-> call.unit, at |-> call.now, life |-> life]
      BY <1>1 DEF Issue, issue, TypeOK
    <2> QED BY <2>1, <2>2
  <1>3. ASSUME NEW id \in ReceiptId, id # call.id, Held(id)'
        PROVE  /\ Held(id) /\ validated'[id] = validated[id]
               /\ receipts'[id].expires = receipts[id].expires
               /\ receipts[id].expires > call.now
               /\ validated[id].at <= call.now
    <2>1. receipts'[id] = purge_expired(call.now)[id] /\ validated'[id] = validated[id]
      BY <1>1, <1>3 DEF Issue, issue, TypeOK, purge_expired
    <2>2. Held(id) /\ ~Expired(receipts[id], call.now) /\ receipts'[id] = receipts[id]
      BY <1>3, <2>1 DEF Held, purge_expired
    <2> QED BY <1>1, <2>1, <2>2, Times DEF Expired, RecentInv, InOrder
  <1>4. NotAhead'
    BY <1>1, <1>2, <1>3, Times DEF RecentInv, NotAhead, Issue, Return, NoCall
  <1>5. InOrder'
    BY DEF InOrder, Issue, Return
  <1>6. OnlyRecentHeld'
    <2> SUFFICES ASSUME NEW id \in ReceiptId, NEW latest \in ReceiptId, Held(id)', Held(latest)'
                 PROVE  validated'[latest].at < receipts'[id].expires
      BY DEF OnlyRecentHeld
    <2>1. validated'[latest].at \in Nat /\ validated'[latest].at <= call.now
      BY <1>1, <1>2, <1>3, Times
    <2>2. receipts'[id].expires \in Nat /\ receipts'[id].expires > call.now
      BY <1>1, <1>2, <1>3, Times
    <2> QED BY <1>1, <2>1, <2>2
  <1> QED BY <1>4, <1>5, <1>6 DEF RecentInv

LEMMA RecentConsume ==
    ASSUME TypeOK, RecentInv, Consume
    PROVE  RecentInv'
  <1>1. \A id \in ReceiptId : Held(id)' =>
                Held(id) /\ receipts'[id].expires = receipts[id].expires
    <2>1. CASE Accept
      <3>1. call.id \in ReceiptId /\ receipts[call.id] \in Receipt
        BY <2>1 DEF Accept, Usable, Held, Consume, TypeOK, Call
      <3> QED BY <2>1, <3>1 DEF Accept, Usable, Held, TypeOK, Receipt
    <2>2. CASE Refuse
      BY <2>2 DEF Refuse, Held, TypeOK
    <2> QED BY <2>1, <2>2 DEF Consume
  <1>2. call'.now \in {call.now, clock, 0} /\ pc' # "issue"
    BY DEF Consume, Goto, Return, NoCall
  <1>3. clock' = clock /\ clock \in Nat /\ validated' = validated
    BY DEF Consume, TypeOK, Clock
  <1> QED BY <1>1, <1>2, <1>3, RecentKept

LEMMA RecentStep ==
    ASSUME TypeOK, StoreInv, RecentInv, [Next]_vars
    PROVE  RecentInv'
  <1>1. CASE OtherStep
    <2>1. validated' = validated /\ \A id \in ReceiptId : Held(id)' =>
            Held(id) /\ receipts'[id].expires = receipts[id].expires
      BY <1>1, OtherSteps DEF Held
    <2> QED BY <1>1, <2>1, OtherTimes, RecentKept
  <1>2. CASE Issue
    BY <1>2, RecentIssue
  <1>3. CASE Consume
    BY <1>3, RecentConsume
  <1>4. CASE RestartServer
    BY <1>4, Times DEF RestartServer, Restarted, Return, NoCall, Held,
                       RecentInv, NotAhead, InOrder, OnlyRecentHeld
  <1>5. QED BY <1>1, <1>2, <1>3, <1>4, NextSteps

LEMMA RecentInit == Init => RecentInv
  BY DEF Init, RecentInv, NotAhead, InOrder, OnlyRecentHeld, Held, NoCall

\* The dictionary holds nothing that had expired when the latest of the receipts
\* it holds was issued: every issue purges it.
THEOREM OnlyRecentHeldHolds == Spec => []OnlyRecentHeld
  <1>1. RecentInv => OnlyRecentHeld
    BY DEF RecentInv
  <1> QED BY <1>1, RecentInit, RecentStep, ReceiptsTypeCorrect, StoreHolds, PTL DEF Spec

-----------------------------------------------------------------------------
(* What is drawn, when the drawings are left alone during a call: from its *)
(* first read on, a call knows the drawing it works on, and from consume   *)
(* on, what it knows is what the receipt was issued for.                   *)

AfterRead == {"validateLayers", "issue", "consume", "record", "revalidate", "draw"}
AfterConsume == {"record", "revalidate", "draw"}

Knows ==
    /\ pc # "idle" => document \in Document
    /\ pc \in AfterRead => call.identity = identity[document] /\ call.unit \in {unit[document], NoUnit}

Bound ==
    pc \in AfterConsume =>
        /\ Issued(call.id)
        /\ validated[call.id].plan = call.plan
        /\ validated[call.id].identity = call.identity
        /\ validated[call.id].unit = call.unit

DrawInv == Knows /\ Bound /\ DrawnAsValidated

\* A step that issues nothing and draws nothing leaves DrawnAsValidated alone.
LEMMA DrawnStutter ==
    ASSUME DrawnAsValidated, UNCHANGED <<validated, drawn>>
    PROVE  DrawnAsValidated'
  BY DEF DrawnAsValidated, Issued

LEMMA DrawBegin ==
    ASSUME TypeOK, DrawInv, NEW step \in {"validateRead", "executeRead"}, NEW plan \in Plan,
           NEW id \in ReceiptId, BeginCall(step, plan, id)
    PROVE  DrawInv'
  <1>1. document' \in Document
    BY SessionStep DEF BeginCall, TypeOK
  <1>2. DrawnAsValidated'
    BY DrawnStutter DEF BeginCall, DrawInv, historyVars
  <1> QED BY <1>1, <1>2 DEF BeginCall, DrawInv, Knows, Bound, AfterRead, AfterConsume

LEMMA DrawRead ==
    ASSUME TypeOK, DrawInv, NEW from \in Pc \ {"idle"}, NEW to \in {"validateLayers", "consume"},
           ReadDocument(from, to)
    PROVE  DrawInv'
  <1>1. document' \in Document
    BY SessionStep DEF ReadDocument, TypeOK
  <1>2. call'.identity = identity'[document'] /\ call'.unit \in {unit'[document'], NoUnit}
    <2>1. PICK code \in {UnitRead, NoUnit} :
            call' = [call EXCEPT !.identity = IdentityRead, !.unit = code, !.now = clock]
      BY DEF ReadDocument
    <2>2. call \in Call
      BY DEF TypeOK, ReadDocument
    <2>3. call'.identity = IdentityRead /\ call'.unit = code
      BY <2>1, <2>2 DEF Call
    <2> QED BY <2>3 DEF IdentityRead, UnitRead
  <1>3. DrawnAsValidated'
    BY DrawnStutter DEF ReadDocument, DrawInv, historyVars
  <1> QED BY <1>1, <1>2, <1>3 DEF ReadDocument, DrawInv, Knows, Bound, AfterConsume

LEMMA DrawIssue ==
    ASSUME TypeOK, DrawInv, Issue
    PROVE  DrawInv'
  <1>1. call \in Call /\ call.id \in ReceiptId
    BY DEF TypeOK, Issue, Call
  <1>2. \A id \in ReceiptId : Issued(id) => Issued(id)' /\ validated'[id] = validated[id]
    BY <1>1 DEF Issue, issue, TypeOK, Issued
  <1>3. \A d \in drawn : d.id \in ReceiptId
    BY DEF TypeOK
  <1>4. DrawnAsValidated'
    BY <1>2, <1>3 DEF Issue, DrawInv, DrawnAsValidated
  <1> QED BY <1>4 DEF Issue, DrawInv, Knows, Bound, AfterRead, AfterConsume, Return

LEMMA DrawConsume ==
    ASSUME TypeOK, StoreInv, DrawInv, Consume
    PROVE  DrawInv'
  <1>1. DrawnAsValidated'
    BY DrawnStutter DEF Consume, DrawInv
  <1>2. UNCHANGED <<document, identity, unit, validated>> /\ pc = "consume"
    BY DEF Consume, sessionVars
  <1>3. CASE Accept /\ Goto("record")
    <2>1. Bound'
      BY <1>2, <1>3, AcceptFacts DEF Bound, Goto, Issued
    <2> QED BY <1>1, <1>2, <1>3, <2>1 DEF DrawInv, Knows, AfterRead, Goto
  <1>4. CASE Return
    BY <1>1, <1>4 DEF DrawInv, Knows, Bound, AfterRead, AfterConsume, Return
  <1> QED BY <1>3, <1>4 DEF Consume

LEMMA DrawDraw ==
    ASSUME MidCall = FALSE, TypeOK, DrawInv, Draw
    PROVE  DrawInv'
  <1>1. document \in Document
    BY DEF Draw, DrawInv, Knows
  <1>2. UNCHANGED sessionVars
    BY <1>1, SessionKept DEF Draw, TypeOK
  <1>3. call.identity = identity[document] /\ call.unit \in {unit[document], NoUnit} /\ Bound
    BY DEF Draw, DrawInv, Knows, AfterRead
  <1>4. IdentityRead = identity[document] /\ UnitRead = unit[document]
    BY <1>2 DEF IdentityRead, UnitRead, sessionVars
  <1>5. DrawnAsValidated'
    <2> SUFFICES ASSUME NEW d \in drawn'
                 PROVE  /\ Issued(d.id)
                        /\ d.plan = validated[d.id].plan
                        /\ d.identity = validated[d.id].identity
                        /\ validated[d.id].unit \in {d.unit, NoUnit}
      BY DEF DrawnAsValidated, Issued, Draw
    <2>1. CASE d \in drawn
      BY <2>1 DEF DrawInv, DrawnAsValidated
    <2>2. CASE d = [id |-> call.id, plan |-> call.plan,
                    identity |-> IdentityRead, unit |-> UnitRead]
      BY <1>3, <1>4, <2>2 DEF Bound, AfterConsume, Draw
    <2> QED BY <2>1, <2>2 DEF Draw
  <1>6. validated' = validated
    BY DEF Draw
  <1> QED
    BY <1>1, <1>2, <1>3, <1>5, <1>6
       DEF Draw, DrawInv, Knows, Bound, AfterRead, AfterConsume, Goto, Return, sessionVars, Issued

LEMMA DrawStep ==
    ASSUME MidCall = FALSE, TypeOK, StoreInv, DrawInv, [Next]_vars
    PROVE  DrawInv'
  <1> USE DEF DrawInv
  <1>0. /\ UNCHANGED <<validated, drawn>> => DrawnAsValidated'
        /\ pc' = "idle" => Knows' /\ Bound'
    BY DrawnStutter DEF Knows, Bound, AfterRead, AfterConsume
  <1>1. ASSUME NEW plan \in Plan, BeginValidate(plan) PROVE DrawInv'
    BY <1>1, DrawBegin DEF BeginValidate
  <1>2. ASSUME NEW plan \in Plan, NEW id \in ReceiptId, BeginExecute(plan, id) PROVE DrawInv'
    BY <1>2, DrawBegin DEF BeginExecute
  <1>3. CASE ValidateRead
    BY <1>3, DrawRead DEF ValidateRead, Pc
  <1>4. CASE ValidateLayers
    <2>1. document \in Document
      BY <1>4 DEF ValidateLayers, Knows
    <2>2. UNCHANGED sessionVars
      BY <1>4, <2>1, SessionKept DEF ValidateLayers, TypeOK
    <2>3. call \in Call
      BY <1>4 DEF ValidateLayers, TypeOK
    <2>4. DrawnAsValidated'
      BY <1>0, <1>4 DEF ValidateLayers, historyVars
    <2>5. CASE pc' = "issue" /\ call' = [call EXCEPT !.now = clock]
      <3>1. call'.identity = call.identity /\ call'.unit = call.unit
        BY <2>3, <2>5 DEF Call
      <3>2. Knows'
        BY <1>4, <2>1, <2>2, <2>5, <3>1 DEF ValidateLayers, Knows, AfterRead, sessionVars
      <3> QED BY <2>4, <2>5, <3>2 DEF Bound, AfterConsume
    <2>6. CASE Return
      BY <1>0, <2>4, <2>6 DEF Return
    <2> QED BY <1>4, <2>5, <2>6 DEF ValidateLayers
  <1>5. CASE Issue
    BY <1>5, DrawIssue
  <1>6. CASE ExecuteRead
    BY <1>6, DrawRead DEF ExecuteRead, Pc
  <1>7. CASE Consume
    BY <1>7, DrawConsume
  <1>8. CASE Record
    BY <1>0, <1>8
       DEF Record, Goto, historyVars, sessionVars, Knows, Bound, AfterRead, AfterConsume, Issued
  <1>9. CASE Revalidate
    <2>1. document \in Document
      BY <1>9 DEF Revalidate, Knows
    <2>2. UNCHANGED sessionVars
      BY <1>9, <2>1, SessionKept DEF Revalidate, TypeOK
    <2>3. CASE Goto("draw")
      BY <1>0, <1>9, <2>1, <2>2, <2>3
         DEF Revalidate, Goto, historyVars, sessionVars, Knows, Bound, AfterRead, AfterConsume,
             Issued
    <2>4. CASE Return
      BY <1>0, <1>9, <2>4 DEF Revalidate, Return, historyVars
    <2> QED BY <1>9, <2>3, <2>4 DEF Revalidate
  <1>10. CASE Draw
    BY <1>10, DrawDraw
  <1>11. CASE CallRaises
    BY <1>0, <1>11 DEF CallRaises, Raise, Return, historyVars
  <1>12. CASE UserChanges
    BY <1>0, <1>12 DEF UserChanges, historyVars
  <1>13. CASE Tick
    BY <1>0, <1>13 DEF Tick, historyVars, sessionVars, Knows, Bound, Issued
  <1>14. CASE RestartServer
    BY <1>0, <1>14 DEF RestartServer, Return
  <1>15. CASE UNCHANGED vars
    BY <1>0, <1>15 DEF vars, Knows, Bound, Issued
  <1>16. QED
    BY <1>1, <1>2, <1>3, <1>4, <1>5, <1>6, <1>7, <1>8, <1>9, <1>10, <1>11,
       <1>12, <1>13, <1>14, <1>15 DEF Next

LEMMA DrawInit == Init => DrawInv
  BY DEF Init, DrawInv, Knows, Bound, DrawnAsValidated, AfterRead, AfterConsume

\* What is drawn is what was validated, in the drawing and the unit it was
\* validated for, when the drawings do not change during a call.
THEOREM DrawnAsValidatedHolds ==
    ASSUME MidCall = FALSE
    PROVE  Spec => []DrawnAsValidated
  <1>1. TypeOK /\ StoreInv /\ DrawInv /\ [Next]_vars => DrawInv'
    BY DrawStep
  <1>2. DrawInv => DrawnAsValidated
    BY DEF DrawInv
  <1> QED BY <1>1, <1>2, DrawInit, ReceiptsTypeCorrect, StoreHolds, PTL DEF Spec

=============================================================================

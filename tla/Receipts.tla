------------------------------ MODULE Receipts ------------------------------
(***************************************************************************)
(* One-time validation receipts (cad_memory/receipts.py) and the two tools *)
(* that issue and consume them (cad_plan_validate and cad_execute_plan in  *)
(* mcp_tools/tools/validation.py), up to the drawing loop of the executor. *)
(*                                                                         *)
(* A tool holds the CAD gate from beginning to end, so one call is active  *)
(* at a time.  Time passes, and the process may be killed, between any two *)
(* of its steps.  The person acts between two calls, and during a call     *)
(* when MidCall is TRUE; then AutoCAD may also drop the connection.        *)
(***************************************************************************)
EXTENDS Session

CONSTANTS
    ReceiptId,    \* the values of secrets.token_urlsafe
    Plan,         \* plans, up to canonical_plan_hash
    TTL,          \* ttl_seconds of the store
    MaxClock,     \* bound: the clock stops here
    MaxLife,      \* bound: how often the server is started
    MidCall       \* may the drawings change while a tool runs?

ASSUME ReceiptAssumption ==
    /\ TTL \in Nat \ {0}
    /\ MaxClock \in Nat
    /\ MaxLife \in Nat \ {0}
    /\ MidCall \in BOOLEAN

VARIABLES
    clock,       \* time.monotonic()
    receipts,    \* _receipts; NoReceipt where the dictionary has no such key
    pc,          \* where the active call is
    call,        \* its arguments and locals
    life,        \* history: the number of the running server process
    validated,   \* history: what the report a receipt stands for was about
    accepted,    \* history: how often each receipt was accepted
    drawn        \* history: where objects were drawn, under which receipt

historyVars == <<life, validated, accepted, drawn>>
vars == <<open, active, identity, unit, document,
          clock, receipts, pc, call, life, validated, accepted, drawn>>

UnitCode == Unit \cup {NoUnit}
Clock == 0 .. MaxClock

Receipt == [plan : Plan, identity : Identity, unit : UnitCode,
            expires : 0 .. MaxClock + TTL, consumed : BOOLEAN]
NoReceipt == [consumed |-> FALSE]
Held(id) == receipts[id] # NoReceipt

Validation == [plan : Plan, identity : Identity, unit : UnitCode,
               at : Clock, life : 1 .. MaxLife]
NoValidation == [at |-> 0]
Issued(id) == validated[id] # NoValidation

Pc == {"idle", "validateRead", "validateLayers", "issue",
       "executeRead", "consume", "record", "revalidate", "target", "draw"}

Call == [plan : Plan, id : ReceiptId, identity : Identity, unit : UnitCode, now : Clock]
NoCall == [now |-> 0]

TypeOK ==
    /\ SessionTypeOK
    /\ clock \in Clock
    /\ receipts \in [ReceiptId -> Receipt \cup {NoReceipt}]
    /\ pc \in Pc
    /\ IF pc = "idle" THEN call = NoCall ELSE call \in Call
    /\ life \in 1 .. MaxLife
    /\ validated \in [ReceiptId -> Validation \cup {NoValidation}]
    /\ accepted \in [ReceiptId -> Nat]
    /\ drawn \subseteq [id : ReceiptId, plan : Plan, identity : Identity, unit : Unit]
    /\ \A id \in ReceiptId : Held(id) => Issued(id)

Init ==
    /\ SessionInit
    /\ clock = 0
    /\ receipts = [id \in ReceiptId |-> NoReceipt]
    /\ pc = "idle" /\ call = NoCall
    /\ life = 1
    /\ validated = [id \in ReceiptId |-> NoValidation]
    /\ accepted = [id \in ReceiptId |-> 0]
    /\ drawn = {}

-----------------------------------------------------------------------------
(* The store.                                                              *)

\* Variants named <definition>_<slip> are what a plausible slip in the code
\* would make of a definition.  The specification does not use them.
Expired_Strict(receipt, now) == receipt.expires < now
Expired(receipt, now) == receipt.expires <= now

purge_expired(now) ==
    [id \in ReceiptId |->
        IF Held(id) /\ Expired(receipts[id], now) THEN NoReceipt ELSE receipts[id]]

\* ttl_seconds, in the unit of the clock.
Lifetime == TTL

\* A token is never given twice.  The receipt expires TTL after the clock was
\* read, which was before the lock was taken.
issue(id) ==
    /\ ~Issued(id)
    /\ receipts' = [purge_expired(call.now) EXCEPT ![id] =
          [plan |-> call.plan, identity |-> call.identity, unit |-> call.unit,
           expires |-> call.now + Lifetime, consumed |-> FALSE]]
    /\ validated' = [validated EXCEPT ![id] =
          [plan |-> call.plan, identity |-> call.identity, unit |-> call.unit,
           at |-> call.now, life |-> life]]

Matches_UnitForgotten(receipt) == receipt.plan = call.plan /\ receipt.identity = call.identity
Matches(receipt) ==
    /\ receipt.plan = call.plan
    /\ receipt.identity = call.identity
    /\ receipt.unit = call.unit

\* consume, one critical section: a refusal raises PermissionError and keeps the
\* receipt, unless it has expired.
Usable_Replayed(id) == Held(id) /\ ~Expired(receipts[id], call.now)
Usable(id) == Held(id) /\ ~receipts[id].consumed /\ ~Expired(receipts[id], call.now)

Accept ==
    /\ Usable(call.id) /\ Matches(receipts[call.id])
    /\ receipts' = [receipts EXCEPT ![call.id].consumed = TRUE]
    /\ accepted' = [accepted EXCEPT ![call.id] = @ + 1]

Refuse ==
    \/ /\ Held(call.id) /\ ~receipts[call.id].consumed /\ Expired(receipts[call.id], call.now)
       /\ receipts' = [receipts EXCEPT ![call.id] = NoReceipt]
    \/ /\ IF Usable(call.id) THEN ~Matches(receipts[call.id])
          ELSE Held(call.id) => receipts[call.id].consumed
       /\ UNCHANGED receipts

-----------------------------------------------------------------------------
(* The tools.                                                              *)

Goto(step) == pc' = step /\ UNCHANGED call
Return == pc' = "idle" /\ call' = NoCall
Raise == Return /\ UNCHANGED <<clock, receipts, historyVars>>

\* The wrapper of cad_tool takes the gate and finds the adapter.
BeginCall(step, plan, id) ==
    /\ pc = "idle"
    /\ GetAdapter
    /\ pc' = step
    /\ call' = [plan |-> plan, id |-> id, identity |-> IdentityRead, unit |-> NoUnit, now |-> clock]
    /\ UNCHANGED <<clock, receipts, historyVars>>

BeginValidate(plan) == \E id \in ReceiptId : ~Issued(id) /\ BeginCall("validateRead", plan, id)
BeginExecute(plan, id) == BeginCall("executeRead", plan, id)

\* document_identity, read_document_unit (which may find INSUNITS unreadable)
\* and, at the end, the first statement of the store method.
ReadDocument(from, to) ==
    /\ pc = from
    /\ GetDocument(MidCall) /\ document' \in open'
    /\ \E code \in {UnitRead, NoUnit} :
         call' = [call EXCEPT !.identity = IdentityRead, !.unit = code, !.now = clock]
    /\ pc' = to
    /\ UNCHANGED <<clock, receipts, historyVars>>

ValidateRead == ReadDocument("validateRead", "validateLayers")
ExecuteRead == ReadDocument("executeRead", "consume")

\* list_layers and PlanValidator: a passing report goes on to issue.
ValidateLayers ==
    /\ pc = "validateLayers"
    /\ GetDocument(MidCall)
    /\ \/ pc' = "issue" /\ call' = [call EXCEPT !.now = clock]
       \/ Return
    /\ UNCHANGED <<clock, receipts, historyVars>>

Issue ==
    /\ pc = "issue"
    /\ issue(call.id)
    /\ Return
    /\ UNCHANGED <<sessionVars, clock, life, accepted, drawn>>

Consume ==
    /\ pc = "consume"
    /\ \/ Accept /\ Goto("record")
       \/ Refuse /\ Return /\ UNCHANGED accepted
    /\ UNCHANGED <<sessionVars, clock, life, validated, drawn>>

\* record_execution and create_ai_task.
Record ==
    /\ pc = "record"
    /\ Goto("revalidate")
    /\ UNCHANGED <<sessionVars, clock, receipts, historyVars>>

\* PlanExecutor.execute asks the validator again, without the drawing's unit.
Revalidate ==
    /\ pc = "revalidate"
    /\ GetDocument(MidCall)
    /\ Goto("draw") \/ Return
    /\ UNCHANGED <<clock, receipts, historyVars>>

\* Each draw_* obtains the document for itself.
Draw ==
    /\ pc = "draw"
    /\ GetDocument(MidCall) /\ document' \in open'
    /\ drawn' = drawn \cup {[id |-> call.id, plan |-> call.plan,
                             identity |-> IdentityRead, unit |-> UnitRead]}
    /\ Goto("draw") \/ Return
    /\ UNCHANGED <<clock, receipts, life, validated, accepted>>

\* Any step of a call may raise: COM, the database, or the connection, which
\* is lost then.
CallRaises ==
    /\ pc # "idle"
    /\ UNCHANGED sessionVars \/ (pc \notin {"issue", "consume", "record"} /\ Disconnect)
    /\ Raise

-----------------------------------------------------------------------------
(* The environment.                                                        *)

UserChanges ==
    /\ pc = "idle" \/ MidCall
    /\ UserActsOnDrawings
    /\ UNCHANGED <<document, clock, receipts, pc, call, historyVars>>

Tick ==
    /\ clock < MaxClock
    /\ clock' = clock + 1
    /\ UNCHANGED <<sessionVars, receipts, pc, call, historyVars>>

\* The store lives in the memory of the process.
Restarted_Persisted == receipts
Restarted == [id \in ReceiptId |-> NoReceipt]

RestartServer ==
    /\ life < MaxLife
    /\ life' = life + 1
    /\ receipts' = Restarted
    /\ document' = NoDocument
    /\ Return
    /\ UNCHANGED <<cadVars, clock, validated, accepted, drawn>>

Next ==
    \/ \E plan \in Plan : BeginValidate(plan) \/ \E id \in ReceiptId : BeginExecute(plan, id)
    \/ ValidateRead \/ ValidateLayers \/ Issue
    \/ ExecuteRead \/ Consume \/ Record \/ Revalidate \/ Draw
    \/ CallRaises
    \/ UserChanges \/ Tick \/ RestartServer

Spec == Init /\ [][Next]_vars

-----------------------------------------------------------------------------
(* Properties.                                                             *)

\* A receipt starts at most one execution, whatever calls, failures, pauses and
\* restarts follow (ValidationReceiptStore.consume).
OneTime == \A id \in ReceiptId : accepted[id] <= 1

\* An object is drawn only under the plan that passed validation, in a drawing
\* with the identity and the unit it was validated for.  The unit is excepted
\* when INSUNITS could not be read, for None equals None in consume.
DrawnAsValidated ==
    \A d \in drawn :
        /\ Issued(d.id)
        /\ d.plan = validated[d.id].plan
        /\ d.identity = validated[d.id].identity
        /\ validated[d.id].unit \in {d.unit, NoUnit}

\* A receipt is accepted only by the process that issued it, and only when the
\* clock read by consume is less than TTL after the clock read by issue.
AcceptedInTime ==
    [][\A id \in ReceiptId : accepted'[id] # accepted[id] =>
          /\ validated[id].life = life
          /\ call.now < validated[id].at + TTL]_vars

\* The dictionary does not grow with the life of the server: what it holds,
\* consumed or not, had not expired when the latest receipt was issued.
OnlyRecentHeld ==
    \A id, latest \in ReceiptId :
        Held(id) /\ Held(latest) => validated[latest].at < receipts[id].expires

=============================================================================

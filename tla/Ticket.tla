------------------------------- MODULE Ticket -------------------------------
(***************************************************************************)
(* What the worker promises of a ticket: it is settled once and stays so,  *)
(* CAD code is entered for it at most once and while it runs, and an error *)
(* that says the command was not executed is given only if it was not.     *)
(***************************************************************************)
CONSTANT Request

VARIABLES
    state,     \* what the Future of each ticket holds
    entered    \* the tickets whose command has entered CAD code

NotExecuted == {"timeout", "stopped"}
Executed == {"result", "failed", "interrupted"}

Init == state = [r \in Request |-> "none"] /\ entered = {}

Moves(r, from, to) ==
    /\ state[r] = from
    /\ \E s \in to : state' = [state EXCEPT ![r] = s]
    /\ UNCHANGED entered

Submit(r) == Moves(r, "none", {"pending"})
Refuse(r) == Moves(r, "pending", NotExecuted \cup {"cancelled"})
Start(r) == Moves(r, "pending", {"running"})
Withdraw(r) == r \notin entered /\ Moves(r, "running", NotExecuted)
Enter(r) ==
    /\ state[r] = "running" /\ r \notin entered
    /\ entered' = entered \cup {r}
    /\ UNCHANGED state
Finish(r) == r \in entered /\ Moves(r, "running", Executed)

Next ==
    \E r \in Request :
        Submit(r) \/ Refuse(r) \/ Start(r) \/ Withdraw(r) \/ Enter(r) \/ Finish(r)

Spec == Init /\ [][Next]_<<state, entered>>

=============================================================================

---------------------------- MODULE AtomicTasks ----------------------------
(***************************************************************************)
(* What the task workflow promises of a task: an execution, a commit and a *)
(* revert take effect on its status and on all its objects at once, or not *)
(* at all.  Only the person erases objects one by one.  A task of which    *)
(* the code had to say that it could not undo something, or whose call was *)
(* killed, is lost: of it nothing is promised.                             *)
(***************************************************************************)
CONSTANTS Task, Item

VARIABLES
    status,   \* the status of each task
    items     \* the XData status of each of its objects, "gone" where there is none

Gone == [i \in Item |-> "gone"]
All(tag) == [i \in Item |-> tag]

Init ==
    /\ status = [t \in Task |-> "none"]
    /\ items = [t \in Task |-> Gone]

Becomes(t, s) == status' = [status EXCEPT ![t] = s]
Shows(t, objects) == items' = [items EXCEPT ![t] = objects]
Whole(t) == \A i \in Item : items[t][i] # "gone"

Begin(t) == status[t] = "none" /\ Becomes(t, "executing") /\ UNCHANGED items

\* The person may have erased some of the objects by then.
Execute(t) ==
    /\ status[t] = "executing" /\ Becomes(t, "executed")
    /\ \E made \in SUBSET Item :
           Shows(t, [i \in Item |-> IF i \in made THEN "preview" ELSE "gone"])

Fail(t) ==
    /\ status[t] = "executing" /\ items[t] = Gone
    /\ Becomes(t, "failed") /\ UNCHANGED items

Verify(t) ==
    /\ status[t] \notin {"none", "lost"}
    /\ \/ Whole(t) /\ Becomes(t, "verified")
       \/ Becomes(t, "failed")
    /\ UNCHANGED items

Commit(t) ==
    /\ status[t] = "verified" /\ Whole(t)
    /\ Becomes(t, "committed") /\ Shows(t, All("committed"))

Revert(t) ==
    /\ status[t] \in {"executed", "verified", "committed", "failed"} /\ Whole(t)
    /\ Becomes(t, "reverted") /\ Shows(t, All("reverted"))

Erase(t, i) ==
    /\ items[t][i] # "gone"
    /\ items' = [items EXCEPT ![t][i] = "gone"]
    /\ UNCHANGED status

Lose(t) == Becomes(t, "lost") /\ Shows(t, Gone)

Next ==
    \E t \in Task :
        \/ Begin(t) \/ Execute(t) \/ Fail(t) \/ Verify(t) \/ Commit(t) \/ Revert(t) \/ Lose(t)
        \/ \E i \in Item : Erase(t, i)

Spec == Init /\ [][Next]_<<status, items>>

=============================================================================

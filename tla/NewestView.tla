----------------------------- MODULE NewestView -----------------------------
(***************************************************************************)
(* What the dashboard promises of its cache: observations of the CAD are   *)
(* made one after another, published in any order, some of them never, and *)
(* what is shown is the newest one that was published.                     *)
(***************************************************************************)
EXTENDS Naturals

VARIABLES
    published,   \* the observations published so far, each by its place in the order
    shown        \* the one that is shown, 0 when none was published

Init == published = {} /\ shown = 0

Publish(t) ==
    /\ t \notin published
    /\ published' = published \cup {t}
    /\ shown' = IF t > shown THEN t ELSE shown

Next == \E t \in published' : Publish(t)

Spec == Init /\ [][Next]_<<published, shown>>

=============================================================================

--------------------------- MODULE MCAcceptanceRun ---------------------------
(* One drawing of the person beside the target, two process identifiers. *)
EXTENDS AcceptanceRun, TLC

MCProcesses == Permutations(Pids)

\* The run and the backups share nothing but the documents: behaviours with
\* both are left out.
MCApart == (run = NoRun /\ call = Idle) \/ (backups = {} /\ copying = NoCopy)
=============================================================================

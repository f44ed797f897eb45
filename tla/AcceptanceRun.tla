---------------------------- MODULE AcceptanceRun ----------------------------
(***************************************************************************)
(* An acceptance run and backups in one AutoCAD, beside a person who works *)
(* with the same documents and files.                                      *)
(***************************************************************************)
EXTENDS Acceptance, Backup

CONSTANT MaxEvents   \* bound: events of the run

vars == <<cadVars, runVars, backupVars>>

TypeOK == FilesOK /\ RunOK /\ BackupOK

Init == FilesInit /\ RunInit /\ BackupInit

\* Every call of the run that ends well adds an event.
Bounded == IF run = NoRun THEN TRUE ELSE Len(run.events) < MaxEvents

Next ==
    \/ Bounded /\ AcceptanceStep /\ UNCHANGED backupVars
    \/ Servers /\ UNCHANGED backupVars
    \/ create_backup /\ UNCHANGED runVars
    \/ PersonActs /\ UNCHANGED <<runVars, backupVars>>

Spec == Init /\ [][Next]_vars

-----------------------------------------------------------------------------
\* The run and the backups leave the drawings of the person alone, open ones and
\* files, whichever drawing is in front when they look and whichever is by then
\* (guard_target, the document that the calls go to).
OthersUntouched ==
    [][call' # call \/ copying' # copying =>
        \A n \in Others :
            /\ n \in DOMAIN docs \intersect DOMAIN docs' => docs'[n] = docs[n]
            /\ (n \in DOMAIN docs') = (n \in DOMAIN docs)
            /\ disk'[n] = disk[n]]_vars
=============================================================================

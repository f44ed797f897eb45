------------------------------- MODULE Backup -------------------------------
(***************************************************************************)
(* The backup of the active drawing before a formal write                  *)
(* (cad_ux/backup.py): the file is copied with its times, under a name     *)
(* that carries the time of the copy, and all but the newest copies of the *)
(* drawing are deleted.                                                    *)
(***************************************************************************)
EXTENDS DrawingFiles

CONSTANTS Keep   \* keep, the number of copies that stay

ASSUME BackupAssumption == Keep \in Nat \ {0}

VARIABLES backups,   \* AI_Backups
          copying,   \* the backup at work: its source and the copy it made
          reported   \* the copy that the last successful call reported

backupVars == <<backups, copying, reported>>

Copy == [of : Names, stamp : 0 .. MaxClock, version : Versions, mtime : 0 .. MaxClock]
NoCopy == [of |-> "none"]

BackupOK ==
    /\ backups \subseteq Copy
    \* a name holds one file
    /\ \A b, c \in backups : b.of = c.of /\ b.stamp = c.stamp => b = c
    /\ copying.of \in Names \union {"none"}
    /\ reported = NoCopy \/ reported \in Copy

BackupInit == backups = {} /\ copying = NoCopy /\ reported = NoCopy

\* A saved drawing without unsaved changes, whose file is there.
drawing_source ==
    /\ copying = NoCopy
    /\ active \notin {"none", "new"} /\ docs[active].saved /\ active \in DOMAIN disk
    /\ copying' = [of |-> active]
    /\ UNCHANGED <<backups, reported>>

CopiesOf(source) == {b \in backups : b.of = source}

Copied(source) ==
    [of |-> source, stamp |-> clock, version |-> disk[source].version,
     mtime |-> disk[source].mtime]

\* shutil.copy2 keeps the time of the source and replaces a file of that name,
\* which is there only after the clock was put back: two backups are further
\* apart than its ticks.
CopySource ==
    /\ copying.of # "none" /\ "stamp" \notin DOMAIN copying
    /\ copying.of \in DOMAIN disk
    /\ turned \/ \A b \in CopiesOf(copying.of) : b.stamp # clock
    /\ LET copy == Copied(copying.of)
       IN  /\ backups' = {b \in backups : b.of # copy.of \/ b.stamp # copy.stamp} \union {copy}
           /\ copying' = copy
    /\ UNCHANGED reported

\* Slip: sorted from the oldest.
Newer_Reversed(b, c) == b.mtime < c.mtime \/ (b.mtime = c.mtime /\ b.stamp < c.stamp)

\* The order of the copies: by the time of what they hold, then by name.
Newer(b, c) == b.mtime > c.mtime \/ (b.mtime = c.mtime /\ b.stamp > c.stamp)

candidates == CopiesOf(copying.of)
Stale == {b \in candidates : Cardinality({c \in candidates : Newer(c, b)}) >= Keep}

\* The stale ones are deleted from the newest to the oldest; one that cannot
\* be deleted ends the call with an error.
Prune ==
    /\ "stamp" \in DOMAIN copying
    /\ \/ backups' = backups \ Stale /\ reported' = copying
       \/ /\ \E b \in Stale : backups' = backups \ {c \in Stale : Newer(c, b)}
          /\ UNCHANGED reported
    /\ copying' = NoCopy

\* The file cannot be read or written.
CopyFails == copying # NoCopy /\ "stamp" \notin DOMAIN copying /\ copying' = NoCopy
             /\ UNCHANGED <<backups, reported>>

create_backup == (drawing_source \/ CopySource \/ Prune \/ CopyFails) /\ UNCHANGED cadVars

-----------------------------------------------------------------------------
\* A backup that is reported is there, no more copies of its drawing are than
\* were to be kept, and those of other drawings stay.  The exception is an older
\* file in the place of a newer one, or a clock that was put back: then the copy
\* just made may be the one that is deleted (create_backup).
ReportedIsKept ==
    [][reported' # reported =>
        /\ turned \/ reported' \in backups'
        /\ Cardinality({b \in backups' : b.of = reported'.of}) <= Keep
        /\ \A b \in backups : b.of # reported'.of => b \in backups']_backupVars

\* "prune only older AI backup copies for that DWG" (create_backup): what the
\* code does not do when the source is an older file than the one backed up
\* before, since its copy carries the time of the source.
ReportedIsThere == [][reported' # reported => reported' \in backups']_backupVars
=============================================================================

---------------------------- MODULE DrawingFiles ----------------------------
(***************************************************************************)
(* The documents open in one AutoCAD, the DWG files they are saved in, and *)
(* the person who works with both.  What a drawing holds is a version: a   *)
(* number that every edit makes new, 0 for an empty drawing.  The hash of  *)
(* a file is its version.                                                  *)
(***************************************************************************)
EXTENDS Naturals, FiniteSets

CONSTANTS Others,     \* drawings of the person
          MaxEdits,   \* bound: versions ever made
          MaxClock    \* bound: readings of the clock

ASSUME DrawingFilesAssumption ==
    /\ MaxEdits \in Nat /\ MaxClock \in Nat
    /\ Others \intersect {"target", "new", "none"} = {}

Names == Others \union {"target", "new"}   \* "new" has never been saved
Versions == 0 .. MaxEdits

VARIABLES
    docs,     \* the open documents: name -> version, and whether it is saved
    active,   \* Application.ActiveDocument, "none" when none is open
    disk,     \* the files: name -> version and modification time
    edits,    \* versions made so far
    clock,    \* the wall clock
    turned    \* an older file took the place of a newer one, or the clock was put back

cadVars == <<docs, active, disk, edits, clock, turned>>

Document == [version : Versions, saved : BOOLEAN]
File == [version : Versions, mtime : 0 .. MaxClock]

FilesOK ==
    /\ DOMAIN docs \subseteq Names /\ \A n \in DOMAIN docs : docs[n] \in Document
    /\ active \in DOMAIN docs \union {"none"} /\ (active = "none") = (DOMAIN docs = {})
    /\ DOMAIN disk \subseteq Names \ {"new"} /\ \A n \in DOMAIN disk : disk[n] \in File
    /\ edits \in Versions /\ clock \in 0 .. MaxClock /\ turned \in BOOLEAN

\* Each drawing of the person has a file; some of them are open.
FilesInit ==
    /\ disk = [n \in Others |-> [version |-> 0, mtime |-> 0]]
    /\ docs = [n \in Others |-> [version |-> 0, saved |-> TRUE]]
    /\ active \in IF Others = {} THEN {"none"} ELSE Others
    /\ edits = 0 /\ clock = 0 /\ turned = FALSE

-----------------------------------------------------------------------------
(* What the object model does.  A document that is no longer open answers  *)
(* no call.                                                                 *)

Extended(f, n, value) == [m \in DOMAIN f \union {n} |-> IF m = n THEN value ELSE f[m]]
Without(f, n) == [m \in DOMAIN f \ {n} |-> f[m]]

Shut(n) ==
    /\ docs' = Without(docs, n)
    /\ active' \in IF DOMAIN docs' = {} THEN {"none"}
                   ELSE IF active \in DOMAIN docs' THEN {active} ELSE DOMAIN docs'

Write(n, version) == disk' = Extended(disk, n, [version |-> version, mtime |-> clock])

Save(n) ==
    /\ n \in DOMAIN docs /\ n # "new"
    /\ Write(n, docs[n].version)
    /\ docs' = [docs EXCEPT ![n].saved = TRUE]
    /\ UNCHANGED active

\* SaveAs gives the new drawing its path.
SaveAs(n, path) ==
    /\ n \in DOMAIN docs
    /\ Write(path, docs[n].version)
    /\ docs' = Extended(Without(docs, n), path, [docs[n] EXCEPT !.saved = TRUE])
    /\ active' = IF active = n THEN path ELSE active

\* Opening a drawing that is open brings it to the front.
OpenFile(n) ==
    /\ n \in DOMAIN disk
    /\ docs' = IF n \in DOMAIN docs THEN docs
               ELSE Extended(docs, n, [version |-> disk[n].version, saved |-> TRUE])
    /\ active' = n
    /\ UNCHANGED disk

-----------------------------------------------------------------------------
(* The person.                                                              *)

EditsDrawing ==
    /\ edits < MaxEdits /\ active # "none"
    /\ edits' = edits + 1
    /\ docs' = [docs EXCEPT ![active] = [version |-> edits', saved |-> FALSE]]
    /\ UNCHANGED <<active, disk, clock, turned>>

SavesDrawing == \E n \in DOMAIN docs : Save(n) /\ UNCHANGED <<edits, clock, turned>>

ClosesDrawing == \E n \in DOMAIN docs : Shut(n) /\ UNCHANGED <<disk, edits, clock, turned>>

OpensDrawing ==
    \E n \in DOMAIN disk \ DOMAIN docs : OpenFile(n) /\ UNCHANGED <<edits, clock, turned>>

Activates == active' \in DOMAIN docs /\ UNCHANGED <<docs, disk, edits, clock, turned>>

\* An older copy of a drawing is put in place of its file, with the time it had.
Restores ==
    /\ \E n \in DOMAIN disk \ DOMAIN docs, v \in 0 .. edits, t \in 0 .. clock :
        /\ v < disk[n].version /\ t < disk[n].mtime
        /\ disk' = [disk EXCEPT ![n] = [version |-> v, mtime |-> t]]
    /\ turned' = TRUE
    /\ UNCHANGED <<docs, active, edits, clock>>

TimePasses == clock < MaxClock /\ clock' = clock + 1
              /\ UNCHANGED <<docs, active, disk, edits, turned>>

\* Daylight saving time ends, or the clock is set.
ClockBack == clock > 0 /\ clock' = clock - 1 /\ turned' = TRUE
             /\ UNCHANGED <<docs, active, disk, edits>>

PersonActs ==
    \/ EditsDrawing \/ SavesDrawing \/ ClosesDrawing \/ OpensDrawing
    \/ Activates \/ Restores \/ TimePasses \/ ClockBack
=============================================================================

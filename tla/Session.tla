------------------------------- MODULE Session -------------------------------
(***************************************************************************)
(* The MCP adapter's hold on AutoCAD: adapters/mixins/connection_mixin.py, *)
(* utility_mixin.py and adapter_manager.py.  The adapter keeps a reference *)
(* to one document and goes on using it whatever drawing the person has in *)
(* front; it takes the active drawing only when it has to connect again.   *)
(* AutoCAD itself is external: documents open, close and become active,    *)
(* and their names and INSUNITS change, at the hands of the person.        *)
(***************************************************************************)
EXTENDS Naturals

CONSTANTS
    Document,     \* the drawings of the machine
    Identity,     \* names and full names, as _identity_key compares them
    Unit,         \* INSUNITS codes
    UserActs      \* what a person may do to the drawings

NoDocument == "none"
NoUnit == "unreadable"

ASSUME SessionAssumption ==
    /\ Document # {} /\ NoDocument \notin Document
    /\ NoUnit \notin Unit
    /\ UserActs \subseteq {"switch", "open", "close", "rename", "unit"}

VARIABLES
    open,       \* Application.Documents
    active,     \* Application.ActiveDocument
    identity,   \* document_identity of each drawing
    unit,       \* INSUNITS of each drawing
    document    \* self.document of the adapter

cadVars == <<open, active, identity, unit>>
sessionVars == <<open, active, identity, unit, document>>

SessionTypeOK ==
    /\ open \subseteq Document
    /\ IF open = {} THEN active = NoDocument ELSE active \in open
    /\ identity \in [Document -> Identity]
    /\ unit \in [Document -> Unit]
    /\ document \in Document \cup {NoDocument}

\* The server starts with AutoCAD as the person left it; main() connects in the
\* background or at the first tool call.
SessionInit ==
    /\ open = Document /\ active \in open
    /\ identity \in [Document -> Identity]
    /\ unit \in [Document -> Unit]
    /\ document = NoDocument

-----------------------------------------------------------------------------
(* The adapter.                                                            *)

\* connect(): the active drawing becomes the adapter's, or a new drawing is
\* added when none is open.
Connect ==
    \/ /\ active # NoDocument
       /\ document' = active
       /\ UNCHANGED cadVars
    \/ /\ active = NoDocument
       /\ \E d \in Document : document' = d /\ open' = {d} /\ active' = d
       /\ UNCHANGED <<identity, unit>>

\* connect() that fails ends in disconnect().
Disconnect == document' = NoDocument /\ UNCHANGED cadVars

\* get_adapter: an adapter whose document answers is used as it is; otherwise,
\* or when the question itself fails, it connects.
GetAdapter ==
    \/ document \in open /\ UNCHANGED sessionVars
    \/ Connect

\* _get_document: the kept reference, unless the application does not answer
\* the ping and has to be connected to again.  A closed document is returned
\* too: _validate_connection asks the application, not the document.
GetDocument(mayDrop) ==
    \/ document # NoDocument /\ UNCHANGED sessionVars
    \/ (mayDrop \/ document = NoDocument) /\ Connect

\* document_identity and read_document_unit of the document just obtained.
IdentityRead == identity'[document']
UnitRead == unit'[document']

-----------------------------------------------------------------------------
(* The person.                                                             *)

UserActsOnDrawings ==
    \/ /\ "switch" \in UserActs
       /\ \E d \in open : active' = d
       /\ UNCHANGED <<open, identity, unit>>
    \/ /\ "open" \in UserActs
       /\ \E d \in Document \ open : open' = open \cup {d} /\ active' = d
       /\ UNCHANGED <<identity, unit>>
    \/ /\ "close" \in UserActs
       /\ \E d \in open :
            /\ open' = open \ {d}
            /\ IF open' = {} THEN active' = NoDocument
               ELSE IF active = d THEN active' \in open' ELSE active' = active
       /\ UNCHANGED <<identity, unit>>
    \/ /\ "rename" \in UserActs
       /\ \E d \in open, name \in Identity : identity' = [identity EXCEPT ![d] = name]
       /\ UNCHANGED <<open, active, unit>>
    \/ /\ "unit" \in UserActs
       /\ \E d \in open, code \in Unit : unit' = [unit EXCEPT ![d] = code]
       /\ UNCHANGED <<open, active, identity>>

=============================================================================

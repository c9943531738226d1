---------------------------- MODULE MCDocuments -----------------------------
(* Small instances of one document session with its failures, of the manager  *)
(* of many sessions, and of the Yjs documents of one note.  The modules look   *)
(* at one system at different levels and share no state, so a behaviour        *)
(* belongs to one of them, its scope, and the others stay in one initial       *)
(* state.  Users and paths are interchangeable.                                *)
EXTENDS DocumentSession, SessionManager, DocumentLineage, TLC

VARIABLE scope

MaxChained == 2   \* bound: structure mutations on the tail at a time

DocumentsInit ==
    /\ scope \in {"session", "manager", "lineage"}
    /\ Init /\ (scope # "session" => disk["from"] = {})
    /\ ManagerInit
    /\ LineageInit /\ (scope # "lineage" => noteFile = Blank)

DocumentsNext ==
    /\ UNCHANGED scope
    /\ \/ scope = "session" /\ Next /\ UNCHANGED <<mgrVars, lineageVars>>
       \/ /\ scope = "manager" /\ ManagerNext /\ Len(mutations') <= MaxChained
          /\ UNCHANGED <<vars, lineageVars>>
       \/ scope = "lineage" /\ LineageNext /\ UNCHANGED <<vars, mgrVars>>

DocumentsSpec == DocumentsInit /\ [][DocumentsNext]_<<scope, vars, mgrVars, lineageVars>>

Symmetry == Permutations(Users) \cup Permutations(DocPaths)
=============================================================================

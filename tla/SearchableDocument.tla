-------------------------- MODULE SearchableDocument --------------------------
(***************************************************************************)
(* What a reader of the workspace is promised about one document: search   *)
(* shows contents of a document that exists, every content it starts to    *)
(* show already has its citations, and a deletion takes place only once    *)
(* nothing of the document can be found, and is final.                     *)
(***************************************************************************)
CONSTANTS Files, None

VARIABLES
    phase,       \* "absent", "present" or "deleted"
    searchable,  \* the contents search may return
    cited        \* the content whose citations resolve

vars == <<phase, searchable, cited>>

Init == phase = "absent" /\ searchable = {} /\ cited = None

Create ==
    /\ phase = "absent"
    /\ phase' = "present"
    /\ UNCHANGED <<searchable, cited>>

Cite(f) ==
    /\ phase = "present"
    /\ cited' = f
    /\ UNCHANGED <<phase, searchable>>

\* A new content is shown alone, after its citations.
Publish(f) ==
    /\ phase = "present"
    /\ searchable = {} /\ cited = f
    /\ searchable' = {f}
    /\ UNCHANGED <<phase, cited>>

Hide ==
    /\ searchable' = {}
    /\ UNCHANGED <<phase, cited>>

Delete ==
    /\ phase = "present"
    /\ searchable = {}
    /\ phase' = "deleted" /\ cited' = None
    /\ UNCHANGED searchable

Next ==
    \/ Create \/ Hide \/ Delete
    \/ \E f \in Files : Cite(f) \/ Publish(f)

Spec == Init /\ [][Next]_vars
=============================================================================

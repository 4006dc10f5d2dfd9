-------------------------- MODULE MCAccessSession --------------------------
(* Instances of AccessSession for TLC.  A behaviour stays within one of    *)
(* three scopes: two requests at once, or two conversations, or two users; *)
(* and of the accidents that make a token useless (a session expires, an   *)
(* account is suspended, a membership changes) one holds at a time.        *)
EXTENDS AccessSession, TLC

CONSTANTS u1, u2, public, home1, home2, s1, s2, s3, c1, c2, q1, q2

Homes == (u1 :> home1) @@ (u2 :> home2)

Scopes == {[users |-> {u1}, conversations |-> 1, requests |-> 2],
           [users |-> {u1}, conversations |-> 2, requests |-> 1],
           [users |-> {u1, u2}, conversations |-> 1, requests |-> 1]}

Within(scope) ==
    /\ {u \in Users : user[u] # "none"} \subseteq scope.users
    /\ Cardinality({c \in Conversations : conversation[c] # NoConversation}) <= scope.conversations
    /\ Cardinality({q \in Requests : request[q] # Idle}) <= scope.requests
    /\ Cardinality({s \in Sessions : session[s].late})
         + Cardinality({u \in Users : user[u] = "suspended"})
         + Cardinality({u \in Users : member[u][Public] # "none"}) <= 1

StaysWithinAScope == \E scope \in Scopes : Within(scope)'

Symmetry == Permutations(Sessions) \cup Permutations(Conversations) \cup Permutations(Requests)
=============================================================================

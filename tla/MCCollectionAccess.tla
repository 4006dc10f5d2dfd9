------------------------- MODULE MCCollectionAccess -------------------------
(* Instances of CollectionAccess for TLC.  A behaviour stays within one of *)
(* three scopes: a tree of two items, shared with a user and a group by    *)
(* one request after the other; one collection and a request for a role on *)
(* it, decided by two requests at once while members come and go; or the   *)
(* collections of two users, one request after the other.                  *)
EXTENDS CollectionAccess, TLC

CONSTANTS u1, u2, i1, i2, g1, a1, q1, q2

(* An administrator, and a member without permissions of tenant scope.     *)
OneAdministrator ==
    [u \in Users |->
       IF u = u1
       THEN {"knowledge.read", "access.manage", "group.manage", "user.manage", "item.manage"}
            \cup CollectionPermissions
       ELSE {"knowledge.read"}]

Scopes ==
    {[items |-> 2, personal |-> 0, groups |-> 1, approvals |-> 0, requests |-> 1, members |-> Users, grants |-> 2],
     [items |-> 1, personal |-> 0, groups |-> 0, approvals |-> 1, requests |-> 2, members |-> {u1}, grants |-> 2],
     [items |-> 2, personal |-> 2, groups |-> 0, approvals |-> 0, requests |-> 1, members |-> Users, grants |-> 3]}

Within(scope) ==
    /\ Cardinality({i \in Items : item[i] # NoItem}) <= scope.items
    /\ Cardinality({i \in Items : item[i].personal # None}) <= scope.personal
    /\ Cardinality({g \in Groups : group[g] # "none"}) <= scope.groups
    /\ Cardinality({a \in Approvals : approval[a] # NoApproval}) <= scope.approvals
    /\ Cardinality({q \in Requests : request[q] # Idle}) <= scope.requests
    /\ Cardinality(grants) <= scope.grants
    /\ scope.members \subseteq active

StaysWithinAScope == \E scope \in Scopes : Within(scope)'

Symmetry == Permutations(Items) \cup Permutations(Requests)
=============================================================================

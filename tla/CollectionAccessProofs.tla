----------------------- MODULE CollectionAccessProofs -----------------------
(***************************************************************************)
(* Proofs about CollectionAccess for any items, members, groups and        *)
(* requests for a role, with any number of requests in flight together.    *)
(***************************************************************************)
EXTENDS CollectionAccess, FiniteSetTheorems, WellFoundedInduction, TLAPS

Row == [pc : {"idle", "authenticated", "granting", "deciding"},
        actor : Users \cup {None}, groups : SUBSET Groups,
        decides : Approvals \cup {None}, status : {"none", "approved", "denied", "cancelled"},
        item : Items \cup {None}, principal : Principals \cup {None},
        role : Roles \cup {"none"}, seen : SUBSET Grant]

(* What is known of one request.                                           *)
Sound(r) ==
    /\ r.pc # "idle" => r.actor \in Users
    /\ r.pc \in {"granting", "deciding"} =>
          r.item \in Items /\ r.principal \in Principals /\ r.role \in Roles
    /\ r.pc = "deciding" => /\ r.decides \in Approvals
                            /\ r.status \in {"approved", "denied", "cancelled"}

Prepared == \A q \in Requests : Sound(request[q])

(* A request for a role names who asks, for what, and which role.          *)
Asked ==
    \A a \in Approvals : approval[a].status # "none" =>
        /\ approval[a].requester \in Users
        /\ approval[a].target \in Items
        /\ approval[a].role \in Roles

Typed == TypeOK /\ Prepared /\ Asked

(* What is being decided is not decided yet, nor by anyone else: this is   *)
(* what the lock of the row is for.                                        *)
Deciders == {q \in Requests : request[q].pc = "deciding"}
Locked ==
    /\ \A q \in Deciders : approval[request[q].decides].status = "pending"
    /\ \A p, q \in Deciders : p # q => request[p].decides # request[q].decides

IInv == Typed /\ Locked /\ GrantsFollowDecision

-----------------------------------------------------------------------------
(* Type correctness *)

LEMMA TypedParts ==
    Typed <=> /\ item \in [Items -> ItemRow]
              /\ grants \subseteq Grant
              /\ active \subseteq Users
              /\ group \in [Groups -> {"none", "active", "inactive", "deleted"}]
              /\ member \subseteq Groups \X Users
              /\ approval \in [Approvals -> ApprovalRow]
              /\ request \in [Requests -> Row]
              /\ Prepared /\ Asked
BY DEF Typed, TypeOK, Row

LEMMA IdleType == Idle \in Row /\ Sound(Idle) /\ Idle.pc = "idle"
BY DEF Idle, Row, Sound

LEMMA TypedInit == Init => Typed
<1> SUFFICES ASSUME Init PROVE Typed
  OBVIOUS
<1>1. item \in [Items -> ItemRow]
  BY DEF Init, NoItem, ItemRow
<1>2. approval \in [Approvals -> ApprovalRow] /\ Asked
  BY DEF Init, NoApproval, ApprovalRow, Asked
<1>3. request \in [Requests -> Row] /\ Prepared
  BY IdleType DEF Init, Prepared
<1> QED BY <1>1, <1>2, <1>3, TypedParts DEF Init

(* A request that is answered is forgotten; any other keeps to its type.   *)
LEMMA RequestType ==
    ASSUME Typed, NEW q \in Requests, NEW r \in Row, Sound(r), request' = [request EXCEPT ![q] = r]
    PROVE  request' \in [Requests -> Row] /\ Prepared'
BY TypedParts DEF Prepared

LEMMA DoneType ==
    ASSUME Typed, NEW q \in Requests, Done(q)
    PROVE  request' \in [Requests -> Row] /\ Prepared'
BY IdleType, RequestType DEF Done

(* A grant that is written is one of a collection to a principal.          *)
LEMMA GrantType ==
    ASSUME NEW i \in Items, NEW p \in Principals, NEW r \in Roles, NEW via \in Approvals \cup {None}
    PROVE  [item |-> i, principal |-> p, role |-> r, via |-> via] \in Grant
BY DEF Grant

LEMMA ReplaceType ==
    ASSUME Typed, NEW q \in Requests, request[q].pc \in {"granting", "deciding"},
           NEW via \in Approvals \cup {None}, ReplaceGrants(q, via)
    PROVE  grants' \subseteq Grant
<1>1. request[q].item \in Items /\ request[q].principal \in Principals /\ request[q].role \in Roles
  BY TypedParts DEF Prepared, Sound
<1> QED BY <1>1, GrantType, TypedParts DEF ReplaceGrants

LEMMA EnsureType ==
    ASSUME Typed, NEW q \in Requests, NEW use \in Uses, NEW i \in Items,
           EnsurePersonalCollection(q, use, i)
    PROVE  /\ grants' \subseteq Grant
           /\ request[q].actor \in Users
           /\ PrivateRow(request[q].actor, use) \in ItemRow
<1>1. request[q].actor \in Users
  BY TypedParts DEF EnsurePersonalCollection, Asks, Prepared, Sound
<1>2. PrivateRow(request[q].actor, use) \in ItemRow
  BY <1>1 DEF PrivateRow, ItemRow
<1>3. [item |-> i, principal |-> request[q].actor, role |-> "collection_owner", via |-> None] \in Grant
  BY <1>1, GrantType DEF Principals, Roles
<1>4. grants' \subseteq Grant
  BY <1>3, TypedParts DEF EnsurePersonalCollection
<1> QED BY <1>1, <1>2, <1>4

LEMMA GroupsType ==
    ASSUME NEW u
    PROVE  GroupsOf(u) \in SUBSET Groups
BY DEF GroupsOf

LEMMA TypedNext == Typed /\ Locked /\ [Next]_vars => Typed'
<1> SUFFICES ASSUME Typed, Locked, [Next]_vars PROVE Typed'
  OBVIOUS
<1> DEFINE Goal == /\ item' \in [Items -> ItemRow]
                   /\ grants' \subseteq Grant
                   /\ active' \subseteq Users
                   /\ group' \in [Groups -> {"none", "active", "inactive", "deleted"}]
                   /\ member' \subseteq Groups \X Users
                   /\ approval' \in [Approvals -> ApprovalRow]
                   /\ request' \in [Requests -> Row]
                   /\ Prepared' /\ Asked'
<1> SUFFICES Goal
  BY DEF Typed, TypeOK, Row
<1>0. /\ item \in [Items -> ItemRow]
      /\ grants \subseteq Grant
      /\ active \subseteq Users
      /\ group \in [Groups -> {"none", "active", "inactive", "deleted"}]
      /\ member \subseteq Groups \X Users
      /\ approval \in [Approvals -> ApprovalRow]
      /\ request \in [Requests -> Row]
      /\ Prepared /\ Asked
  BY TypedParts
<1>1. ASSUME NEW q \in Requests, Authenticate(q) PROVE Goal
  <2>1. PICK u \in active :
          request' = [request EXCEPT ![q].pc = "authenticated", ![q].actor = u, ![q].groups = GroupsOf(u)]
    BY <1>1 DEF Authenticate
  <2> DEFINE r == [request[q] EXCEPT !.pc = "authenticated", !.actor = u, !.groups = GroupsOf(u)]
  <2>2. r \in Row /\ Sound(r)
    <3>1. request[q] \in Row /\ u \in Users /\ GroupsOf(u) \in SUBSET Groups
      BY <1>0, GroupsType
    <3>2. r \in Row /\ r.pc = "authenticated" /\ r.actor = u
      BY <3>1 DEF Row
    <3> HIDE DEF r
    <3> QED BY <3>1, <3>2 DEF Sound
  <2>3. request' = [request EXCEPT ![q] = r]
    BY <1>0, <2>1
  <2> HIDE DEF r
  <2>4. request' \in [Requests -> Row] /\ Prepared'
    BY <2>2, <2>3, RequestType
  <2> QED BY <1>0, <1>1, <2>4 DEF Authenticate, Asked
<1>2. ASSUME NEW q \in Requests, Refuse(q) PROVE Goal
  BY <1>0, <1>2, DoneType DEF Refuse, Asked
<1>3. ASSUME NEW q \in Requests, CreateCollection(q) PROVE Goal
  <2>1. PICK i \in Items, inherit \in BOOLEAN, p \in Items \cup {None} :
          /\ Insert(i, "collection", p, inherit)
          /\ grants' = grants \cup {[item |-> i, principal |-> request[q].actor,
                                     role |-> "collection_owner", via |-> None]}
    BY <1>3 DEF CreateCollection
  <2>2. request[q].actor \in Principals
    BY <1>0, <1>3 DEF CreateCollection, Principals
  <2>3. grants' \subseteq Grant
    BY <1>0, <2>1, <2>2, GrantType DEF Roles
  <2>4. item' \in [Items -> ItemRow]
    BY <1>0, <2>1 DEF Insert, ItemRow
  <2> QED BY <1>0, <1>3, <2>3, <2>4, DoneType DEF CreateCollection, Asked
<1>4. ASSUME NEW q \in Requests, Upload(q) PROVE Goal
  <2>1. item' \in [Items -> ItemRow]
    BY <1>0, <1>4 DEF Upload, CreateDocument, Insert, ItemRow
  <2> QED BY <1>0, <1>4, <2>1, DoneType DEF Upload, Asked
<1>5. ASSUME NEW q \in Requests, DeleteItem(q) PROVE Goal
  <2>1. item' \in [Items -> ItemRow]
    BY <1>0, <1>5 DEF DeleteItem, ItemRow
  <2> QED BY <1>0, <1>5, <2>1, DoneType DEF DeleteItem, Asked
<1>6. ASSUME NEW q \in Requests, OpenPersonalUploads(q) PROVE Goal
  <2>1. PICK i \in Items : /\ EnsurePersonalCollection(q, "uploads", i)
                           /\ item' = [item EXCEPT ![i] = PrivateRow(request[q].actor, "uploads")]
    BY <1>6 DEF OpenPersonalUploads
  <2>2. grants' \subseteq Grant /\ PrivateRow(request[q].actor, "uploads") \in ItemRow
    BY <2>1, EnsureType DEF Uses
  <2>3. item' \in [Items -> ItemRow]
    BY <1>0, <2>1, <2>2
  <2> QED BY <1>0, <1>6, <2>2, <2>3, DoneType DEF OpenPersonalUploads, Asked
<1>7. ASSUME NEW q \in Requests, CreateArtifact(q) PROVE Goal
  <2>1. PICK i \in Items, d \in Items :
          /\ EnsurePersonalCollection(q, "artifacts", i)
          /\ item' = [item EXCEPT ![i] = PrivateRow(request[q].actor, "artifacts"),
                                  ![d] = [row |-> "live", kind |-> "document", parent |-> i,
                                          inherit |-> TRUE, personal |-> None]]
    BY <1>7 DEF CreateArtifact
  <2>2. grants' \subseteq Grant /\ PrivateRow(request[q].actor, "artifacts") \in ItemRow
    BY <2>1, EnsureType DEF Uses
  <2>3. [row |-> "live", kind |-> "document", parent |-> i, inherit |-> TRUE, personal |-> None] \in ItemRow
    BY DEF ItemRow
  <2>4. item' \in [Items -> ItemRow]
    BY <1>0, <2>1, <2>2, <2>3
  <2> QED BY <1>0, <1>7, <2>2, <2>4, DoneType DEF CreateArtifact, Asked
<1>8. ASSUME NEW q \in Requests, ShareBegins(q) PROVE Goal
  <2>1. PICK i \in Items, p \in Principals, role \in Roles :
          /\ MayUse(q, i, "collection.share")
          /\ request' = [request EXCEPT ![q].pc = "granting", ![q].item = i, ![q].principal = p,
                                        ![q].role = role, ![q].seen = GrantsOf(i, p)]
    BY <1>8 DEF ShareBegins
  <2> DEFINE r == [request[q] EXCEPT !.pc = "granting", !.item = i, !.principal = p,
                                     !.role = role, !.seen = GrantsOf(i, p)]
  <2>2. request[q].actor \in Users
    BY <1>0, <2>1 DEF MayUse, Prepared, Sound
  <2>3. r \in Row /\ Sound(r)
    BY <1>0, <2>2, ZenonT(40) DEF Row, Sound, GrantsOf
  <2>4. request' = [request EXCEPT ![q] = r]
    BY <1>0, <2>1
  <2> HIDE DEF r
  <2>5. request' \in [Requests -> Row] /\ Prepared'
    BY <2>3, <2>4, RequestType
  <2> QED BY <1>0, <1>8, <2>5 DEF ShareBegins, Asked
<1>9. ASSUME NEW q \in Requests, ShareEnds(q) PROVE Goal
  <2>1. grants' \subseteq Grant
    BY <1>9, ReplaceType DEF ShareEnds
  <2> QED BY <1>0, <1>9, <2>1, DoneType DEF ShareEnds, Asked
<1>10. ASSUME NEW q \in Requests, Revoke(q) PROVE Goal
  BY <1>0, <1>10, DoneType DEF Revoke, RevokeRole, Asked
<1>11. ASSUME NEW q \in Requests, CreateApproval(q) PROVE Goal
  <2>1. PICK a \in Approvals, u \in Users, i \in Items, role \in Roles :
          approval' = [approval EXCEPT ![a] = [status |-> "pending", requester |-> u,
                                               target |-> i, role |-> role]]
    BY <1>11 DEF CreateApproval
  <2>2. approval' \in [Approvals -> ApprovalRow] /\ Asked'
    BY <1>0, <2>1 DEF ApprovalRow, Asked
  <2> QED BY <1>0, <1>11, <2>2, DoneType DEF CreateApproval
<1>12. ASSUME NEW q \in Requests, DecideBegins(q) PROVE Goal
  <2>1. PICK a \in Approvals, status \in {"approved", "denied", "cancelled"} :
          /\ approval[a].status = "pending"
          /\ request' = [request EXCEPT ![q] = Decision(request[q], a, status)]
    BY <1>12 DEF DecideBegins
  <2> DEFINE r == Decision(request[q], a, status)
  <2>2. request[q].actor \in Users
    BY <1>0, <1>12 DEF DecideBegins, Prepared, Sound
  <2>3. /\ approval[a].requester \in Users
        /\ approval[a].target \in Items
        /\ approval[a].role \in Roles
    BY <1>0, <2>1 DEF Asked
  <2> DEFINE seen == IF status = "approved"
                     THEN GrantsOf(approval[a].target, approval[a].requester) ELSE {}
  <2>4. seen \in SUBSET Grant
    BY <1>0 DEF GrantsOf
  <2>5. r = [pc |-> "deciding", actor |-> request[q].actor, groups |-> request[q].groups,
             decides |-> a, status |-> status, item |-> approval[a].target,
             principal |-> approval[a].requester, role |-> approval[a].role, seen |-> seen]
    BY DEF Decision
  <2> HIDE DEF seen
  <2>6. r \in Row /\ Sound(r)
    <3>1. request[q].actor \in Users \cup {None} /\ request[q].groups \in SUBSET Groups
      BY <1>0 DEF Row
    <3> HIDE DEF r
    <3> QED BY <2>2, <2>3, <2>4, <2>5, <3>1 DEF Row, Sound, Principals
  <2> HIDE DEF r
  <2>7. request' \in [Requests -> Row] /\ Prepared'
    BY <2>1, <2>6, RequestType DEF r
  <2> QED BY <1>0, <1>12, <2>7 DEF DecideBegins, Asked
<1>13. ASSUME NEW q \in Requests, DecideEnds(q) PROVE Goal
  <2> DEFINE a == request[q].decides
  <2>1. a \in Approvals /\ request[q].status \in {"approved", "denied", "cancelled"}
    BY <1>0, <1>13 DEF DecideEnds, Prepared, Sound
  <2>2. approval' = [approval EXCEPT ![a].status = request[q].status]
    BY <1>13 DEF DecideEnds
  <2>3. Asked'
    BY <1>0, <1>13, <2>1, <2>2 DEF DecideEnds, Asked, Locked, Deciders, ApprovalRow
  <2>4. approval' \in [Approvals -> ApprovalRow]
    BY <1>0, <2>1, <2>2 DEF ApprovalRow
  <2>5. request[q].item \in Items /\ request[q].principal \in Principals /\ request[q].role \in Roles
    BY <1>0, <1>13 DEF DecideEnds, Prepared, Sound
  <2>6. grants' \subseteq Grant
    BY <1>0, <1>13, <2>1, ReplaceType DEF DecideEnds
  <2> QED BY <1>0, <1>13, <2>3, <2>4, <2>6, DoneType DEF DecideEnds
<1>14. ASSUME NEW q \in Requests, CreateGroup(q) PROVE Goal
  BY <1>0, <1>14, DoneType DEF CreateGroup, Asked
<1>15. ASSUME NEW q \in Requests, UpdateGroup(q) PROVE Goal
  BY <1>0, <1>15, DoneType DEF UpdateGroup, Asked
<1>16. ASSUME NEW q \in Requests, ReplaceMembers(q) PROVE Goal
  <2>1. member' \subseteq Groups \X Users
    BY <1>0, <1>16 DEF ReplaceMembers, Memberships
  <2> QED BY <1>0, <1>16, <2>1, DoneType DEF ReplaceMembers, Asked
<1>17. ASSUME NEW q \in Requests, DeleteGroup(q) PROVE Goal
  <2>1. member' \subseteq Groups \X Users
    BY <1>0, <1>17 DEF DeleteGroup
  <2>2. group' \in [Groups -> {"none", "active", "inactive", "deleted"}]
    BY <1>0, <1>17 DEF DeleteGroup
  <2> QED BY <1>0, <1>17, <2>1, <2>2, DoneType DEF DeleteGroup, Asked
<1>18. ASSUME NEW q \in Requests, UpdateStatus(q) PROVE Goal
  <2>1. active' \subseteq Users
    BY <1>0, <1>18 DEF UpdateStatus
  <2> QED BY <1>0, <1>18, <2>1, DoneType DEF UpdateStatus, Asked
<1>19. ASSUME NEW q \in Requests, ReplaceGroups(q) PROVE Goal
  <2>1. member' \subseteq Groups \X Users
    BY <1>0, <1>19 DEF ReplaceGroups
  <2> QED BY <1>0, <1>19, <2>1, DoneType DEF ReplaceGroups, Asked
<1>20. CASE UNCHANGED vars
  BY <1>0, <1>20 DEF vars, Prepared, Asked
<1> QED
  BY <1>1, <1>2, <1>3, <1>4, <1>5, <1>6, <1>7, <1>8, <1>9, <1>10, <1>11, <1>12, <1>13, <1>14,
     <1>15, <1>16, <1>17, <1>18, <1>19, <1>20 DEF Next, Handle

-----------------------------------------------------------------------------
(* Decisions *)

(* Whoever does not begin or end a decision leaves the deciders alone.     *)
LEMMA LockedKept ==
    ASSUME Typed, Locked, NEW q \in Requests, Done(q) \/ request'[q].pc \notin {"deciding"},
           \A p \in Requests \ {q} : request'[p] = request[p],
           \A a \in Approvals : approval[a].status = "pending" => approval'[a] = approval[a]
    PROVE  Locked'
<1>1. request'[q].pc # "deciding"
  BY IdleType, TypedParts DEF Done
<1>2. \A p \in Deciders' : p \in Deciders /\ p # q /\ request'[p] = request[p]
  BY <1>1 DEF Deciders
<1>3. \A p \in Deciders : request[p].decides \in Approvals
  BY TypedParts DEF Prepared, Sound, Deciders
<1> QED BY <1>2, <1>3 DEF Locked

LEMMA LockedNext == Typed /\ Locked /\ [Next]_vars => Locked'
<1> SUFFICES ASSUME Typed, Locked, [Next]_vars PROVE Locked'
  OBVIOUS
<1>0. request \in [Requests -> Row] /\ approval \in [Approvals -> ApprovalRow]
  BY TypedParts
<1>1. ASSUME NEW q \in Requests, Authenticate(q) \/ ShareBegins(q) PROVE Locked'
  <2>1. request'[q].pc \in {"authenticated", "granting"}
    <3>1. request[q] \in Row
      BY <1>0
    <3>2. CASE Authenticate(q)
      BY <1>0, <3>1, <3>2 DEF Authenticate, Row
    <3>3. CASE ShareBegins(q)
      BY <1>0, <3>1, <3>3 DEF ShareBegins, Row
    <3> QED BY <1>1, <3>2, <3>3
  <2>2. \A p \in Requests \ {q} : request'[p] = request[p]
    BY <1>0, <1>1 DEF Authenticate, ShareBegins
  <2> QED BY <1>1, <2>1, <2>2, LockedKept DEF Authenticate, ShareBegins
<1>2. ASSUME NEW q \in Requests, Done(q), UNCHANGED approval PROVE Locked'
  <2>1. \A p \in Requests \ {q} : request'[p] = request[p]
    BY <1>0, <1>2 DEF Done
  <2> QED BY <1>2, <2>1, LockedKept
<1>3. ASSUME NEW q \in Requests, CreateApproval(q) PROVE Locked'
  <2>1. \A p \in Requests \ {q} : request'[p] = request[p]
    BY <1>0, <1>3 DEF CreateApproval, Done
  <2>2. \A a \in Approvals : approval[a].status = "pending" => approval'[a] = approval[a]
    BY <1>0, <1>3 DEF CreateApproval, NoApproval
  <2> QED BY <1>3, <2>1, <2>2, LockedKept DEF CreateApproval
<1>4. ASSUME NEW q \in Requests, DecideBegins(q) PROVE Locked'
  <2>1. PICK a \in Approvals, status \in {"approved", "denied", "cancelled"} :
          /\ LockApproval(q, a)
          /\ approval[a].status = "pending"
          /\ request' = [request EXCEPT ![q] = Decision(request[q], a, status)]
    BY <1>4 DEF DecideBegins
  <2>5. request'[q].decides = a
    BY <1>0, <2>1 DEF Decision, Row
  <2>2. \A p \in Requests \ {q} : request'[p] = request[p]
    BY <1>0, <1>4 DEF DecideBegins
  <2>3. \A p \in Deciders' \ {q} : p \in Deciders /\ request[p].decides # a
    BY <2>1, <2>2 DEF Deciders, LockApproval
  <2>4. approval' = approval
    BY <1>4 DEF DecideBegins
  <2> QED BY <2>1, <2>2, <2>3, <2>4, <2>5 DEF Locked, Deciders
<1>5. ASSUME NEW q \in Requests, DecideEnds(q) PROVE Locked'
  <2> DEFINE a == request[q].decides
  <2>1. q \in Deciders /\ a \in Approvals
    BY <1>0, <1>5, TypedParts DEF DecideEnds, Deciders, Prepared, Sound
  <2>2. \A p \in Requests \ {q} : request'[p] = request[p]
    BY <1>0, <1>5 DEF DecideEnds, Done
  <2>3. request'[q].pc # "deciding"
    BY <1>0, <1>5, IdleType DEF DecideEnds, Done
  <2>4. \A b \in Approvals \ {a} : approval'[b] = approval[b]
    BY <1>0, <1>5 DEF DecideEnds
  <2>5. \A p \in Deciders' : /\ p \in Deciders /\ p # q /\ request'[p] = request[p]
                             /\ request[p].decides \in Approvals \ {a}
    BY <2>1, <2>2, <2>3, TypedParts DEF Deciders, Locked, Prepared, Sound
  <2> QED BY <2>4, <2>5 DEF Locked
<1>6. CASE UNCHANGED vars
  BY <1>6 DEF vars, Locked, Deciders
<1>7. ASSUME NEW q \in Requests, Handle(q) PROVE Locked'
  <2>1. \/ Authenticate(q) \/ ShareBegins(q)
        \/ CreateApproval(q) \/ DecideBegins(q) \/ DecideEnds(q)
        \/ Done(q) /\ UNCHANGED approval
    BY <1>7 DEF Handle, Refuse, CreateCollection, Upload, DeleteItem, OpenPersonalUploads,
          CreateArtifact, ShareEnds, Revoke, CreateGroup, UpdateGroup, ReplaceMembers,
          DeleteGroup, UpdateStatus, ReplaceGroups
  <2> QED BY <1>1, <1>2, <1>3, <1>4, <1>5, <2>1
<1> QED BY <1>6, <1>7 DEF Next

(* Only the end of a decision writes a grant that comes from a request.    *)
LEMMA GrantsNext == IInv /\ [Next]_vars => GrantsFollowDecision'
<1> SUFFICES ASSUME IInv, [Next]_vars PROVE GrantsFollowDecision'
  OBVIOUS
<1>0. /\ request \in [Requests -> Row] /\ approval \in [Approvals -> ApprovalRow]
      /\ grants \subseteq Grant /\ GrantsFollowDecision /\ Locked /\ Typed
  BY TypedParts DEF IInv
<1>1. ASSUME \A g \in grants' : g.via # None => g \in grants,
             \A a \in Approvals : approval[a].status = "approved" => approval'[a].status = "approved"
      PROVE  GrantsFollowDecision'
  BY <1>0, <1>1 DEF GrantsFollowDecision, Grant
<1>2. ASSUME UNCHANGED <<grants, approval>> PROVE GrantsFollowDecision'
  BY <1>1, <1>2
<1>3. ASSUME NEW q \in Requests, CreateCollection(q) \/ OpenPersonalUploads(q) \/ CreateArtifact(q)
                                  \/ Revoke(q) \/ ShareEnds(q)
      PROVE  GrantsFollowDecision'
  <2>1. approval' = approval
    BY <1>3 DEF CreateCollection, OpenPersonalUploads, CreateArtifact, Revoke, ShareEnds
  <2>2. CASE CreateCollection(q)
    BY <1>1, <2>1, <2>2 DEF CreateCollection
  <2>3. CASE OpenPersonalUploads(q)
    BY <1>1, <2>1, <2>3 DEF OpenPersonalUploads, EnsurePersonalCollection
  <2>4. CASE CreateArtifact(q)
    BY <1>1, <2>1, <2>4 DEF CreateArtifact, EnsurePersonalCollection
  <2>5. CASE Revoke(q)
    BY <1>1, <2>1, <2>5 DEF Revoke, RevokeRole
  <2>6. CASE ShareEnds(q)
    BY <1>1, <2>1, <2>6 DEF ShareEnds, ReplaceGrants
  <2> QED BY <1>3, <2>2, <2>3, <2>4, <2>5, <2>6
<1>4. ASSUME NEW q \in Requests, CreateApproval(q) PROVE GrantsFollowDecision'
  <2>1. \A a \in Approvals : approval[a].status = "approved" => approval'[a].status = "approved"
    BY <1>0, <1>4 DEF CreateApproval, NoApproval
  <2> QED BY <1>1, <1>4, <2>1 DEF CreateApproval
<1>5. ASSUME NEW q \in Requests, DecideEnds(q) PROVE GrantsFollowDecision'
  <2> DEFINE a == request[q].decides
  <2>1. a \in Approvals /\ approval[a].status = "pending"
    BY <1>0, <1>5, TypedParts DEF DecideEnds, Prepared, Sound, Locked, Deciders
  <2>2. /\ approval'[a].status = request[q].status
        /\ \A b \in Approvals \ {a} : approval'[b] = approval[b]
    BY <1>0, <1>5, <2>1 DEF DecideEnds, ApprovalRow
  <2>3. \A g \in grants : g.via # None => g.via \in Approvals \ {a} /\ approval'[g.via].status = "approved"
    BY <1>0, <2>1, <2>2 DEF GrantsFollowDecision, Grant
  <2>4. \A g \in grants' : g \in grants \/ (g.via = a /\ request[q].status = "approved")
    BY <1>5 DEF DecideEnds, ReplaceGrants
  <2> QED BY <2>2, <2>3, <2>4 DEF GrantsFollowDecision
<1>6. ASSUME NEW q \in Requests, Handle(q) PROVE GrantsFollowDecision'
  <2>1. \/ CreateCollection(q) \/ OpenPersonalUploads(q) \/ CreateArtifact(q) \/ Revoke(q) \/ ShareEnds(q)
        \/ CreateApproval(q) \/ DecideEnds(q)
        \/ UNCHANGED <<grants, approval>>
    BY <1>6 DEF Handle, Authenticate, Refuse, Upload, DeleteItem, ShareBegins, DecideBegins,
          CreateGroup, UpdateGroup, ReplaceMembers, DeleteGroup, UpdateStatus, ReplaceGroups
  <2> QED BY <1>2, <1>3, <1>4, <1>5, <2>1
<1> QED BY <1>2, <1>6 DEF Next, vars

LEMMA Inductive == Spec => []IInv
<1>1. Init => IInv
  BY TypedInit DEF Init, IInv, Locked, Deciders, Idle, GrantsFollowDecision
<1>2. IInv /\ [Next]_vars => IInv'
  BY TypedNext, LockedNext, GrantsNext DEF IInv
<1> QED BY <1>1, <1>2, PTL DEF Spec

(* The state of CollectionAccess is always of its type, however many       *)
(* requests are under way: a grant always names a collection, a principal  *)
(* and a role.                                                             *)
THEOREM TypeCorrect == Spec => []TypeOK
<1>1. IInv => TypeOK
  BY DEF IInv, Typed
<1> QED BY <1>1, Inductive, PTL

(* Whoever decides, and however many at once, a role that came from a      *)
(* request stands on a request that is approved (update_request).          *)
THEOREM DecisionsHold == Spec => []GrantsFollowDecision
<1>1. IInv => GrantsFollowDecision
  BY DEF IInv
<1> QED BY <1>1, Inductive, PTL


-----------------------------------------------------------------------------
(* Steps that only add, repeated as often as there are elements *)

LEMMA SmallestNumber ==
    ASSUME NEW T \in SUBSET Nat, T # {}
    PROVE  \E n \in T : \A m \in T : n <= m
<1> DEFINE Less == OpToRel(<, Nat)
<1>1. \E n \in T : \A m \in T : ~(<<m, n>> \in Less)
  <2>1. IsWellFoundedOn(Less, Nat)
    BY NatLessThanWellFounded
  <2> HIDE DEF Less
  <2> QED BY <2>1, WFMin, Zenon
<1>2. PICK n \in T : \A m \in T : ~(m < n)
  BY <1>1 DEF OpToRel
<1> QED BY <1>2

(* Induction, on the set of the numbers for which something holds.         *)
LEMMA AllNumbers ==
    ASSUME NEW T \in SUBSET Nat, 0 \in T, \A n \in T : n + 1 \in T
    PROVE  T = Nat
<1> SUFFICES ASSUME Nat \ T # {} PROVE FALSE
  OBVIOUS
<1>1. PICK n \in Nat \ T : \A m \in Nat \ T : n <= m
  BY SmallestNumber
<1>2. n # 0 /\ n - 1 \in Nat /\ n - 1 < n
  BY <1>1
<1>3. n - 1 \in T
  BY <1>1, <1>2
<1> QED BY <1>1, <1>2, <1>3

(* next takes a set of elements to a larger one.                           *)
Grows(S, next) == next \in [SUBSET S -> SUBSET S] /\ \A A \in SUBSET S : A \subseteq next[A]
Repeated(f, start, next) == f = [n \in Nat |-> IF n = 0 THEN start ELSE next[f[n - 1]]]

(* There is such a function: for every m there is one up to m, of two the  *)
(* shorter is the beginning of the longer.                                 *)
LEMMA RepeatedExists ==
    ASSUME NEW start, NEW next
    PROVE  \E f : Repeated(f, start, next)
<1> DEFINE UpTo(g, m) == g = [n \in 0..m |-> IF n = 0 THEN start ELSE next[g[n - 1]]]
<1>1. ASSUME NEW m \in Nat, NEW l \in Nat, m <= l, NEW g, UpTo(g, m), NEW h, UpTo(h, l)
      PROVE  g[m] = h[m]
  <2> DEFINE T == {n \in Nat : n <= m => g[n] = h[n]}
  <2>1. \A n \in 0..m : g[n] = (IF n = 0 THEN start ELSE next[g[n - 1]])
    BY <1>1
  <2>2. \A n \in 0..m : h[n] = (IF n = 0 THEN start ELSE next[h[n - 1]])
    BY <1>1
  <2>3. 0 \in T
    BY <2>1, <2>2
  <2>4. ASSUME NEW n \in T PROVE n + 1 \in T
    BY <2>1, <2>2, <2>4
  <2>5. T = Nat
    <3> HIDE DEF T
    <3>1. T \in SUBSET Nat
      BY DEF T
    <3> QED BY <2>3, <2>4, <3>1, AllNumbers
  <2> QED BY <2>5
<1>2. \A m \in Nat : \E g : UpTo(g, m)
  <2> DEFINE T == {m \in Nat : \E g : UpTo(g, m)}
  <2>1. 0 \in T
    <3>1. UpTo([n \in 0..0 |-> start], 0)
      OBVIOUS
    <3> QED BY <3>1
  <2>2. ASSUME NEW m \in T PROVE m + 1 \in T
    <3>1. PICK g : UpTo(g, m)
      BY <2>2
    <3> DEFINE h == [n \in 0..(m + 1) |-> IF n = 0 THEN start ELSE next[g[n - 1]]]
    <3>2. \A n \in 0..m : h[n] = g[n]
      <4>1. \A n \in 0..m : g[n] = (IF n = 0 THEN start ELSE next[g[n - 1]])
        BY <3>1
      <4> QED BY <2>2, <4>1
    <3>3. \A n \in 0..(m + 1) : h[n] = (IF n = 0 THEN start ELSE next[h[n - 1]])
      <4>1. \A n \in 0..(m + 1) : h[n] = (IF n = 0 THEN start ELSE next[g[n - 1]])
        BY <2>2
      <4>2. \A n \in 0..(m + 1) : n # 0 => h[n - 1] = g[n - 1]
        <5> HIDE DEF h
        <5> QED BY <2>2, <3>2
      <4> HIDE DEF h
      <4> QED BY <4>1, <4>2
    <3>4. UpTo(h, m + 1)
      <4> DEFINE k == [n \in 0..(m + 1) |-> IF n = 0 THEN start ELSE next[h[n - 1]]]
      <4>1. DOMAIN h = 0..(m + 1) /\ DOMAIN k = 0..(m + 1)
        OBVIOUS
      <4>2. \A n \in 0..(m + 1) : h[n] = k[n]
        BY <3>3
      <4> QED BY <4>1, <4>2
    <3> HIDE DEF h
    <3> QED BY <2>2, <3>4
  <2>3. T = Nat
    <3> HIDE DEF T
    <3>1. T \in SUBSET Nat
      BY DEF T
    <3> QED BY <2>1, <2>2, <3>1, AllNumbers
  <2> QED BY <2>3
<1> DEFINE part(m) == CHOOSE g : UpTo(g, m)
           f == [n \in Nat |-> part(n)[n]]
<1>3. \A m \in Nat : UpTo(part(m), m)
  BY <1>2
<1>4. \A m \in Nat : f[m] = IF m = 0 THEN start ELSE next[f[m - 1]]
  <2> SUFFICES ASSUME NEW m \in Nat PROVE f[m] = IF m = 0 THEN start ELSE next[f[m - 1]]
    OBVIOUS
  <2>1. f[m] = part(m)[m]
    OBVIOUS
  <2>2. part(m)[m] = IF m = 0 THEN start ELSE next[part(m)[m - 1]]
    <3>1. UpTo(part(m), m)
      BY <1>3
    <3> HIDE DEF part
    <3> QED BY <3>1
  <2>3. CASE m # 0
    <3>1. m - 1 \in Nat /\ m - 1 <= m
      BY <2>3
    <3>2. f[m - 1] = part(m - 1)[m - 1]
      BY <3>1
    <3>3. part(m - 1)[m - 1] = part(m)[m - 1]
      <4>1. UpTo(part(m), m) /\ UpTo(part(m - 1), m - 1)
        BY <1>3, <3>1
      <4> HIDE DEF part, UpTo
      <4> QED BY <1>1, <3>1, <4>1
    <3> HIDE DEF f, part
    <3> QED BY <2>1, <2>2, <2>3, <3>2, <3>3
  <2> HIDE DEF f, part
  <2> QED BY <2>1, <2>2, <2>3
<1>5. f = [n \in Nat |-> IF n = 0 THEN start ELSE next[f[n - 1]]]
  <2> DEFINE k == [n \in Nat |-> IF n = 0 THEN start ELSE next[f[n - 1]]]
  <2>1. DOMAIN f = Nat /\ DOMAIN k = Nat
    OBVIOUS
  <2>2. \A n \in Nat : f[n] = k[n]
    BY <1>4, SMTT(20)
  <2>3. f = [n \in Nat |-> f[n]] /\ k = [n \in Nat |-> k[n]]
    OBVIOUS
  <2> QED BY <2>2, <2>3
<1> HIDE DEF f
<1> QED BY <1>5 DEF Repeated

(* The smallest set with the elements of start that next adds nothing to.  *)
IsClosure(S, start, next, closure) ==
    /\ closure \in SUBSET S /\ start \subseteq closure /\ next[closure] = closure
    /\ \A C \in SUBSET S : start \subseteq C /\ (\A A \in SUBSET C : next[A] \subseteq C) => closure \subseteq C

(* As many steps as there are elements are enough: each step before the    *)
(* last adds one.                                                          *)
LEMMA RepeatedCloses ==
    ASSUME NEW S, IsFiniteSet(S), NEW start \in SUBSET S, NEW next, Grows(S, next),
           NEW f, Repeated(f, start, next)
    PROVE  IsClosure(S, start, next, f[Cardinality(S)])
<1> DEFINE N == Cardinality(S)
<1>0. N \in Nat
  BY FS_CardinalityType
<1>1. f[0] = start /\ \A n \in Nat : f[n + 1] = next[f[n]]
  <2>1. \A n \in Nat : f[n] = IF n = 0 THEN start ELSE next[f[n - 1]]
    BY DEF Repeated
  <2>2. \A n \in Nat : n + 1 \in Nat /\ n + 1 # 0 /\ (n + 1) - 1 = n
    OBVIOUS
  <2>3. ASSUME NEW n \in Nat PROVE f[n + 1] = next[f[n]]
    <3>1. f[n + 1] = next[f[(n + 1) - 1]]
      BY <2>1, <2>2
    <3> QED BY <2>2, <3>1
  <2> QED BY <2>1, <2>3
<1>2. ASSUME NEW C \in SUBSET S, start \subseteq C, \A A \in SUBSET C : next[A] \subseteq C
      PROVE  \A n \in Nat : f[n] \subseteq C
  <2> DEFINE T == {n \in Nat : f[n] \subseteq C}
  <2>1. 0 \in T /\ \A n \in T : n + 1 \in T
    BY <1>1, <1>2
  <2>2. T = Nat
    <3>1. T \in SUBSET Nat
      OBVIOUS
    <3> HIDE DEF T
    <3> QED BY <2>1, <3>1, AllNumbers
  <2> QED BY <2>2
<1>3. \A n \in Nat : f[n] \in SUBSET S
  <2>1. \A A \in SUBSET S : next[A] \subseteq S
    BY DEF Grows
  <2> QED BY <1>2, <2>1
<1>4. \A n \in Nat : f[n] \subseteq f[n + 1]
  BY <1>1, <1>3 DEF Grows
<1>5. start \subseteq f[N]
  <2> DEFINE T == {n \in Nat : start \subseteq f[n]}
  <2>1. 0 \in T /\ \A n \in T : n + 1 \in T
    BY <1>1, <1>4
  <2>2. T = Nat
    <3>1. T \in SUBSET Nat
      OBVIOUS
    <3> HIDE DEF T
    <3> QED BY <2>1, <3>1, AllNumbers
  <2> QED BY <1>0, <2>2
<1>6. f[N + 1] = f[N]
  <2> SUFFICES ASSUME f[N + 1] # f[N] PROVE FALSE
    OBVIOUS
  <2>1. ASSUME NEW n \in Nat, n <= N, f[n + 1] = f[n] PROVE FALSE
    <3> DEFINE T == {m \in Nat : f[n + m + 1] = f[n + m]}
    <3>1. 0 \in T
      BY <2>1
    <3>2. ASSUME NEW m \in T PROVE m + 1 \in T
      <4>1. n + m \in Nat /\ n + m + 1 \in Nat /\ n + (m + 1) = n + m + 1
        OBVIOUS
      <4>2. f[n + m + 1 + 1] = next[f[n + m + 1]] /\ f[n + m + 1] = next[f[n + m]]
        BY <1>1, <4>1
      <4> QED BY <4>1, <4>2
    <3>3. T = Nat
      <4>1. T \in SUBSET Nat
        OBVIOUS
      <4> HIDE DEF T
      <4> QED BY <3>1, <3>2, <4>1, AllNumbers
    <3>4. N - n \in Nat /\ n + (N - n) = N
      BY <1>0, <2>1
    <3> QED BY <3>3, <3>4
  <2> DEFINE T == {n \in Nat : n <= N + 1 => n <= Cardinality(f[n])}
  <2>2. 0 \in T
    BY <1>3, FS_Subset, FS_CardinalityType
  <2>3. ASSUME NEW n \in T PROVE n + 1 \in T
    <3> SUFFICES ASSUME n + 1 <= N + 1 PROVE n + 1 <= Cardinality(f[n + 1])
      OBVIOUS
    <3>1. n <= N /\ n <= Cardinality(f[n])
      BY <1>0
    <3>2. IsFiniteSet(f[n + 1]) /\ f[n] \in SUBSET f[n + 1] /\ f[n + 1] # f[n]
      BY <1>3, <1>4, <2>1, <3>1, FS_Subset
    <3>3. Cardinality(f[n]) <= Cardinality(f[n + 1]) /\ Cardinality(f[n]) # Cardinality(f[n + 1])
      BY <3>2, FS_Subset
    <3>4. Cardinality(f[n]) \in Nat /\ Cardinality(f[n + 1]) \in Nat
      BY <3>2, FS_Subset, FS_CardinalityType
    <3> QED BY <3>1, <3>3, <3>4
  <2>4. T = Nat
    <3>1. T \in SUBSET Nat
      OBVIOUS
    <3> HIDE DEF T
    <3> QED BY <2>2, <2>3, <3>1, AllNumbers
  <2>5. N + 1 <= Cardinality(f[N + 1])
    BY <1>0, <2>4
  <2>6. Cardinality(f[N + 1]) <= N /\ Cardinality(f[N + 1]) \in Nat
    BY <1>0, <1>3, FS_Subset, FS_CardinalityType
  <2> HIDE DEF N
  <2> QED BY <1>0, <2>5, <2>6
<1> HIDE DEF N
<1>7. IsClosure(S, start, next, f[N])
  BY <1>0, <1>1, <1>2, <1>3, <1>5, <1>6 DEF IsClosure
<1> QED BY <1>7 DEF N

LEMMA RepeatedWithin ==
    ASSUME NEW S, NEW start \in SUBSET S, NEW next \in [SUBSET S -> SUBSET S],
           NEW f, Repeated(f, start, next), NEW n \in Nat
    PROVE  f[n] \in SUBSET S
<1> DEFINE T == {m \in Nat : f[m] \in SUBSET S}
<1>1. \A m \in Nat : f[m] = (IF m = 0 THEN start ELSE next[f[m - 1]])
  BY DEF Repeated
<1>2. \A m \in Nat : m + 1 \in Nat /\ m + 1 # 0 /\ (m + 1) - 1 = m
  OBVIOUS
<1>3. f[0] = start /\ \A m \in Nat : f[m + 1] = next[f[m]]
  BY <1>1, <1>2
<1>4. T = Nat
  <2>1. T \in SUBSET Nat /\ 0 \in T /\ \A m \in T : m + 1 \in T
    BY <1>3
  <2> HIDE DEF T
  <2> QED BY <2>1, AllNumbers
<1> QED BY <1>4

(* Climbing and descending are steps that only add.                        *)
ClimbStep == [A \in SUBSET Items |-> Climb(A)]
DescendStep == [A \in SUBSET Items |-> Descend(A)]

LEMMA AncestryCloses ==
    ASSUME NEW i \in Items
    PROVE  IsClosure(Items, {j \in {i} : Live(j)}, ClimbStep, Ancestry(i))
<1> DEFINE start == {j \in {i} : Live(j)}
           By(f) == f = [n \in Nat |-> IF n = 0 THEN start ELSE Climb(f[n - 1])]
           up == CHOOSE f : By(f)
<1>1. start \in SUBSET Items /\ Grows(Items, ClimbStep) /\ ClimbStep \in [SUBSET Items -> SUBSET Items]
      /\ \A A \in SUBSET Items : ClimbStep[A] = Climb(A) /\ Climb(A) \in SUBSET Items
  BY DEF ClimbStep, Climb, Grows
<1> Ancestry(i) = up[Cardinality(Items)]
  BY DEF Ancestry
<1> HIDE DEF start
<1>2. ASSUME NEW f, Repeated(f, start, ClimbStep) PROVE By(f)
  <2>1. \A n \in Nat : n # 0 => f[n - 1] \in SUBSET Items
    <3>1. \A n \in Nat : f[n] \in SUBSET Items
      BY <1>1, <1>2, RepeatedWithin
    <3>2. \A n \in Nat : n # 0 => n - 1 \in Nat
      OBVIOUS
    <3> QED BY <3>1, <3>2
  <2>2. f = [n \in Nat |-> IF n = 0 THEN start ELSE ClimbStep[f[n - 1]]]
    BY <1>2 DEF Repeated
  <2> QED BY <1>1, <2>1, <2>2
<1>3. By(up)
  <2>1. \E f : Repeated(f, start, ClimbStep)
    BY RepeatedExists
  <2>2. \E f : By(f)
    BY <1>2, <2>1
  <2> HIDE DEF By
  <2> QED BY <2>2
<1> HIDE DEF up
<1>4. Repeated(up, start, ClimbStep)
  <2> DEFINE T == {n \in Nat : up[n] \in SUBSET Items}
  <2>1. 0 \in T /\ \A n \in T : n + 1 \in T
    <3>1. \A n \in Nat : up[n] = (IF n = 0 THEN start ELSE Climb(up[n - 1]))
      BY <1>3
    <3>2. \A n \in Nat : n + 1 \in Nat /\ n + 1 # 0 /\ (n + 1) - 1 = n
      OBVIOUS
    <3>3. up[0] = start
      BY <3>1
    <3>4. \A n \in Nat : up[n + 1] = Climb(up[n])
      BY <3>1, <3>2
    <3> QED BY <1>1, <3>3, <3>4
  <2>2. T = Nat
    <3>1. T \in SUBSET Nat
      OBVIOUS
    <3> HIDE DEF T
    <3> QED BY <2>1, <3>1, AllNumbers
  <2>3. \A n \in Nat : n # 0 => n - 1 \in Nat /\ up[n - 1] \in SUBSET Items
    <3>1. \A n \in Nat : n # 0 => n - 1 \in Nat
      OBVIOUS
    <3> QED BY <2>2, <3>1
  <2> QED BY <1>1, <1>3, <2>3 DEF Repeated
<1> QED BY <1>1, <1>4, RepeatedCloses, CollectionAccessAssumption DEF start

LEMMA AllowedCloses ==
    ASSUME NEW u, NEW groups, NEW permission, permission \notin TenantWide[u]
    PROVE  IsClosure(Items, Granted(u, groups, permission), DescendStep, AllowedCollections(u, groups, permission))
<1> DEFINE start == Granted(u, groups, permission)
           By(f) == f = [n \in Nat |-> IF n = 0 THEN start ELSE Descend(f[n - 1])]
           up == CHOOSE f : By(f)
<1>1. start \in SUBSET Items /\ Grows(Items, DescendStep) /\ DescendStep \in [SUBSET Items -> SUBSET Items]
      /\ \A A \in SUBSET Items : DescendStep[A] = Descend(A) /\ Descend(A) \in SUBSET Items
  BY DEF DescendStep, Descend, Granted, Grows
<1> AllowedCollections(u, groups, permission) = up[Cardinality(Items)]
  BY DEF AllowedCollections
<1> HIDE DEF start
<1>2. ASSUME NEW f, Repeated(f, start, DescendStep) PROVE By(f)
  <2>1. \A n \in Nat : n # 0 => f[n - 1] \in SUBSET Items
    <3>1. \A n \in Nat : f[n] \in SUBSET Items
      BY <1>1, <1>2, RepeatedWithin
    <3>2. \A n \in Nat : n # 0 => n - 1 \in Nat
      OBVIOUS
    <3> QED BY <3>1, <3>2
  <2>2. f = [n \in Nat |-> IF n = 0 THEN start ELSE DescendStep[f[n - 1]]]
    BY <1>2 DEF Repeated
  <2> QED BY <1>1, <2>1, <2>2
<1>3. By(up)
  <2>1. \E f : Repeated(f, start, DescendStep)
    BY RepeatedExists
  <2>2. \E f : By(f)
    BY <1>2, <2>1
  <2> HIDE DEF By
  <2> QED BY <2>2
<1> HIDE DEF up
<1>4. Repeated(up, start, DescendStep)
  <2> DEFINE T == {n \in Nat : up[n] \in SUBSET Items}
  <2>1. 0 \in T /\ \A n \in T : n + 1 \in T
    <3>1. \A n \in Nat : up[n] = (IF n = 0 THEN start ELSE Descend(up[n - 1]))
      BY <1>3
    <3>2. \A n \in Nat : n + 1 \in Nat /\ n + 1 # 0 /\ (n + 1) - 1 = n
      OBVIOUS
    <3>3. up[0] = start
      BY <3>1
    <3>4. \A n \in Nat : up[n + 1] = Descend(up[n])
      BY <3>1, <3>2
    <3> QED BY <1>1, <3>3, <3>4
  <2>2. T = Nat
    <3>1. T \in SUBSET Nat
      OBVIOUS
    <3> HIDE DEF T
    <3> QED BY <2>1, <3>1, AllNumbers
  <2>3. \A n \in Nat : n # 0 => n - 1 \in Nat /\ up[n - 1] \in SUBSET Items
    <3>1. \A n \in Nat : n # 0 => n - 1 \in Nat
      OBVIOUS
    <3> QED BY <2>2, <3>1
  <2> QED BY <1>1, <1>3, <2>3 DEF Repeated
<1> QED BY <1>1, <1>4, RepeatedCloses, CollectionAccessAssumption DEF start

(* The step of list_items.                                                 *)
ListedBelow(u, above) ==
    above \cup {i \in Items : /\ Live(i) /\ item[i].parent \in above
                              /\ item[i].kind = "document" \/ i \in Allowed(u)}
ListStep(u) == [A \in SUBSET Items |-> ListedBelow(u, A)]

LEMMA ListedCloses ==
    ASSUME NEW u, Allowed(u) \in SUBSET Items
    PROVE  IsClosure(Items, Allowed(u), ListStep(u), ListItems(u))
<1> DEFINE start == Allowed(u)
           By(f) == f = [n \in Nat |-> IF n = 0 THEN start ELSE ListedBelow(u, f[n - 1])]
           up == CHOOSE f : By(f)
<1>1. start \in SUBSET Items /\ Grows(Items, ListStep(u)) /\ ListStep(u) \in [SUBSET Items -> SUBSET Items]
      /\ \A A \in SUBSET Items : ListStep(u)[A] = ListedBelow(u, A) /\ ListedBelow(u, A) \in SUBSET Items
  BY DEF ListStep, ListedBelow, Grows
<1> ListItems(u) = up[Cardinality(Items)]
  BY DEF ListItems, ListedBelow
<1> HIDE DEF start
<1>2. ASSUME NEW f, Repeated(f, start, ListStep(u)) PROVE By(f)
  <2>1. \A n \in Nat : n # 0 => f[n - 1] \in SUBSET Items
    <3>1. \A n \in Nat : f[n] \in SUBSET Items
      BY <1>1, <1>2, RepeatedWithin
    <3>2. \A n \in Nat : n # 0 => n - 1 \in Nat
      OBVIOUS
    <3> QED BY <3>1, <3>2
  <2>2. f = [n \in Nat |-> IF n = 0 THEN start ELSE ListStep(u)[f[n - 1]]]
    BY <1>2 DEF Repeated
  <2> QED BY <1>1, <2>1, <2>2
<1>3. By(up)
  <2>1. \E f : Repeated(f, start, ListStep(u))
    BY RepeatedExists
  <2>2. \E f : By(f)
    BY <1>2, <2>1
  <2> HIDE DEF By
  <2> QED BY <2>2
<1> HIDE DEF up
<1>4. Repeated(up, start, ListStep(u))
  <2> DEFINE T == {n \in Nat : up[n] \in SUBSET Items}
  <2>1. 0 \in T /\ \A n \in T : n + 1 \in T
    <3>1. \A n \in Nat : up[n] = (IF n = 0 THEN start ELSE ListedBelow(u, up[n - 1]))
      BY <1>3
    <3>2. \A n \in Nat : n + 1 \in Nat /\ n + 1 # 0 /\ (n + 1) - 1 = n
      OBVIOUS
    <3>3. up[0] = start
      BY <3>1
    <3>4. \A n \in Nat : up[n + 1] = ListedBelow(u, up[n])
      BY <3>1, <3>2
    <3> QED BY <1>1, <3>3, <3>4
  <2>2. T = Nat
    <3>1. T \in SUBSET Nat
      OBVIOUS
    <3> HIDE DEF T
    <3> QED BY <2>1, <3>1, AllNumbers
  <2>3. \A n \in Nat : n # 0 => n - 1 \in Nat /\ up[n - 1] \in SUBSET Items
    <3>1. \A n \in Nat : n # 0 => n - 1 \in Nat
      OBVIOUS
    <3> QED BY <2>2, <3>1
  <2> QED BY <1>1, <1>3, <2>3 DEF Repeated
<1> QED BY <1>1, <1>4, RepeatedCloses, CollectionAccessAssumption DEF start


-----------------------------------------------------------------------------
(* The tree, and what it holds *)

(* Collections and documents are kept in collections, documents inherit    *)
(* access, and roles are granted on collections.                           *)
Placed ==
    /\ \A i \in Items : item[i].parent # None =>
          item[item[i].parent].kind = "collection" /\ item[item[i].parent].row # "none"
    /\ \A i \in Items : item[i].kind = "document" => item[i].parent # None /\ item[i].inherit
    /\ \A g \in grants : item[g.item].kind = "collection" /\ item[g.item].row # "none"

(* A row that is new has nothing in it, and nothing is granted on it.      *)
LEMMA InsertPlaced ==
    ASSUME Typed, Placed, NEW i \in Items, item[i].row = "none", NEW row \in ItemRow,
           row.row # "none",
           row.parent # None => /\ row.parent # i /\ item[row.parent].kind = "collection"
                                /\ item[row.parent].row # "none",
           row.kind = "document" => row.parent # None /\ row.inherit,
           item' = [item EXCEPT ![i] = row],
           \A g \in grants' : g \in grants \/ (g.item = i /\ row.kind = "collection")
    PROVE  Placed'
<1>1. item \in [Items -> ItemRow] /\ grants \subseteq Grant
  BY TypedParts
<1>2. item'[i] = row /\ \A j \in Items \ {i} : item'[j] = item[j]
  BY <1>1
<1>3. \A j \in Items : item[j].parent \in Items \cup {None} /\ item[j].parent # i
  BY <1>1, CollectionAccessAssumption DEF Placed, ItemRow
<1>4. ASSUME NEW j \in Items, item'[j].parent # None
      PROVE  item'[item'[j].parent].kind = "collection" /\ item'[item'[j].parent].row # "none"
  <2>1. row.parent \in Items \cup {None}
    BY DEF ItemRow
  <2> QED BY <1>2, <1>3, <1>4, <2>1 DEF Placed
<1>5. \A j \in Items : item'[j].kind = "document" => item'[j].parent # None /\ item'[j].inherit
  BY <1>2 DEF Placed
<1>6. ASSUME NEW g \in grants' PROVE item'[g.item].kind = "collection" /\ item'[g.item].row # "none"
  <2>1. CASE g \in grants
    <3>1. g.item \in Items /\ g.item # i
      BY <1>1, <2>1 DEF Grant, Placed
    <3> QED BY <1>2, <2>1, <3>1 DEF Placed
  <2>2. CASE g.item = i /\ row.kind = "collection"
    BY <1>2, <2>2
  <2> QED BY <2>1, <2>2
<1> QED BY <1>4, <1>5, <1>6 DEF Placed

(* ensure_personal_collection writes a root, whether it was there or not.  *)
RootAt(to, i) ==
    /\ to \in [Items -> ItemRow] /\ to[i].kind = "collection" /\ to[i].row = "live"
    /\ \A j \in Items \ {i} : to[j] = item[j]
Standing(to, held) ==
    /\ \A j \in Items : to[j].parent # None =>
          to[to[j].parent].kind = "collection" /\ to[to[j].parent].row # "none"
    /\ \A g \in held : to[g.item].kind = "collection" /\ to[g.item].row # "none"

LEMMA PersonalPlaced ==
    ASSUME Typed, Placed, NEW q \in Requests, NEW use \in Uses, NEW i \in Items,
           EnsurePersonalCollection(q, use, i),
           NEW row, row = PrivateRow(request[q].actor, use), NEW to, to = [item EXCEPT ![i] = row]
    PROVE  RootAt(to, i) /\ Standing(to, grants')
<1>1. item \in [Items -> ItemRow] /\ grants \subseteq Grant
  BY TypedParts
<1>3. row \in ItemRow /\ row.kind = "collection" /\ row.row = "live" /\ row.parent = None
  BY EnsureType DEF PrivateRow
<1>4. to \in [Items -> ItemRow] /\ to[i] = row /\ \A j \in Items \ {i} : to[j] = item[j]
  BY <1>1, <1>3
<1>5. \A g \in grants' : g \in grants \/ g.item = i
  BY DEF EnsurePersonalCollection
<1>6. \A g \in grants' : to[g.item].kind = "collection" /\ to[g.item].row # "none"
  BY <1>1, <1>3, <1>4, <1>5 DEF Grant, Placed
<1>7. ASSUME NEW j \in Items, to[j].parent # None
      PROVE  to[to[j].parent].kind = "collection" /\ to[to[j].parent].row # "none"
  <2>1. to[j].parent \in Items /\ j # i
    BY <1>3, <1>4, <1>7 DEF ItemRow
  <2> QED BY <1>3, <1>4, <1>7, <2>1 DEF Placed
<1> QED BY <1>3, <1>4, <1>6, <1>7 DEF RootAt, Standing

LEMMA PlacedNext == Typed /\ Placed /\ [Next]_vars => Placed'
<1> SUFFICES ASSUME Typed, Placed, [Next]_vars PROVE Placed'
  OBVIOUS
<1>0. item \in [Items -> ItemRow] /\ grants \subseteq Grant /\ request \in [Requests -> Row]
  BY TypedParts
<1>1. ASSUME UNCHANGED item, \A g \in grants' : g \in grants \/ LiveCollection(g.item) PROVE Placed'
  BY <1>1 DEF Placed, LiveCollection, Live
<1>2. ASSUME NEW i \in Items, NEW kind \in {"collection", "document"}, NEW parent \in Items \cup {None},
             NEW inherit \in BOOLEAN, Insert(i, kind, parent, inherit),
             kind = "document" => parent # None /\ item[parent].kind = "collection" /\ inherit,
             \A g \in grants' : g \in grants \/ (g.item = i /\ kind = "collection")
      PROVE  Placed'
  <2>1. PICK row : row = [row |-> "live", kind |-> kind, parent |-> parent, inherit |-> inherit,
                          personal |-> None]
    OBVIOUS
  <2>2. /\ row \in ItemRow /\ row.row = "live" /\ row.kind = kind /\ row.parent = parent
        /\ row.inherit = inherit
    BY <2>1 DEF ItemRow
  <2>3. item[i].row = "none" /\ item' = [item EXCEPT ![i] = row]
    BY <1>2, <2>1 DEF Insert
  <2>4. parent # None => item[parent].row = "live" /\ item[parent].kind = "collection"
    BY <1>2 DEF Insert, ValidParent, Live
  <2> QED BY <1>2, <2>2, <2>3, <2>4, InsertPlaced
<1>3. ASSUME NEW q \in Requests, CreateCollection(q) PROVE Placed'
  <2>1. PICK i \in Items, inherit \in BOOLEAN, p \in Items \cup {None} :
          /\ Insert(i, "collection", p, inherit)
          /\ grants' = grants \cup {[item |-> i, principal |-> request[q].actor,
                                     role |-> "collection_owner", via |-> None]}
    BY <1>3 DEF CreateCollection
  <2> QED BY <1>2, <2>1
<1>4. ASSUME NEW q \in Requests, Upload(q) PROVE Placed'
  <2>1. PICK i \in Items, c \in Items : item[c].kind = "collection" /\ Insert(i, "document", c, TRUE)
    BY <1>4 DEF Upload, MayWrite, CreateDocument
  <2>2. grants' = grants /\ c # None
    BY <1>4, CollectionAccessAssumption DEF Upload
  <2> QED BY <1>2, <2>1, <2>2
<1>5. ASSUME NEW q \in Requests, DeleteItem(q) PROVE Placed'
  <2>1. PICK i \in Items : item' = [item EXCEPT ![i].row = "deleted"]
    BY <1>5 DEF DeleteItem
  <2>2. \A j \in Items : /\ item'[j].parent = item[j].parent /\ item'[j].kind = item[j].kind
                         /\ item'[j].inherit = item[j].inherit
                         /\ item[j].row # "none" => item'[j].row # "none"
    BY <1>0, <2>1 DEF ItemRow
  <2>3. \A j \in Items : item[j].parent \in Items \cup {None}
    BY <1>0 DEF ItemRow
  <2>4. grants' = grants /\ \A g \in grants : g.item \in Items
    BY <1>0, <1>5 DEF DeleteItem, Grant
  <2> QED BY <2>2, <2>3, <2>4 DEF Placed
<1>6. ASSUME NEW q \in Requests, OpenPersonalUploads(q) PROVE Placed'
  <2>1. PICK i \in Items : /\ EnsurePersonalCollection(q, "uploads", i)
                           /\ item' = [item EXCEPT ![i] = PrivateRow(request[q].actor, "uploads")]
    BY <1>6 DEF OpenPersonalUploads
  <2>2. PICK row : row = PrivateRow(request[q].actor, "uploads")
    OBVIOUS
  <2>3. PICK to : to = [item EXCEPT ![i] = row]
    OBVIOUS
  <2>6. "uploads" \in Uses /\ item' = to
    BY <2>1, <2>2, <2>3 DEF Uses
  <2>7. RootAt(to, i) /\ Standing(to, grants')
    BY <2>1, <2>2, <2>3, <2>6, PersonalPlaced
  <2>4. RootAt(item', i) /\ Standing(item', grants')
    BY <2>6, <2>7
  <2>5. \A j \in Items : item'[j].kind = "document" => item'[j].parent # None /\ item'[j].inherit
    BY <2>4 DEF RootAt, Placed
  <2> QED BY <2>4, <2>5 DEF Placed, Standing
<1>7. ASSUME NEW q \in Requests, CreateArtifact(q) PROVE Placed'
  <2>1. PICK i \in Items, d \in Items :
          /\ EnsurePersonalCollection(q, "artifacts", i)
          /\ d # i /\ item[d].row = "none"
          /\ item' = [item EXCEPT ![i] = PrivateRow(request[q].actor, "artifacts"),
                                  ![d] = [row |-> "live", kind |-> "document", parent |-> i,
                                          inherit |-> TRUE, personal |-> None]]
    BY <1>7 DEF CreateArtifact
  <2>2. PICK root : root = PrivateRow(request[q].actor, "artifacts")
    OBVIOUS
  <2>3. PICK to : to = [item EXCEPT ![i] = root]
    OBVIOUS
  <2>4. PICK row : row = [row |-> "live", kind |-> "document", parent |-> i,
                          inherit |-> TRUE, personal |-> None]
    OBVIOUS
  <2>5. item' = [to EXCEPT ![d] = row] /\ "artifacts" \in Uses
    BY <2>1, <2>2, <2>3, <2>4 DEF Uses
  <2>6. RootAt(to, i) /\ Standing(to, grants')
    BY <2>1, <2>2, <2>3, <2>5, PersonalPlaced
  <2>7. item'[d] = row /\ (\A j \in Items \ {d} : item'[j] = to[j]) /\ to[d].row = "none"
    BY <2>1, <2>5, <2>6 DEF RootAt
  <2>8. row.kind = "document" /\ row.parent = i /\ row.inherit = TRUE /\ i # None
    BY <2>4, CollectionAccessAssumption
  <2>9. \A j \in Items : to[j].parent \in Items \cup {None}
    BY <2>6 DEF RootAt, ItemRow
  <2>10. grants' \subseteq Grant
    BY <2>1, <2>5, EnsureType
  <2>11. \A g \in grants' : item'[g.item].kind = "collection" /\ item'[g.item].row # "none"
    <3>1. \A g \in grants' : g.item \in Items \ {d}
      BY <2>6, <2>7, <2>10 DEF Grant, Standing
    <3> QED BY <2>6, <2>7, <3>1 DEF Standing
  <2>12. ASSUME NEW j \in Items, item'[j].parent # None
         PROVE  item'[item'[j].parent].kind = "collection" /\ item'[item'[j].parent].row # "none"
    <3>1. CASE j = d
      <4>1. item'[j].parent = i /\ item'[i] = to[i]
        BY <2>1, <2>7, <2>8, <3>1
      <4> QED BY <2>6, <4>1 DEF RootAt
    <3>2. CASE j # d
      <4>1. to[j].parent \in Items \ {d}
        BY <2>6, <2>7, <2>9, <2>12, <3>2 DEF Standing
      <4> QED BY <2>6, <2>7, <2>12, <3>2, <4>1 DEF Standing
    <3> QED BY <3>1, <3>2
  <2>13. ASSUME NEW j \in Items, item'[j].kind = "document" PROVE item'[j].parent # None /\ item'[j].inherit
    <3>1. CASE j = d
      BY <2>7, <2>8, <3>1
    <3>2. CASE j # d
      <4>1. item'[j] = to[j] /\ j # i /\ to[j] = item[j]
        BY <2>6, <2>7, <2>13, <3>2 DEF RootAt
      <4> QED BY <2>13, <4>1 DEF Placed
    <3> QED BY <3>1, <3>2
  <2> QED BY <2>11, <2>12, <2>13 DEF Placed
<1>8. ASSUME NEW q \in Requests, NEW via, ReplaceGrants(q, via), UNCHANGED item PROVE Placed'
  <2>1. \A g \in grants' : g \in grants \/ LiveCollection(g.item)
    BY <1>8 DEF ReplaceGrants, GrantAccepted
  <2> QED BY <1>1, <1>8, <2>1
<1>9. CASE UNCHANGED vars
  BY <1>1, <1>9 DEF vars
<1>10. ASSUME NEW q \in Requests, Handle(q) PROVE Placed'
  <2>1. \/ CreateCollection(q) \/ Upload(q) \/ DeleteItem(q) \/ OpenPersonalUploads(q) \/ CreateArtifact(q)
        \/ UNCHANGED item /\ ((\E via : ReplaceGrants(q, via)) \/ grants' \subseteq grants)
    BY <1>10 DEF Handle, Authenticate, Refuse, ShareBegins, ShareEnds, Revoke, RevokeRole,
          CreateApproval, DecideBegins, DecideEnds, CreateGroup, UpdateGroup, ReplaceMembers,
          DeleteGroup, UpdateStatus, ReplaceGroups
  <2>2. ASSUME UNCHANGED item, grants' \subseteq grants PROVE Placed'
    BY <1>1, <2>2
  <2> QED BY <1>3, <1>4, <1>5, <1>6, <1>7, <1>8, <2>1, <2>2
<1> QED BY <1>9, <1>10 DEF Next

(* An ancestry is live, and closed under climbing.                         *)
LEMMA AncestryLeast ==
    ASSUME NEW i \in Items, NEW C \in SUBSET Items, Live(i) => i \in C,
           \A j \in C, p \in Items : item[j].inherit /\ item[j].parent = p /\ Live(p) => p \in C
    PROVE  Ancestry(i) \subseteq C
<1>1. \A A \in SUBSET C : ClimbStep[A] \subseteq C
  BY DEF ClimbStep, Climb
<1>2. {j \in {i} : Live(j)} \subseteq C
  OBVIOUS
<1> QED BY <1>1, <1>2, AncestryCloses DEF IsClosure

LEMMA Ancestors ==
    ASSUME NEW i \in Items
    PROVE  /\ Ancestry(i) \in SUBSET Items
           /\ Live(i) => i \in Ancestry(i)
           /\ \A j \in Ancestry(i) : Live(j)
           /\ \A j \in Ancestry(i), p \in Items :
                item[j].inherit /\ item[j].parent = p /\ Live(p) => p \in Ancestry(i)
<1> DEFINE live == {j \in Items : Live(j)}
<1>1. Ancestry(i) \subseteq live
  BY AncestryLeast
<1>2. Ancestry(i) \in SUBSET Items /\ {j \in {i} : Live(j)} \subseteq Ancestry(i)
      /\ ClimbStep[Ancestry(i)] = Ancestry(i)
  BY AncestryCloses DEF IsClosure
<1>3. Climb(Ancestry(i)) = Ancestry(i)
  BY <1>2 DEF ClimbStep
<1> QED BY <1>1, <1>2, <1>3 DEF Climb

LEMMA AncestryWithin ==
    ASSUME NEW i \in Items, NEW j \in Ancestry(i)
    PROVE  Ancestry(j) \subseteq Ancestry(i)
<1>1. j \in Items /\ Ancestry(i) \in SUBSET Items
  BY Ancestors
<1> QED BY <1>1, Ancestors, AncestryLeast

(* What a listing names is live, has the grants and is closed downwards.   *)
LEMMA AllowedLeast ==
    ASSUME NEW u, NEW groups, NEW permission, permission \notin TenantWide[u],
           NEW C \in SUBSET Items, Granted(u, groups, permission) \subseteq C,
           \A i \in Items : LiveCollection(i) /\ item[i].inherit /\ item[i].parent \in C => i \in C
    PROVE  AllowedCollections(u, groups, permission) \subseteq C
<1>1. \A A \in SUBSET C : DescendStep[A] \subseteq C
  BY DEF DescendStep, Descend
<1> QED BY <1>1, AllowedCloses DEF IsClosure

LEMMA AllowedAreLive ==
    ASSUME NEW u, NEW groups, NEW permission
    PROVE  AllowedCollections(u, groups, permission) \subseteq {i \in Items : LiveCollection(i)}
<1> DEFINE C == {i \in Items : LiveCollection(i)}
<1>1. CASE permission \in TenantWide[u]
  BY <1>1 DEF AllowedCollections
<1>2. CASE permission \notin TenantWide[u]
  <2>1. Granted(u, groups, permission) \subseteq C
    BY DEF Granted
  <2> QED BY <1>2, <2>1, AllowedLeast
<1> QED BY <1>1, <1>2

LEMMA Descendants ==
    ASSUME NEW u, NEW groups, NEW permission, permission \notin TenantWide[u]
    PROVE  LET allowed == AllowedCollections(u, groups, permission)
           IN  /\ Granted(u, groups, permission) \subseteq allowed
               /\ \A i \in Items : LiveCollection(i) /\ item[i].inherit /\ item[i].parent \in allowed
                                   => i \in allowed
<1> DEFINE allowed == AllowedCollections(u, groups, permission)
<1>1. allowed \in SUBSET Items /\ Granted(u, groups, permission) \subseteq allowed
      /\ DescendStep[allowed] = allowed
  BY AllowedCloses DEF IsClosure
<1> HIDE DEF allowed
<1>2. Descend(allowed) = allowed
  BY <1>1 DEF DescendStep
<1>3. \A i \in Items : LiveCollection(i) /\ item[i].inherit /\ item[i].parent \in allowed => i \in allowed
  BY <1>2 DEF Descend
<1> QED BY <1>1, <1>3 DEF allowed

(* The two ways meet: a collection is listed exactly when climbing from it *)
(* comes to a grant.                                                       *)
LEMMA Reached ==
    ASSUME Typed, Placed, NEW u, NEW groups, NEW permission, permission \notin TenantWide[u],
           NEW c \in Items, LiveCollection(c)
    PROVE  c \in AllowedCollections(u, groups, permission)
           <=> Ancestry(c) \cap Granted(u, groups, permission) # {}
<1> DEFINE granted == Granted(u, groups, permission)
           allowed == AllowedCollections(u, groups, permission)
<1>0. item \in [Items -> ItemRow]
  BY TypedParts
<1>1. granted \subseteq allowed /\ granted \subseteq {i \in Items : LiveCollection(i)}
      /\ \A i \in Items : LiveCollection(i) /\ item[i].inherit /\ item[i].parent \in allowed => i \in allowed
  BY Descendants DEF Granted
<1>2. ASSUME c \in allowed PROVE Ancestry(c) \cap granted # {}
  <2> DEFINE C == {k \in Items : LiveCollection(k) /\ Ancestry(k) \cap granted # {}}
  <2>1. granted \subseteq C
    BY <1>1, Ancestors DEF LiveCollection
  <2>2. ASSUME NEW k \in Items, LiveCollection(k), item[k].inherit, item[k].parent \in C PROVE k \in C
    <3> DEFINE p == item[k].parent
    <3>1. p \in Items /\ LiveCollection(p) /\ Ancestry(p) \cap granted # {}
      BY <2>2
    <3>2. p \in Ancestry(k)
      BY <2>2, <3>1, Ancestors DEF LiveCollection
    <3>3. Ancestry(p) \subseteq Ancestry(k)
      BY <3>2, AncestryWithin
    <3> QED BY <2>2, <3>1, <3>3
  <2>3. allowed \subseteq C
    <3>1. C \in SUBSET Items
      OBVIOUS
    <3> HIDE DEF C
    <3> QED BY <2>1, <2>2, <3>1, AllowedLeast
  <2> QED BY <1>2, <2>3
<1>3. ASSUME c \notin allowed PROVE Ancestry(c) \cap granted = {}
  <2> DEFINE C == {k \in Items : LiveCollection(k) /\ k \notin allowed}
  <2>1. c \in C
    BY <1>3
  <2>2. ASSUME NEW k \in C, NEW p \in Items, item[k].inherit, item[k].parent = p, Live(p) PROVE p \in C
    <3>1. LiveCollection(p)
      BY <2>2, CollectionAccessAssumption DEF Placed, LiveCollection
    <3>2. p \notin allowed
      BY <1>1, <2>2
    <3> QED BY <3>1, <3>2
  <2>3. Ancestry(c) \subseteq C
    <3>1. C \in SUBSET Items
      OBVIOUS
    <3> HIDE DEF C
    <3> QED BY <2>1, <2>2, <3>1, AncestryLeast
  <2> QED BY <1>1, <2>3
<1> QED BY <1>2, <1>3

(* What permissions_for_item answers, by the grants that climbing finds.   *)
LEMMA Held ==
    ASSUME Typed, Placed, NEW u, NEW groups, NEW permission, NEW i \in Items
    PROVE  permission \in PermissionsForItem(u, groups, i)
           <=> \/ permission \in TenantWide[u]
               \/ Ancestry(i) \cap Granted(u, groups, permission) # {}
<1> DEFINE found == {h \in grants : h.item \in Ancestry(i) /\ h.principal \in Match(u, groups)}
<1>1. permission \in PermissionsForItem(u, groups, i)
      <=> permission \in TenantWide[u] \/ \E g \in found : permission \in RolePermissions(g.role)
  BY DEF PermissionsForItem
<1>2. \A g \in found : g.item \in Items /\ LiveCollection(g.item)
  <2>1. \A g \in found : g.item \in Items /\ Live(g.item)
    BY Ancestors
  <2> QED BY <2>1 DEF Placed, LiveCollection
<1>3. ASSUME NEW g \in found, permission \in RolePermissions(g.role)
      PROVE  Ancestry(i) \cap Granted(u, groups, permission) # {}
  BY <1>2, <1>3 DEF Granted
<1>4. ASSUME NEW j \in Ancestry(i) \cap Granted(u, groups, permission)
      PROVE  \E g \in found : permission \in RolePermissions(g.role)
  BY DEF Granted
<1> QED BY <1>1, <1>3, <1>4

-----------------------------------------------------------------------------
(* One answer, however it is asked *)

LEMMA ListingAgrees == Typed /\ Placed => ListingAgreesWithCheck
<1> SUFFICES ASSUME Typed, Placed, NEW u \in active, NEW permission \in CollectionPermissions
             PROVE  AllowedCollections(u, GroupsOf(u), permission) =
                      {i \in Items : LiveCollection(i) /\ permission \in PermissionsForItem(u, GroupsOf(u), i)}
  BY DEF ListingAgreesWithCheck
<1>1. CASE permission \in TenantWide[u]
  BY <1>1, Held DEF AllowedCollections
<1>2. CASE permission \notin TenantWide[u]
  <2>1. \A i \in Items : LiveCollection(i) =>
          (i \in AllowedCollections(u, GroupsOf(u), permission)
             <=> permission \in PermissionsForItem(u, GroupsOf(u), i))
    BY <1>2, Held, Reached
  <2> QED BY <2>1, AllowedAreLive
<1> QED BY <1>1, <1>2

(* A collection can be read when it is listed; a document, when the        *)
(* collection it is in is listed, or by a right of tenant scope.           *)
LEMMA ReadableAre ==
    ASSUME Typed, Placed, NEW u
    PROVE  /\ \A i \in Items : Readable(u, i) => Live(i)
           /\ \A i \in Items : LiveCollection(i) => (Readable(u, i) <=> i \in Allowed(u))
           /\ \A i \in Items : Live(i) /\ item[i].kind = "document" =>
                (Readable(u, i) <=> "collection.read" \in TenantWide[u] \/ item[i].parent \in Allowed(u))
<1> DEFINE tenant == "collection.read" \in TenantWide[u]
           granted == Granted(u, GroupsOf(u), "collection.read")
<1>1. \A i \in Items : Readable(u, i) <=> Live(i) /\ (tenant \/ Ancestry(i) \cap granted # {})
  BY Held DEF Readable, RequireItem
<1>2. \A i \in Items : LiveCollection(i) => (Readable(u, i) <=> i \in Allowed(u))
  <2>1. CASE tenant
    BY <1>1, <2>1 DEF Allowed, AllowedCollections, LiveCollection
  <2>2. CASE ~tenant
    BY <1>1, <2>2, Reached DEF Allowed, LiveCollection
  <2> QED BY <2>1, <2>2
<1>3. ASSUME NEW i \in Items, Live(i), item[i].kind = "document", ~tenant
      PROVE  Ancestry(i) \cap granted # {} <=> item[i].parent \in Allowed(u)
  <2> DEFINE p == item[i].parent
  <2>1. p \in Items /\ item[i].inherit /\ item[p].kind = "collection" /\ i \notin granted
    <3>1. p \in Items \cup {None}
      BY TypedParts DEF ItemRow
    <3> QED BY <1>3, <3>1 DEF Placed, Granted, LiveCollection
  <2>2. ASSUME p \in Allowed(u) PROVE Ancestry(i) \cap granted # {}
    <3>1. LiveCollection(p)
      BY <2>2, AllowedAreLive DEF Allowed
    <3>2. Ancestry(p) \cap granted # {}
      BY <1>3, <2>1, <2>2, <3>1, Reached DEF Allowed
    <3>3. p \in Ancestry(i)
      BY <1>3, <2>1, <3>1, Ancestors DEF LiveCollection
    <3> QED BY <3>2, <3>3, AncestryWithin
  <2>3. ASSUME p \notin Allowed(u) PROVE Ancestry(i) \cap granted = {}
    <3>1. CASE Live(p)
      <4> DEFINE C == {i} \cup Ancestry(p)
      <4>1. C \in SUBSET Items /\ p \in Ancestry(p)
        BY <2>1, <3>1, Ancestors
      <4>2. \A j \in C, k \in Items : item[j].inherit /\ item[j].parent = k /\ Live(k) => k \in C
        BY <2>1, <4>1, Ancestors
      <4>3. Ancestry(i) \subseteq C
        <5> HIDE DEF C
        <5>1. i \in C
          BY DEF C
        <5> QED BY <4>1, <4>2, <5>1, AncestryLeast
      <4>4. Ancestry(p) \cap granted = {}
        BY <1>3, <2>1, <2>3, <3>1, Reached DEF Allowed, LiveCollection
      <4> QED BY <2>1, <4>3, <4>4
    <3>2. CASE ~Live(p)
      <4>1. \A j \in {i}, k \in Items : item[j].inherit /\ item[j].parent = k /\ Live(k) => k \in {i}
        BY <3>2
      <4>2. Ancestry(i) \subseteq {i}
        BY <4>1, AncestryLeast
      <4> QED BY <2>1, <4>2
    <3> QED BY <3>1, <3>2
  <2> QED BY <2>2, <2>3
<1> QED BY <1>1, <1>2, <1>3

(* The catalogue shows the collections and, below them, their documents:   *)
(* nothing is kept in a document.                                          *)
LEMMA ListedAre ==
    ASSUME Typed, Placed, NEW u
    PROVE  ListItems(u) = Allowed(u) \cup DocumentsIn(Allowed(u))
<1> DEFINE home == Allowed(u) \cup DocumentsIn(Allowed(u))
           listed == ListItems(u)
<1>0. item \in [Items -> ItemRow] /\ Allowed(u) \in SUBSET Items
  BY TypedParts, AllowedAreLive DEF Allowed
<1>1. IsClosure(Items, Allowed(u), ListStep(u), listed)
  BY <1>0, ListedCloses
<1> HIDE DEF listed
<1>2. home \subseteq listed
  <2>1. Allowed(u) \subseteq listed /\ listed \in SUBSET Items /\ ListStep(u)[listed] = listed
    BY <1>1 DEF IsClosure
  <2>2. ListedBelow(u, listed) = listed
    BY <2>1 DEF ListStep
  <2> QED BY <2>1, <2>2 DEF ListedBelow, DocumentsIn
<1>3. listed \subseteq home
  <2>1. home \in SUBSET Items
    BY <1>0 DEF DocumentsIn
  <2>2. ASSUME NEW A \in SUBSET home PROVE ListStep(u)[A] \subseteq home
    <3>1. \A i \in Items : item[i].parent \in DocumentsIn(Allowed(u)) => FALSE
      BY CollectionAccessAssumption DEF DocumentsIn, Placed
    <3>2. ASSUME NEW i \in Items, Live(i), item[i].parent \in A, item[i].kind = "document"
          PROVE  i \in home
      BY <3>1, <3>2 DEF DocumentsIn
    <3>3. ListedBelow(u, A) \subseteq home
      BY <3>2 DEF ListedBelow
    <3> QED BY <2>1, <3>3 DEF ListStep
  <2> HIDE DEF home
  <2>3. Allowed(u) \subseteq home
    BY DEF home
  <2> QED BY <1>1, <2>1, <2>2, <2>3 DEF IsClosure
<1> QED BY <1>2, <1>3 DEF listed

LEMMA BrowsingAgrees == Typed /\ Placed => BrowsingAgreesWithCheck
<1> SUFFICES ASSUME Typed, Placed, NEW u \in active
             PROVE  LET readable == {i \in Items : Readable(u, i)}
                        documents == {i \in Items : item[i].kind = "document"}
                        listed == ListItems(u)
                    IN  /\ Home(u) = listed
                        /\ listed \subseteq readable
                        /\ "collection.read" \notin TenantWide[u] => readable = listed
                        /\ \A c \in readable \ documents :
                                Workspace(u, c) = {i \in listed : item[i].parent = c}
                        /\ Searched(u) = {i \in documents : Opens(u, i)}
  BY DEF BrowsingAgreesWithCheck
<1> DEFINE readable == {i \in Items : Readable(u, i)}
           documents == {i \in Items : item[i].kind = "document"}
           listed == ListItems(u)
           tenant == "collection.read" \in TenantWide[u]
<1>0. item \in [Items -> ItemRow] /\ Allowed(u) \subseteq {i \in Items : LiveCollection(i)}
      /\ \A i \in Items : item[i].kind \in {"collection", "document"}
  BY TypedParts, AllowedAreLive DEF Allowed, ItemRow
<1>1. listed = Allowed(u) \cup DocumentsIn(Allowed(u))
  BY ListedAre
<1>2. /\ \A i \in readable : Live(i)
      /\ \A i \in Items : LiveCollection(i) => (i \in readable <=> i \in Allowed(u))
      /\ \A i \in Items : Live(i) /\ item[i].kind = "document" =>
            (i \in readable <=> tenant \/ item[i].parent \in Allowed(u))
  BY ReadableAre
<1>3. tenant => Allowed(u) = {i \in Items : LiveCollection(i)}
  BY DEF Allowed, AllowedCollections
<1>4. \A i \in documents : item[i].parent \in Items
  <2>1. \A i \in Items : item[i].parent \in Items \cup {None}
    BY <1>0 DEF ItemRow
  <2> QED BY <2>1 DEF Placed
<1> HIDE DEF listed, readable, tenant
<1>5. Home(u) = listed
  BY <1>1 DEF Home
<1>6. listed \subseteq readable
  BY <1>0, <1>1, <1>2 DEF DocumentsIn
<1>7. ~tenant => readable = listed
  <2>1. ASSUME ~tenant, NEW i \in readable PROVE i \in listed
    <3>1. i \in Items /\ Live(i)
      BY <1>2, <2>1 DEF readable
    <3> QED BY <1>0, <1>1, <1>2, <2>1, <3>1 DEF DocumentsIn, LiveCollection
  <2> QED BY <1>6, <2>1
<1>8. ASSUME NEW c \in readable \ documents PROVE Workspace(u, c) = {i \in listed : item[i].parent = c}
  <2>1. c \in Items /\ c \in Allowed(u)
    <3>1. c \in Items /\ Live(c)
      BY <1>2 DEF readable
    <3> QED BY <1>0, <1>2, <3>1 DEF LiveCollection
  <2> QED BY <1>0, <1>1, <2>1 DEF Workspace, DocumentsIn
<1>9. Searched(u) = {i \in documents : Opens(u, i)}
  <2>1. ASSUME NEW i \in documents PROVE i \in Searched(u) <=> Opens(u, i)
    <3>1. Opens(u, i) <=> i \in readable /\ LiveCollection(item[i].parent)
      <4>1. Readable(u, i) <=> i \in readable
        BY DEF readable
      <4>2. Live(i) => (Governing(i) # None <=> LiveCollection(item[i].parent))
        BY <1>4, CollectionAccessAssumption DEF Governing
      <4> QED BY <1>2, <4>1, <4>2 DEF Opens
    <3>2. i \in Searched(u) <=> Live(i) /\ item[i].parent \in Allowed(u)
      BY DEF Searched, DocumentsIn
    <3> QED BY <1>0, <1>2, <1>3, <1>4, <3>1, <3>2
  <2> QED BY <2>1 DEF Searched, DocumentsIn
<1> QED BY <1>5, <1>6, <1>7, <1>8, <1>9 DEF listed, readable, tenant

LEMMA AlwaysPlaced == Spec => [](Typed /\ Placed)
<1>1. Init => Placed
  BY DEF Init, NoItem, Placed
<1>2. Typed /\ Placed /\ [Next]_vars => Placed'
  BY PlacedNext
<1>3. IInv => Typed
  BY DEF IInv
<1> QED BY <1>1, <1>2, <1>3, Inductive, PTL DEF Spec

(* However many items, users, groups and requests there are, and whatever  *)
(* roles members hold at tenant scope: the check of an item, the listing   *)
(* of collections, home, catalogue, workspaces and search give one answer. *)
THEOREM AccessStaysAgreed == Spec => []AccessAgrees
<1>1. Typed /\ Placed => AccessAgrees
  BY ListingAgrees, BrowsingAgrees DEF AccessAgrees
<1> QED BY <1>1, AlwaysPlaced, PTL
=============================================================================

-------------------------- MODULE CollectionAccess --------------------------
(***************************************************************************)
(* Who may use a collection: the tree of collections, the roles granted on *)
(* them to users and groups, the requests for such a role, and the two     *)
(* ways the code answers whether an actor holds a permission: by climbing  *)
(* from one item, and by listing every collection.                         *)
(*                                                                         *)
(* services/identity_access/{authorization,role_assignments,groups}.py,    *)
(* services/approval_request.py, services/item_catalog.py and the facade   *)
(* services/workspace_control_plane.py, in one workspace; and the          *)
(* collections that the code makes for a user by itself (services/item.py, *)
(* services/workspace_documents.py, services/artifact.py).                 *)
(***************************************************************************)
EXTENDS Naturals, FiniteSets

CONSTANTS
    Items,       \* collections and documents
    Users,       \* members of the workspace
    Groups,      \* groups of the workspace
    Approvals,   \* requests for a role on a collection
    Requests,    \* control plane requests that may be in flight together
    TenantWide,  \* TenantWide[u]: the permissions of u at tenant scope
    None

ASSUME CollectionAccessAssumption ==
    /\ IsFiniteSet(Items)
    /\ None \notin Items \cup Users \cup Groups \cup Approvals
    /\ Users \cap Groups = {}

VARIABLES
    item,      \* items: their row, their kind, their parent, whether they inherit access
    grants,    \* the live role_assignments of collection scope
    active,    \* the users that are active, as accounts and as members
    group,     \* groups.status
    member,    \* the active group_memberships
    approval,  \* the rows of approval_requests
    request    \* what each request knows

vars == <<item, grants, active, group, member, approval, request>>

Principals == Users \cup Groups
Roles == {"collection_owner", "collection_viewer"}
CollectionPermissions == {"collection.read", "collection.update", "collection.share"}

RolePermissions(role) ==
    IF role = "collection_owner" THEN CollectionPermissions ELSE {"collection.read"}

(* "personal" tells whose collection it is, and for what, when the code    *)
(* makes it by itself; its id is computed from both.                       *)
Uses == {"uploads", "artifacts"}
NoItem == [row |-> "none", kind |-> "collection", parent |-> None, inherit |-> FALSE, personal |-> None]
ItemRow == [row : {"none", "live", "deleted"}, kind : {"collection", "document"},
            parent : Items \cup {None}, inherit : BOOLEAN, personal : (Users \X Uses) \cup {None}]

(* "via" is the approval a grant comes from: a history variable.           *)
Grant == [item : Items, principal : Principals, role : Roles, via : Approvals \cup {None}]

NoApproval == [status |-> "none", requester |-> None, target |-> None, role |-> "none"]
ApprovalRow ==
    [status : {"none", "pending", "approved", "denied", "cancelled"},
     requester : Users \cup {None}, target : Items \cup {None}, role : Roles \cup {"none"}]

(* A request: who asks, with the groups read when it was authenticated;    *)
(* the row of approval_requests it has locked and the status it will set;  *)
(* the grant it is about to write and the grants it has retired.           *)
Idle == [pc |-> "idle", actor |-> None, groups |-> {}, decides |-> None, status |-> "none",
         item |-> None, principal |-> None, role |-> "none", seen |-> {}]

TypeOK ==
    /\ item \in [Items -> ItemRow]
    /\ grants \subseteq Grant
    /\ active \subseteq Users
    /\ group \in [Groups -> {"none", "active", "inactive", "deleted"}]
    /\ member \subseteq Groups \X Users
    /\ approval \in [Approvals -> ApprovalRow]
    /\ request \in [Requests ->
         [pc : {"idle", "authenticated", "granting", "deciding"},
          actor : Users \cup {None}, groups : SUBSET Groups,
          decides : Approvals \cup {None}, status : {"none", "approved", "denied", "cancelled"},
          item : Items \cup {None}, principal : Principals \cup {None},
          role : Roles \cup {"none"}, seen : SUBSET Grant]]

Init ==
    /\ item = [i \in Items |-> NoItem]
    /\ grants = {}
    /\ active = Users
    /\ group = [g \in Groups |-> "none"]
    /\ member = {}
    /\ approval = [a \in Approvals |-> NoApproval]
    /\ request = [q \in Requests |-> Idle]

-----------------------------------------------------------------------------
(* What the database insists on: its triggers refuse the row otherwise.    *)

Live(i) == item[i].row = "live"
LiveCollection(i) == Live(i) /\ item[i].kind = "collection"

(* bothesis_validate_item_parent: a document has a parent, and a           *)
(* collection no document for one.                                         *)
ItemAccepted(kind, parent) ==
    IF parent = None THEN kind = "collection"
    ELSE item[parent].row = "live" /\ (kind = "collection" => item[parent].kind = "collection")

(* bothesis_validate_role_assignment *)
GrantAccepted(i, p) == LiveCollection(i) /\ (p \in Groups => group[p] # "deleted")

(* bothesis_validate_group_membership *)
MemberAccepted(g) == group[g] \in {"active", "inactive"}

(* bothesis_validate_approval_request, which looks at the target again     *)
(* when the row is decided.                                                *)
ApprovalAccepted(row) == LiveCollection(row.target)

-----------------------------------------------------------------------------
(* Authorization *)

(* get_context: the groups that count.                                     *)
GroupsOf(u) == {g \in Groups : <<g, u>> \in member /\ group[g] = "active"}

(* _principal_match: held directly, or through a group.                    *)
Match(u, groups) == {u} \cup groups

(* _ancestry: an item and the ancestors its access still flows from.       *)
(* Climbing stops at an item that ended inheritance, below one that is     *)
(* deleted, and at a root.                                                 *)
Climb(below) ==
    below \cup {p \in Items : Live(p) /\ \E i \in below : item[i].inherit /\ item[i].parent = p}

Ancestry(i) ==
    LET up[n \in Nat] ==
          IF n = 0 THEN {j \in {i} : Live(j)} ELSE Climb(up[n - 1])
    IN  up[Cardinality(Items)]

(* permissions_for_item *)
PermissionsForItem(u, groups, i) ==
    LET ancestry == Ancestry(i) IN
    TenantWide[u] \cup
    UNION {RolePermissions(g.role) :
             g \in {h \in grants : h.item \in ancestry /\ h.principal \in Match(u, groups)}}

(* require_item: an item that cannot be read does not exist.               *)
RequireItem(u, groups, i, permission) ==
    /\ Live(i)
    /\ {"collection.read", permission} \subseteq PermissionsForItem(u, groups, i)

(* governing_collection_id: the nearest collection, inherited from or not. *)
Governing(i) ==
    IF ~Live(i) THEN None
    ELSE IF item[i].kind = "collection" THEN i
    ELSE IF LiveCollection(item[i].parent) THEN item[i].parent ELSE None

(* allowed_collection_ids: every collection for a permission held at       *)
(* tenant scope; else the ones granted, and what inherits from them.       *)
Granted(u, groups, permission) ==
    {i \in Items : LiveCollection(i) /\ \E g \in grants : /\ g.item = i
                                                         /\ g.principal \in Match(u, groups)
                                                         /\ permission \in RolePermissions(g.role)}

(* A mistake to be caught: everything below, inheriting or not.            *)
DescendEverywhere(above) ==
    above \cup {i \in Items : LiveCollection(i) /\ item[i].parent \in above}

Descend(above) ==
    above \cup {i \in Items : LiveCollection(i) /\ item[i].inherit /\ item[i].parent \in above}

AllowedCollections(u, groups, permission) ==
    IF permission \in TenantWide[u]
    THEN {i \in Items : LiveCollection(i)}
    ELSE LET down[n \in Nat] ==
               IF n = 0 THEN Granted(u, groups, permission) ELSE Descend(down[n - 1])
         IN  down[Cardinality(Items)]

-----------------------------------------------------------------------------
(* What an actor finds *)

Readable(u, i) == RequireItem(u, GroupsOf(u), i, "collection.read")
Allowed(u) == AllowedCollections(u, GroupsOf(u), "collection.read")
DocumentsIn(collections) ==
    {i \in Items : Live(i) /\ item[i].kind = "document" /\ item[i].parent \in collections}

(* get_workspace_home: the collections, and the recent documents in them.  *)
Home(u) == LET allowed == Allowed(u) IN allowed \cup DocumentsIn(allowed)

(* get_collection_workspace: what a collection contains.                   *)
Workspace(u, c) ==
    {i \in Allowed(u) : item[i].parent = c} \cup DocumentsIn({c})

(* list_items: from the collections down.                                  *)
ListItems(u) ==
    LET allowed == Allowed(u)
        Below(above) ==
          above \cup {i \in Items : /\ Live(i) /\ item[i].parent \in above
                                    /\ item[i].kind = "document" \/ i \in allowed}
        down[n \in Nat] == IF n = 0 THEN allowed ELSE Below(down[n - 1])
    IN  down[Cardinality(Items)]

(* The search: documents are indexed under their collection.               *)
Searched(u) == DocumentsIn(Allowed(u))

(* _authorized_item: a viewer opens what is governed by a collection.      *)
Opens(u, i) == Readable(u, i) /\ Governing(i) # None

-----------------------------------------------------------------------------
(* Requests *)

Authenticate(q) ==
    /\ request[q] = Idle
    /\ \E u \in active :
         request' = [request EXCEPT ![q].pc = "authenticated", ![q].actor = u,
                                    ![q].groups = GroupsOf(u)]
    /\ UNCHANGED <<item, grants, active, group, member, approval>>

Done(q) == request' = [request EXCEPT ![q] = Idle]

(* A refused request raises, and its transaction is rolled back.           *)
Refuse(q) ==
    /\ request[q] # Idle
    /\ Done(q)
    /\ UNCHANGED <<item, grants, active, group, member, approval>>

Asks(q, permission) ==
    /\ request[q].pc = "authenticated"
    /\ permission \in TenantWide[request[q].actor]

MayUse(q, i, permission) ==
    /\ request[q].pc = "authenticated"
    /\ RequireItem(request[q].actor, request[q].groups, i, permission)

-----------------------------------------------------------------------------
(* Collections *)

(* _validate_parent *)
ValidParent(kind, parent) ==
    /\ kind = "document" => parent # None
    /\ parent # None => Live(parent) /\ (kind = "collection" => item[parent].kind = "collection")

Insert(i, kind, parent, inherit) ==
    /\ item[i].row = "none"
    /\ ValidParent(kind, parent) /\ ItemAccepted(kind, parent)
    /\ item' = [item EXCEPT ![i] = [row |-> "live", kind |-> kind, parent |-> parent,
                                    inherit |-> inherit, personal |-> None]]

CreateCollection(q) ==
    /\ Asks(q, "item.manage")
    /\ request[q].actor \in active
    /\ \E i \in Items, inherit \in BOOLEAN, p \in Items \cup {None} :
         /\ Insert(i, "collection", p, inherit)
         /\ grants' = grants \cup {[item |-> i, principal |-> request[q].actor,
                                    role |-> "collection_owner", via |-> None]}
    /\ Done(q)
    /\ UNCHANGED <<active, group, member, approval>>

CreateDocument(i, p) == Insert(i, "document", p, TRUE)

(* _require_writable_collection *)
MayWrite(q, c) == MayUse(q, c, "collection.update") /\ item[c].kind = "collection"

Upload(q) ==
    /\ \E i, c \in Items : MayWrite(q, c) /\ CreateDocument(i, c)
    /\ Done(q)
    /\ UNCHANGED <<grants, active, group, member, approval>>

(* _collection_grants with _principal_filter *)
GrantsOf(i, p) == {g \in grants : g.item = i /\ g.principal = p}

(* upload_collection_id, artifact_collection_id                            *)
PersonalId(u, use, i) ==
    IF \E j \in Items : item[j].personal = <<u, use>>
    THEN item[i].personal = <<u, use>>
    ELSE item[i].row = "none"

(* ensure_personal_collection: the row is inserted unless there is one,    *)
(* deleted or not, and the owner's grant unless it is live.                *)
PrivateRow(u, use) == [row |-> "live", kind |-> "collection", parent |-> None, inherit |-> FALSE,
                       personal |-> <<u, use>>]

EnsurePersonalCollection(q, use, i) ==
    LET u == request[q].actor
        owner == [item |-> i, principal |-> u, role |-> "collection_owner", via |-> None]
    IN  /\ Asks(q, "knowledge.read")
        /\ PersonalId(u, use, i)
        /\ item[i].row # "deleted"      \* bothesis_validate_role_assignment
        /\ grants' = IF \E g \in GrantsOf(i, u) : g.role = owner.role
                     THEN grants ELSE grants \cup {owner}

OpenPersonalUploads(q) ==
    /\ \E i \in Items : /\ EnsurePersonalCollection(q, "uploads", i)
                       /\ item' = [item EXCEPT ![i] = PrivateRow(request[q].actor, "uploads")]
    /\ Done(q)
    /\ UNCHANGED <<active, group, member, approval>>

(* _create: the document of a file exported from the chat.                 *)
CreateArtifact(q) ==
    /\ \E i, d \in Items :
         /\ EnsurePersonalCollection(q, "artifacts", i)
         /\ d # i /\ item[d].row = "none"
         /\ item' = [item EXCEPT ![i] = PrivateRow(request[q].actor, "artifacts"),
                                 ![d] = [row |-> "live", kind |-> "document", parent |-> i,
                                         inherit |-> TRUE, personal |-> None]]
    /\ Done(q)
    /\ UNCHANGED <<active, group, member, approval>>

(* get_item of the catalog *)
CatalogItem(q, i) == Asks(q, "item.manage") /\ Live(i)

(* Only the item itself: what it contains and its grants stay.             *)
DeleteItem(q) ==
    /\ \E i \in Items : CatalogItem(q, i) /\ item' = [item EXCEPT ![i].row = "deleted"]
    /\ Done(q)
    /\ UNCHANGED <<grants, active, group, member, approval>>

-----------------------------------------------------------------------------
(* Grants *)

(* _require_principal *)
RequirePrincipal(p) ==
    IF p \in Users THEN p \in active ELSE group[p] = "active"

(* grant_collection_role, first half: the grants that _retire finds.       *)
FindGrants(i, p) ==
    /\ LiveCollection(i)
    /\ RequirePrincipal(p)

(* Second half: they are retired and the new grant is inserted, unless     *)
(* another transaction has inserted the same one (the unique index).       *)
ReplaceGrants(q, via) ==
    LET r == request[q] IN
    /\ GrantAccepted(r.item, r.principal)
    /\ ~ \E g \in GrantsOf(r.item, r.principal) \ r.seen : g.role = r.role
    /\ grants' = (grants \ r.seen) \cup
                 {[item |-> r.item, principal |-> r.principal, role |-> r.role, via |-> via]}

ShareBegins(q) ==
    /\ \E i \in Items, p \in Principals, role \in Roles :
         /\ MayUse(q, i, "collection.share")
         /\ FindGrants(i, p)
         /\ request' = [request EXCEPT ![q].pc = "granting", ![q].item = i, ![q].principal = p,
                                       ![q].role = role, ![q].seen = GrantsOf(i, p)]
    /\ UNCHANGED <<item, grants, active, group, member, approval>>

ShareEnds(q) ==
    /\ request[q].pc = "granting"
    /\ ReplaceGrants(q, None)
    /\ Done(q)
    /\ UNCHANGED <<item, active, group, member, approval>>

(* revoke_collection_role *)
RevokeRole(i, p) ==
    /\ LiveCollection(i)
    /\ GrantsOf(i, p) # {}
    /\ grants' = grants \ GrantsOf(i, p)

Revoke(q) ==
    /\ \E i \in Items, p \in Principals : MayUse(q, i, "collection.share") /\ RevokeRole(i, p)
    /\ Done(q)
    /\ UNCHANGED <<item, active, group, member, approval>>

-----------------------------------------------------------------------------
(* Requests for a role *)

Reviews(q) == "access.manage" \in TenantWide[request[q].actor]

(* _tenant_user *)
TenantUser(u) == u \in active

(* _resource_access_target *)
RequestTarget(i) == LiveCollection(i)

(* create_request, of the type resource_access: one's own, or another      *)
(* member's by a reviewer; never a second pending one.                     *)
CreateApproval(q) ==
    /\ request[q].pc = "authenticated"
    /\ \E a \in Approvals, u \in Users, i \in Items, role \in Roles :
         /\ approval[a] = NoApproval
         /\ u = request[q].actor \/ Reviews(q)
         /\ TenantUser(u)
         /\ RequestTarget(i)
         /\ ~ \E b \in Approvals : /\ approval[b].status = "pending"
                                   /\ approval[b].requester = u
                                   /\ approval[b].target = i
         /\ approval' = [approval EXCEPT ![a] = [status |-> "pending", requester |-> u,
                                                 target |-> i, role |-> role]]
    /\ Done(q)
    /\ UNCHANGED <<item, grants, active, group, member>>

(* A mistake to be caught: a plain SELECT.                                 *)
NoLockApproval(q, a) == TRUE

(* SELECT ... FOR UPDATE: no other request holds the row.                  *)
LockApproval(q, a) == \A p \in Requests \ {q} : request[p].decides # a

Decision(r, a, status) ==
    LET row == approval[a] IN
    [pc |-> "deciding", actor |-> r.actor, groups |-> r.groups, decides |-> a, status |-> status,
     item |-> row.target, principal |-> row.requester, role |-> row.role,
     seen |-> IF status = "approved" THEN GrantsOf(row.target, row.requester) ELSE {}]

(* update_request reads the row, which is pending, and judges the actor;   *)
(* approving goes on to the grant.                                         *)
DecideBegins(q) ==
    /\ request[q].pc = "authenticated"
    /\ \E a \in Approvals, status \in {"approved", "denied", "cancelled"} :
         /\ LockApproval(q, a)
         /\ approval[a].status = "pending"
         /\ Reviews(q) \/ (status = "cancelled" /\ approval[a].requester = request[q].actor)
         /\ status = "approved" => FindGrants(approval[a].target, approval[a].requester)
         /\ request' = [request EXCEPT ![q] = Decision(request[q], a, status)]
    /\ UNCHANGED <<item, grants, active, group, member, approval>>

(* The decision, its grant with it, is written together; the answer names  *)
(* the requester, and fails when that is no active member any more.        *)
DecideEnds(q) ==
    LET r == request[q] IN
    /\ r.pc = "deciding"
    /\ ApprovalAccepted(approval[r.decides])
    /\ TenantUser(r.principal)
    /\ approval' = [approval EXCEPT ![r.decides].status = r.status]
    /\ IF r.status = "approved" THEN ReplaceGrants(q, r.decides) ELSE UNCHANGED grants
    /\ Done(q)
    /\ UNCHANGED <<item, active, group, member>>

-----------------------------------------------------------------------------
(* Groups and members *)

CreateGroup(q) ==
    /\ Asks(q, "group.manage")
    /\ \E g \in Groups : group[g] = "none" /\ group' = [group EXCEPT ![g] = "active"]
    /\ Done(q)
    /\ UNCHANGED <<item, grants, active, member, approval>>

Existing(g) == group[g] \in {"active", "inactive"}

UpdateGroup(q) ==
    /\ Asks(q, "group.manage")
    /\ \E g \in Groups, status \in {"active", "inactive"} :
         /\ Existing(g)
         /\ group' = [group EXCEPT ![g] = status]
    /\ Done(q)
    /\ UNCHANGED <<item, grants, active, member, approval>>

(* A mistake to be caught: the columns are swapped.                        *)
MembershipsSwapped(g, users) == users \X {g}

(* The rows of group_memberships of a group with these members.            *)
Memberships(g, users) == {g} \X users

ReplaceMembers(q) ==
    /\ Asks(q, "group.manage")
    /\ \E g \in Groups, desired \in SUBSET active :
         /\ Existing(g)
         /\ MemberAccepted(g)
         /\ member' = {m \in member : m[1] # g} \cup Memberships(g, desired)
    /\ Done(q)
    /\ UNCHANGED <<item, grants, active, group, approval>>

DeleteGroup(q) ==
    /\ Asks(q, "group.manage")
    /\ \E g \in Groups :
         /\ Existing(g)
         /\ group' = [group EXCEPT ![g] = "deleted"]
         /\ member' = {m \in member : m[1] # g}
    /\ Done(q)
    /\ UNCHANGED <<item, grants, active, approval>>

(* update_user: the status of another member, or the groups of one; a      *)
(* group that is not active loses the member unseen.                       *)
UpdateStatus(q) ==
    /\ Asks(q, "user.manage")
    /\ \E u \in Users \ {request[q].actor} :
         active' = IF u \in active THEN active \ {u} ELSE active \cup {u}
    /\ Done(q)
    /\ UNCHANGED <<item, grants, group, member, approval>>

ReplaceGroups(q) ==
    /\ Asks(q, "user.manage")
    /\ \E u \in Users \ {request[q].actor}, desired \in SUBSET {g \in Groups : group[g] = "active"} :
         member' = {m \in member : m[2] # u} \cup (desired \X {u})
    /\ Done(q)
    /\ UNCHANGED <<item, grants, active, group, approval>>

-----------------------------------------------------------------------------
Handle(q) ==
    \/ Authenticate(q) \/ Refuse(q)
    \/ CreateCollection(q) \/ Upload(q) \/ DeleteItem(q)
    \/ OpenPersonalUploads(q) \/ CreateArtifact(q)
    \/ ShareBegins(q) \/ ShareEnds(q) \/ Revoke(q)
    \/ CreateApproval(q) \/ DecideBegins(q) \/ DecideEnds(q)
    \/ CreateGroup(q) \/ UpdateGroup(q) \/ ReplaceMembers(q) \/ DeleteGroup(q)
    \/ UpdateStatus(q) \/ ReplaceGroups(q)

Next == \E q \in Requests : Handle(q)

Spec == Init /\ [][Next]_vars

-----------------------------------------------------------------------------
(* The listing that filters searches and menus (allowed_collection_ids)    *)
(* names exactly the collections on which the check of one item            *)
(* (permissions_for_item) finds the same actor to hold the permission,     *)
(* whatever was deleted, moved out of inheritance, granted or revoked.     *)
ListingAgreesWithCheck ==
    \A u \in active, permission \in CollectionPermissions :
        AllowedCollections(u, GroupsOf(u), permission) =
            {i \in Items : LiveCollection(i) /\ permission \in PermissionsForItem(u, GroupsOf(u), i)}

(* Whatever an actor browses, lists or searches agrees with what the check  *)
(* of one item lets the actor read: home, the catalogue and the workspaces  *)
(* show the same, all of it can be read, and all that can be read is shown  *)
(* unless it is read by a right of tenant scope, which does not look at     *)
(* deleted parents.  A document is found by a search if and only if a       *)
(* viewer opens it (get_workspace_home, get_collection_workspace,           *)
(* list_items, _resolve_knowledge_scope, get_item).                         *)
BrowsingAgreesWithCheck ==
    \A u \in active :
        LET readable == {i \in Items : Readable(u, i)}
            documents == {i \in Items : item[i].kind = "document"}
            listed == ListItems(u)
        IN  /\ Home(u) = listed
            /\ listed \subseteq readable
            /\ "collection.read" \notin TenantWide[u] => readable = listed
            /\ \A c \in readable \ documents :
                    Workspace(u, c) = {i \in listed : item[i].parent = c}
            /\ Searched(u) = {i \in documents : Opens(u, i)}

(* One answer to who may read what, however it is asked: by a listing, by   *)
(* browsing, by a search or for one item.                                   *)
AccessAgrees == ListingAgreesWithCheck /\ BrowsingAgreesWithCheck

(* A role that came from a request for it stands on a request that is      *)
(* approved: two decisions on one request (approve and cancel, approve and *)
(* deny) never leave a role behind with a request that was turned down.    *)
GrantsFollowDecision ==
    \A g \in grants : g.via # None => approval[g.via].status = "approved"

(* A principal holds one role on a collection.  role_assignments.py says   *)
(* "One Collection role per principal: raising a viewer to editor is a     *)
(* change of role, never a second grant".                                  *)
OneCollectionRole ==
    \A g, h \in grants : g.item = h.item /\ g.principal = h.principal => g = h
=============================================================================

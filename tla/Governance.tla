----------------------------- MODULE Governance -----------------------------
(***************************************************************************)
(* Users, memberships, roles and tenant role assignments of a workspace:   *)
(* services/identity_access/{users,roles,role_assignments,identity_store}. *)
(*                                                                         *)
(* A request is authenticated in one database session and handled in       *)
(* another one, so the actor's permissions are a copy taken before.        *)
(* Changing a member reads the rows, then weighs the change, then writes   *)
(* it: other requests commit in between, save where a row lock forbids it. *)
(***************************************************************************)
EXTENDS FiniteSets

CONSTANTS
    Tenants,    \* workspaces
    Users,      \* accounts
    Codes,      \* codes of roles a workspace may define for itself
    Founder,    \* Founder[t]: the account that created the workspace t
    Requests,   \* control plane requests that may be in flight together
    None

ASSUME GovernanceAssumption ==
    /\ Founder \in [Tenants -> Users]
    /\ None \notin Tenants

VARIABLES
    user,        \* users.status of an account, "none" where there is no row
    membership,  \* tenant_memberships.status
    role,        \* the rows of roles, with their role_permissions
    assigned,    \* the live role_assignments of tenant scope, per member
    request      \* what each request knows

vars == <<user, membership, role, assigned, request>>

(* The permissions told apart: those that the operations below ask for.    *)
TenantPermissions == {"user.manage", "role.manage"}

RoleRow == [status : {"none", "active", "inactive"}, permissions : SUBSET TenantPermissions]
NoRole == [status |-> "none", permissions |-> {}]

TenantAdmin == [tenant |-> None, code |-> "tenant_admin"]
TenantMember == [tenant |-> None, code |-> "tenant_member"]
SystemRoles == {TenantAdmin, TenantMember}
RoleIds == SystemRoles \cup [tenant : Tenants, code : Codes]

(* What sync_system_roles writes at every start.                           *)
SystemPermissions(r) ==
    IF r = TenantAdmin THEN TenantPermissions ELSE {}

(* The change asked of a member: a status, roles, or both.                 *)
Statuses == {"keep", "active", "suspended"}
RoleChanges == [set : {FALSE}, roles : {{}}] \cup [set : {TRUE}, roles : SUBSET RoleIds]

(* What a request knows: who asks, as authenticated; the change it is to   *)
(* make and what it read of the member; the administrators it has locked.  *)
Idle == [pc |-> "idle", actor |-> None, tenant |-> None, roles |-> {}, permissions |-> {},
         target |-> None, change |-> [set |-> FALSE, roles |-> {}], status |-> "keep",
         administers |-> FALSE, locks |-> {}]

TypeOK ==
    /\ user \in [Users -> {"none", "active", "suspended"}]
    /\ membership \in [Tenants -> [Users -> {"none", "active", "inactive"}]]
    /\ role \in [RoleIds -> RoleRow]
    /\ assigned \in [Tenants -> [Users -> SUBSET RoleIds]]
    /\ request \in [Requests ->
         [pc : {"idle", "authenticated", "read", "weighed"},
          actor : Users \cup {None}, tenant : Tenants \cup {None},
          roles : SUBSET RoleIds, permissions : SUBSET TenantPermissions,
          target : Users \cup {None}, change : RoleChanges, status : Statuses,
          administers : BOOLEAN, locks : SUBSET Users]]

(* A workspace begins with its founder, who holds tenant_admin.            *)
Init ==
    /\ user = [u \in Users |-> IF \E t \in Tenants : Founder[t] = u THEN "active" ELSE "none"]
    /\ membership = [t \in Tenants |-> [u \in Users |->
                        IF u = Founder[t] THEN "active" ELSE "none"]]
    /\ role = [r \in RoleIds |->
                 IF r \in SystemRoles
                 THEN [status |-> "active", permissions |-> SystemPermissions(r)]
                 ELSE NoRole]
    /\ assigned = [t \in Tenants |-> [u \in Users |->
                     IF u = Founder[t] THEN {TenantAdmin} ELSE {}]]
    /\ request = [q \in Requests |-> Idle]

-----------------------------------------------------------------------------
(* Reading identities *)

(* _grants: the roles of the member that count, and what they permit.      *)
Held(t, u) == {r \in assigned[t][u] : role[r].status = "active"}
Grants(t, u) == UNION {role[r].permissions : r \in Held(t, u)}

(* get_context: fail closed on an account, then on a membership, that is   *)
(* not active.                                                             *)
GetContext(t, u) == user[u] = "active" /\ membership[t][u] = "active"

Authenticate(q) ==
    /\ request[q] = Idle
    /\ \E t \in Tenants, u \in Users :
         /\ GetContext(t, u)
         /\ request' = [request EXCEPT ![q] =
                [@ EXCEPT !.pc = "authenticated", !.actor = u, !.tenant = t,
                          !.roles = Held(t, u),
                          !.permissions = Grants(t, u)]]
    /\ UNCHANGED <<user, membership, role, assigned>>

Holds(q, permission) ==
    /\ request[q].pc = "authenticated"
    /\ permission \in request[q].permissions

Done(q) == request' = [request EXCEPT ![q] = Idle]

(* A refused request raises, and its transaction is rolled back.           *)
Refuse(q) ==
    /\ request[q] # Idle
    /\ Done(q)
    /\ UNCHANGED <<user, membership, role, assigned>>

-----------------------------------------------------------------------------
(* Roles *)

(* _require_permission_ceiling *)
WithinCeiling(q, permissions) == permissions \subseteq request[q].permissions

(* The permissions a role carries become exactly these; what it no longer  *)
(* carries is tombstoned, and would come back with the same row.           *)
ReplaceRolePermissions(r, permissions) == role' = [role EXCEPT ![r].permissions = permissions]

(* A code is taken for good in the workspace, by a disabled role too.      *)
InsertRole(r, permissions) ==
    /\ role[r] = NoRole
    /\ role' = [role EXCEPT ![r] = [status |-> "active", permissions |-> permissions]]

(* permissions_for_roles reads the roles as they are now.                  *)
PermissionsForRoles(roles) == UNION {role[r].permissions : r \in roles}

(* The custom and the system roles a workspace can see (RoleService._role). *)
Visible(t) == {r \in RoleIds : r.tenant \in {t, None} /\ role[r].status # "none"}

CreateRole(q) ==
    /\ Holds(q, "role.manage")
    /\ \E code \in Codes, permissions \in SUBSET TenantPermissions :
         LET r == [tenant |-> request[q].tenant, code |-> code] IN
         /\ WithinCeiling(q, permissions)
         /\ InsertRole(r, permissions)
    /\ Done(q)
    /\ UNCHANGED <<user, membership, assigned>>

MemberCount(t, r) == Cardinality({u \in Users : r \in assigned[t][u]})

(* A mistake to be caught: no ceiling.                                     *)
ChangePermissionsFreely(q, r, permissions) ==
    /\ r \notin request[q].roles
    /\ ReplaceRolePermissions(r, permissions)

(* update_role with permission_codes *)
ChangePermissions(q, r, permissions) ==
    /\ r \notin request[q].roles
    /\ WithinCeiling(q, permissions)
    /\ ReplaceRolePermissions(r, permissions)

(* update_role with a status: only disabling is guarded.                   *)
ChangeStatus(q, r, status) ==
    /\ status = "inactive" => /\ r \notin request[q].roles
                              /\ MemberCount(request[q].tenant, r) = 0
    /\ role' = [role EXCEPT ![r].status = status]

UpdateRole(q) ==
    /\ Holds(q, "role.manage")
    /\ \E r \in Visible(request[q].tenant) \ SystemRoles :
         \/ \E permissions \in SUBSET TenantPermissions : ChangePermissions(q, r, permissions)
         \/ \E status \in {"active", "inactive"} : ChangeStatus(q, r, status)
    /\ Done(q)
    /\ UNCHANGED <<user, membership, assigned>>

-----------------------------------------------------------------------------
(* Users *)

(* The roles an assignment may name (replace_tenant_roles).                *)
Assignable(t) == {r \in Visible(t) : role[r].status = "active"}

(* _require_assignable_roles: silent when a role is not assignable, since  *)
(* replace_tenant_roles, which reads the roles again, refuses those.       *)
RequireAssignable(q, roles) ==
    \/ ~ roles \subseteq Assignable(request[q].tenant)
    \/ WithinCeiling(q, PermissionsForRoles(roles))

(* replace_tenant_roles makes the member's roles exactly these.            *)
ReplaceTenantRoles(t, u, roles) ==
    /\ roles \subseteq Assignable(t)
    /\ assigned' = [assigned EXCEPT ![t][u] = roles]

CreateUser(q) ==
    /\ Holds(q, "user.manage")
    /\ \E u \in Users, roles \in SUBSET RoleIds :
         LET t == request[q].tenant IN
         /\ user[u] = "none"
         /\ RequireAssignable(q, roles)
         /\ user' = [user EXCEPT ![u] = "active"]
         /\ membership' = [membership EXCEPT ![t][u] = "active"]
         /\ ReplaceTenantRoles(t, u, roles)
    /\ Done(q)
    /\ UNCHANGED role

(* update_user reads the member's rows and roles; nobody changes their own *)
(* access.                                                                 *)
ReadUser(q) ==
    /\ Holds(q, "user.manage")
    /\ \E u \in Users \ {request[q].actor}, change \in RoleChanges, status \in Statuses :
         LET t == request[q].tenant IN
         /\ membership[t][u] # "none"
         /\ request' = [request EXCEPT ![q] =
                [@ EXCEPT !.pc = "read", !.target = u, !.change = change, !.status = status,
                          !.administers = /\ TenantAdmin \in assigned[t][u]
                                          /\ user[u] = "active"
                                          /\ membership[t][u] = "active"]]
    /\ UNCHANGED <<user, membership, role, assigned>>

Administrators(t) ==
    {u \in Users : /\ TenantAdmin \in assigned[t][u]
                   /\ user[u] = "active"
                   /\ membership[t][u] = "active"}

(* _ensure_tenant_retains_an_administrator, which trusts what was read and *)
(* locks the rows of the other administrators it finds, the row of the     *)
(* role with them.                                                         *)
RemovesAdministrator(q) ==
    /\ request[q].administers
    /\ \/ request[q].status = "suspended"
       \/ request[q].change.set /\ TenantAdmin \notin request[q].change.roles

(* A mistake to be caught: the target counts as well.                      *)
OthersWithTarget(q) == Administrators(request[q].tenant)

Others(q) == Administrators(request[q].tenant) \ {request[q].target}

Locked(q) == UNION {request[p].locks : p \in Requests \ {q}}

RetainsAdministrator(q) ==
    RemovesAdministrator(q) => Others(q) # {} /\ Locked(q) = {}

WeighChange(q) ==
    /\ request[q].pc = "read"
    /\ RetainsAdministrator(q)
    /\ RequireAssignable(q, request[q].change.roles)
    /\ request' = [request EXCEPT ![q].pc = "weighed",
                      ![q].locks = IF RemovesAdministrator(q) THEN Others(q) ELSE {}]
    /\ UNCHANGED <<user, membership, role, assigned>>

(* A mistake to be caught: the status of the account, as it is.            *)
SetStatusAlike(t, u, status) ==
    IF status = "keep"
    THEN UNCHANGED <<user, membership>>
    ELSE /\ user' = [user EXCEPT ![u] = status]
         /\ membership' = [membership EXCEPT ![t][u] = status]

(* The account's status is one for all of its workspaces.                  *)
SetStatus(t, u, status) ==
    IF status = "keep"
    THEN UNCHANGED <<user, membership>>
    ELSE /\ user' = [user EXCEPT ![u] = status]
         /\ membership' = [membership EXCEPT ![t][u] =
                              IF status = "active" THEN "active" ELSE "inactive"]

WriteUser(q) ==
    LET r == request[q] IN
    /\ r.pc = "weighed"
    /\ r.target \notin Locked(q)
    /\ SetStatus(r.tenant, r.target, r.status)
    /\ IF r.change.set
       THEN ReplaceTenantRoles(r.tenant, r.target, r.change.roles)
       ELSE UNCHANGED assigned
    /\ Done(q)
    /\ UNCHANGED role

-----------------------------------------------------------------------------
Handle(q) ==
    \/ Authenticate(q)
    \/ CreateRole(q)
    \/ UpdateRole(q)
    \/ CreateUser(q)
    \/ ReadUser(q)
    \/ WeighChange(q)
    \/ WriteUser(q)
    \/ Refuse(q)

Next == \E q \in Requests : Handle(q)

Spec == Init /\ [][Next]_vars

-----------------------------------------------------------------------------
(* No sequence of changes leaves a workspace without an active account     *)
(* that is an active member with the role tenant_admin: nobody could bring *)
(* one back.  users.py says it rejects "a mutation that would remove the   *)
(* workspace's final admin".                                               *)
TenantKeepsAdministrator == \A t \in Tenants : Administrators(t) # {}

(* Everything the roles of a member would permit, once all of it counts.   *)
Authority(t, u) == UNION {role[r].permissions : r \in assigned[t][u]}

Granted ==
    LET handled == CHOOSE q \in Requests : request[q] # request'[q] IN
    /\ \A r \in RoleIds :
         role'[r].permissions \ role[r].permissions \subseteq request[handled].permissions
    /\ \A t \in Tenants, u \in Users :
         Authority(t, u)' \ Authority(t, u) \subseteq request[handled].permissions

(* Whatever a step adds to what a role permits, or to what the roles of a  *)
(* member permit, the administrator behind the step was allowed when the   *)
(* request was authenticated: be it by a new role, by another set of       *)
(* roles, or by new permissions of a role that is already held.            *)
GrantsWithinAuthority == [][Granted]_vars
=============================================================================

-------------------------- MODULE GovernanceProofs --------------------------
(***************************************************************************)
(* Proofs about Governance for any number of accounts, roles and           *)
(* workspaces, while one request is handled after another: two at once     *)
(* act on what they read before the other wrote.                           *)
(***************************************************************************)
EXTENDS Governance, TLAPS

OneAtATime == \A p, q \in Requests : p = q
OneWorkspace == \A s, t \in Tenants : s = t

Account == {"none", "active", "suspended"}
Membership == {"none", "active", "inactive"}
Row == [pc : {"idle", "authenticated", "read", "weighed"},
        actor : Users \cup {None}, tenant : Tenants \cup {None},
        roles : SUBSET RoleIds, permissions : SUBSET TenantPermissions,
        target : Users \cup {None}, change : RoleChanges, status : Statuses,
        administers : BOOLEAN, locks : SUBSET Users]

(* A request under way is in a workspace, and one that has read a member   *)
(* is about that member.                                                   *)
Prepared ==
    \A q \in Requests :
        /\ request[q].pc # "idle" => request[q].tenant \in Tenants
        /\ request[q].pc \in {"read", "weighed"} => request[q].target \in Users

Typed == TypeOK /\ Prepared

-----------------------------------------------------------------------------
(* Type correctness *)

LEMMA TypedParts ==
    Typed <=> /\ user \in [Users -> Account]
              /\ membership \in [Tenants -> [Users -> Membership]]
              /\ role \in [RoleIds -> RoleRow]
              /\ assigned \in [Tenants -> [Users -> SUBSET RoleIds]]
              /\ request \in [Requests -> Row]
              /\ Prepared
BY DEF Typed, TypeOK, Account, Membership, Row

LEMMA IdleType == Idle \in Row /\ Idle.pc = "idle"
BY DEF Idle, Row, RoleChanges, Statuses

LEMMA TypedInit == Init => Typed
<1> SUFFICES ASSUME Init PROVE Typed
  OBVIOUS
<1>1. user \in [Users -> Account] /\ membership \in [Tenants -> [Users -> Membership]]
  BY DEF Init, Account, Membership
<1>2. role \in [RoleIds -> RoleRow]
  BY DEF Init, RoleRow, NoRole, SystemPermissions
<1>3. assigned \in [Tenants -> [Users -> SUBSET RoleIds]]
  BY DEF Init, RoleIds, SystemRoles
<1>4. request \in [Requests -> Row] /\ Prepared
  BY IdleType DEF Init, Prepared
<1> QED BY <1>1, <1>2, <1>3, <1>4, TypedParts

LEMMA DoneType ==
    ASSUME Typed, NEW q \in Requests, Done(q)
    PROVE  request' \in [Requests -> Row] /\ Prepared'
BY IdleType, TypedParts DEF Done, Prepared

LEMMA RequestType ==
    ASSUME Typed, NEW q \in Requests, NEW r \in Row, request' = [request EXCEPT ![q] = r],
           r.pc # "idle" => r.tenant \in Tenants,
           r.pc \in {"read", "weighed"} => r.target \in Users
    PROVE  request' \in [Requests -> Row] /\ Prepared'
BY TypedParts DEF Prepared

(* What a request is handled as changes nothing but what it names.         *)
LEMMA ReplaceType ==
    ASSUME Typed, NEW t \in Tenants, NEW u \in Users, NEW roles, ReplaceTenantRoles(t, u, roles)
    PROVE  assigned' \in [Tenants -> [Users -> SUBSET RoleIds]]
BY TypedParts DEF ReplaceTenantRoles, Assignable, Visible

LEMMA HeldType ==
    ASSUME Typed, NEW t \in Tenants, NEW u \in Users
    PROVE  Held(t, u) \in SUBSET RoleIds /\ Grants(t, u) \in SUBSET TenantPermissions
BY TypedParts DEF Held, Grants, RoleRow

LEMMA TypedNext == Typed /\ [Next]_vars => Typed'
<1> SUFFICES ASSUME Typed, [Next]_vars PROVE Typed'
  OBVIOUS
<1> DEFINE Goal == /\ user' \in [Users -> Account]
                   /\ membership' \in [Tenants -> [Users -> Membership]]
                   /\ role' \in [RoleIds -> RoleRow]
                   /\ assigned' \in [Tenants -> [Users -> SUBSET RoleIds]]
                   /\ request' \in [Requests -> Row]
                   /\ Prepared'
<1> SUFFICES Goal
  BY DEF Typed, TypeOK, Account, Membership, Row
<1>0. /\ user \in [Users -> Account]
      /\ membership \in [Tenants -> [Users -> Membership]]
      /\ role \in [RoleIds -> RoleRow]
      /\ assigned \in [Tenants -> [Users -> SUBSET RoleIds]]
      /\ request \in [Requests -> Row]
      /\ Prepared
  BY TypedParts
<1>1. ASSUME NEW q \in Requests, Authenticate(q) PROVE Goal
  <2>1. PICK t \in Tenants, u \in Users :
          request' = [request EXCEPT ![q] =
                [@ EXCEPT !.pc = "authenticated", !.actor = u, !.tenant = t,
                          !.roles = Held(t, u), !.permissions = Grants(t, u)]]
    BY <1>1 DEF Authenticate
  <2> DEFINE r == [request[q] EXCEPT !.pc = "authenticated", !.actor = u, !.tenant = t,
                          !.roles = Held(t, u), !.permissions = Grants(t, u)]
  <2>2. r \in Row /\ r.pc = "authenticated" /\ r.tenant = t
    BY <1>0, HeldType, ZenonT(40) DEF Row
  <2>3. request' = [request EXCEPT ![q] = r]
    BY <1>0, <2>1
  <2> HIDE DEF r
  <2>4. request' \in [Requests -> Row] /\ Prepared'
    BY <2>2, <2>3, RequestType
  <2> QED BY <1>0, <1>1, <2>4 DEF Authenticate
<1>2. ASSUME NEW q \in Requests, CreateRole(q) PROVE Goal
  <2>1. request[q].tenant \in Tenants
    BY <1>0, <1>2 DEF CreateRole, Holds, Prepared
  <2>2. PICK code \in Codes, permissions \in SUBSET TenantPermissions :
          InsertRole([tenant |-> request[q].tenant, code |-> code], permissions)
    BY <1>2 DEF CreateRole
  <2>3. role' \in [RoleIds -> RoleRow]
    BY <1>0, <2>2 DEF InsertRole, RoleRow
  <2>4. request' \in [Requests -> Row] /\ Prepared'
    BY <1>2, DoneType DEF CreateRole
  <2> QED BY <1>0, <1>2, <2>3, <2>4 DEF CreateRole
<1>3. ASSUME NEW q \in Requests, UpdateRole(q) PROVE Goal
  <2>1. PICK r \in RoleIds :
           \/ \E permissions \in SUBSET TenantPermissions : ChangePermissions(q, r, permissions)
           \/ \E status \in {"active", "inactive"} : ChangeStatus(q, r, status)
    BY <1>3 DEF UpdateRole, Visible
  <2>2. role' \in [RoleIds -> RoleRow]
    BY <1>0, <2>1, ZenonT(40) DEF ChangePermissions, ReplaceRolePermissions, ChangeStatus, RoleRow
  <2>3. request' \in [Requests -> Row] /\ Prepared'
    BY <1>3, DoneType DEF UpdateRole
  <2> QED BY <1>0, <1>3, <2>2, <2>3 DEF UpdateRole
<1>4. ASSUME NEW q \in Requests, CreateUser(q) PROVE Goal
  <2> DEFINE t == request[q].tenant
  <2>1. t \in Tenants
    BY <1>0, <1>4 DEF CreateUser, Holds, Prepared
  <2>2. PICK u \in Users, roles \in SUBSET RoleIds :
          /\ user' = [user EXCEPT ![u] = "active"]
          /\ membership' = [membership EXCEPT ![t][u] = "active"]
          /\ ReplaceTenantRoles(t, u, roles)
    BY <1>4 DEF CreateUser
  <2> HIDE DEF t
  <2>3. user' \in [Users -> Account] /\ membership' \in [Tenants -> [Users -> Membership]]
    BY <1>0, <2>1, <2>2 DEF Account, Membership
  <2>4. assigned' \in [Tenants -> [Users -> SUBSET RoleIds]]
    BY <2>1, <2>2, ReplaceType
  <2>5. request' \in [Requests -> Row] /\ Prepared'
    BY <1>4, DoneType DEF CreateUser
  <2> QED BY <1>0, <1>4, <2>3, <2>4, <2>5 DEF CreateUser
<1>5. ASSUME NEW q \in Requests, ReadUser(q) PROVE Goal
  <2> DEFINE t == request[q].tenant
             r(u, change, status) ==
                [request[q] EXCEPT !.pc = "read", !.target = u, !.change = change, !.status = status,
                          !.administers = /\ TenantAdmin \in assigned[t][u]
                                          /\ user[u] = "active"
                                          /\ membership[t][u] = "active"]
  <2>1. PICK u \in Users, change \in RoleChanges, status \in Statuses :
          request' = [request EXCEPT ![q] = r(u, change, status)]
    BY <1>5, ZenonT(30) DEF ReadUser
  <2>2. request[q] \in Row /\ t \in Tenants
    BY <1>0, <1>5 DEF ReadUser, Holds, Prepared
  <2>3. /\ r(u, change, status) \in Row /\ r(u, change, status).tenant = t
        /\ r(u, change, status).target = u
    BY <2>2 DEF Row
  <2> HIDE DEF r, t
  <2>4. request' \in [Requests -> Row] /\ Prepared'
    BY <2>1, <2>2, <2>3, RequestType
  <2> QED BY <1>0, <1>5, <2>4 DEF ReadUser
<1>6. ASSUME NEW q \in Requests, WeighChange(q) PROVE Goal
  <2> DEFINE locks == IF RemovesAdministrator(q) THEN Others(q) ELSE {}
             r == [request[q] EXCEPT !.pc = "weighed", !.locks = locks]
  <2>1. locks \in SUBSET Users
    BY DEF Others, Administrators
  <2>2. request' = [request EXCEPT ![q] = r]
    BY <1>0, <1>6 DEF WeighChange
  <2>3. request[q] \in Row /\ request[q].tenant \in Tenants /\ request[q].target \in Users
    BY <1>0, <1>6 DEF WeighChange, Prepared
  <2> HIDE DEF locks
  <2>4. r \in Row /\ r.tenant \in Tenants /\ r.target \in Users
    BY <2>1, <2>3 DEF Row
  <2> HIDE DEF r
  <2>5. request' \in [Requests -> Row] /\ Prepared'
    BY <2>2, <2>4, RequestType
  <2> QED BY <1>0, <1>6, <2>5 DEF WeighChange
<1>7. ASSUME NEW q \in Requests, WriteUser(q) PROVE Goal
  <2> DEFINE r == request[q]
  <2>1. r.tenant \in Tenants /\ r.target \in Users /\ r.status \in Statuses
    BY <1>0, <1>7 DEF WriteUser, Prepared, Row
  <2>2. SetStatus(r.tenant, r.target, r.status)
    BY <1>7 DEF WriteUser
  <2>3. user' \in [Users -> Account] /\ membership' \in [Tenants -> [Users -> Membership]]
    <3>1. CASE r.status = "keep"
      BY <1>0, <2>2, <3>1 DEF SetStatus
    <3>2. CASE r.status \in {"active", "suspended"}
      <4> HIDE DEF r
      <4>1. /\ user' = [user EXCEPT ![r.target] = r.status]
            /\ membership' = [membership EXCEPT ![r.tenant][r.target] =
                                IF r.status = "active" THEN "active" ELSE "inactive"]
        BY <2>2, <3>2 DEF SetStatus
      <4>2. user' \in [Users -> Account]
        BY <1>0, <2>1, <3>2, <4>1 DEF Account
      <4>3. membership' \in [Tenants -> [Users -> Membership]]
        BY <1>0, <2>1, <4>1 DEF Membership
      <4> QED BY <4>2, <4>3
    <3> QED BY <2>1, <3>1, <3>2 DEF Statuses
  <2>4. assigned' \in [Tenants -> [Users -> SUBSET RoleIds]]
    BY <1>0, <1>7, <2>1, ReplaceType DEF WriteUser
  <2>5. request' \in [Requests -> Row] /\ Prepared'
    BY <1>7, DoneType DEF WriteUser
  <2> QED BY <1>0, <1>7, <2>3, <2>4, <2>5 DEF WriteUser
<1>8. ASSUME NEW q \in Requests, Refuse(q) PROVE Goal
  <2>1. request' \in [Requests -> Row] /\ Prepared'
    BY <1>8, DoneType DEF Refuse
  <2> QED BY <1>0, <1>8, <2>1 DEF Refuse
<1>9. CASE UNCHANGED vars
  BY <1>0, <1>9 DEF vars, Prepared
<1> QED BY <1>1, <1>2, <1>3, <1>4, <1>5, <1>6, <1>7, <1>8, <1>9 DEF Next, Handle

(* Accounts, members, roles, assignments and requests keep their shape,    *)
(* however many requests are under way.                                    *)
THEOREM TypeCorrect == Spec => []TypeOK
<1>1. Typed => TypeOK
  BY DEF Typed
<1> QED BY <1>1, TypedInit, TypedNext, PTL DEF Spec

-----------------------------------------------------------------------------
(* One request after another *)

(* What a request has weighed is still so: the roles it is to assign are   *)
(* within the actor's permissions, it knows whether its target is an       *)
(* administrator, and it leaves another one where it removes one.          *)
Weighed ==
    \A q \in Requests : LET r == request[q] IN
        /\ r.pc \in {"read", "weighed"} => (r.administers <=> r.target \in Administrators(r.tenant))
        /\ r.pc = "weighed" => RequireAssignable(q, r.change.roles)
        /\ r.pc = "weighed" /\ RemovesAdministrator(q) => Others(q) # {}

SerialInv == Typed /\ Weighed

(* A step after which no request is about a member.                        *)
LEMMA NothingRead ==
    ASSUME Typed, OneAtATime, NEW q \in Requests, NEW r,
           request' = [request EXCEPT ![q] = r], r.pc \in {"idle", "authenticated"}
    PROVE  Weighed'
<1>1. \A p \in Requests : request'[p] = r
  BY TypedParts DEF OneAtATime
<1> QED BY <1>1 DEF Weighed

LEMMA WeighedNext == OneAtATime /\ SerialInv /\ [Next]_vars => Weighed'
<1> SUFFICES ASSUME OneAtATime, SerialInv, [Next]_vars PROVE Weighed'
  OBVIOUS
<1>0. Typed /\ request \in [Requests -> Row]
  BY TypedParts DEF SerialInv
<1>1. ASSUME NEW q \in Requests, Authenticate(q) PROVE Weighed'
  <2>1. PICK t \in Tenants, u \in Users :
          request' = [request EXCEPT ![q] =
                [@ EXCEPT !.pc = "authenticated", !.actor = u, !.tenant = t,
                          !.roles = Held(t, u), !.permissions = Grants(t, u)]]
    BY <1>1 DEF Authenticate
  <2> DEFINE r == [request[q] EXCEPT !.pc = "authenticated", !.actor = u, !.tenant = t,
                          !.roles = Held(t, u), !.permissions = Grants(t, u)]
  <2>2. request' = [request EXCEPT ![q] = r] /\ r.pc = "authenticated"
    BY <1>0, <2>1 DEF Row
  <2> HIDE DEF r
  <2> QED BY <1>0, <2>2, NothingRead
<1>2. ASSUME NEW q \in Requests, Done(q) PROVE Weighed'
  BY <1>0, <1>2, IdleType, NothingRead DEF Done
<1>3. ASSUME NEW q \in Requests,
             CreateRole(q) \/ UpdateRole(q) \/ CreateUser(q) \/ WriteUser(q) \/ Refuse(q)
      PROVE  Weighed'
  BY <1>2, <1>3 DEF CreateRole, UpdateRole, CreateUser, WriteUser, Refuse
<1>4. ASSUME NEW q \in Requests, ReadUser(q) PROVE Weighed'
  <2> DEFINE t == request[q].tenant
             administers(u) == /\ TenantAdmin \in assigned[t][u]
                               /\ user[u] = "active"
                               /\ membership[t][u] = "active"
             r(u, change, status) ==
                [request[q] EXCEPT !.pc = "read", !.target = u, !.change = change, !.status = status,
                          !.administers = administers(u)]
  <2>1. PICK u \in Users, change \in RoleChanges, status \in Statuses :
          request' = [request EXCEPT ![q] = r(u, change, status)]
    BY <1>4, ZenonT(30) DEF ReadUser
  <2>2. request[q] \in Row
    BY <1>0
  <2> HIDE DEF administers
  <2>3. /\ r(u, change, status).pc = "read" /\ r(u, change, status).target = u
        /\ r(u, change, status).administers = administers(u)
        /\ r(u, change, status).tenant = t
    BY <2>2 DEF Row
  <2>4. \A p \in Requests : request'[p] = r(u, change, status)
    BY <1>0, <2>1 DEF OneAtATime
  <2>5. administers(u) <=> u \in Administrators(t)
    BY DEF administers, Administrators
  <2>6. UNCHANGED <<user, membership, role, assigned>>
    BY <1>4 DEF ReadUser
  <2> HIDE DEF r, t
  <2>7. \A p \in Requests : /\ request'[p].pc = "read" /\ request'[p].target = u
                            /\ request'[p].administers = administers(u) /\ request'[p].tenant = t
    BY <2>3, <2>4
  <2> QED BY <2>5, <2>6, <2>7 DEF Weighed, Administrators
<1>5. ASSUME NEW q \in Requests, WeighChange(q) PROVE Weighed'
  <2>1. UNCHANGED <<user, membership, role, assigned>>
        /\ request[q].pc = "read" /\ RequireAssignable(q, request[q].change.roles)
        /\ (RemovesAdministrator(q) => Others(q) # {})
    BY <1>5 DEF WeighChange, RetainsAdministrator
  <2>2. /\ request'[q].tenant = request[q].tenant /\ request'[q].target = request[q].target
        /\ request'[q].permissions = request[q].permissions
        /\ request'[q].change = request[q].change /\ request'[q].status = request[q].status
        /\ request'[q].administers = request[q].administers
    BY <1>0, <1>5 DEF WeighChange, Row
  <2>3. \A p \in Requests : p = q
    BY DEF OneAtATime
  <2>4. request[q].administers <=> request[q].target \in Administrators(request[q].tenant)
    BY <2>1 DEF SerialInv, Weighed
  <2>5. (request[q].administers <=> request[q].target \in Administrators(request[q].tenant))'
    <3>1. Administrators(request[q].tenant)' = Administrators(request[q].tenant)
      BY <2>1, <2>2 DEF Administrators
    <3> QED BY <2>2, <2>4, <3>1, Zenon
  <2>6. RequireAssignable(q, request[q].change.roles)'
    BY <2>1, <2>2 DEF RequireAssignable, Assignable, Visible, PermissionsForRoles, WithinCeiling
  <2>7. RemovesAdministrator(q)' => Others(q)' # {}
    BY <2>1, <2>2 DEF RemovesAdministrator, Others, Administrators
  <2> QED BY <2>3, <2>5, <2>6, <2>7 DEF Weighed
<1>6. CASE UNCHANGED vars
  BY <1>6 DEF vars, SerialInv, Weighed, Administrators, RequireAssignable, Assignable, Visible,
              PermissionsForRoles, WithinCeiling, RemovesAdministrator, Others
<1> QED BY <1>1, <1>3, <1>4, <1>5, <1>6 DEF Next, Handle

LEMMA SerialInit == Init => SerialInv
BY TypedInit, IdleType DEF Init, SerialInv, Weighed

LEMMA SerialNext == OneAtATime /\ SerialInv /\ [Next]_vars => SerialInv'
BY TypedNext, WeighedNext DEF SerialInv

-----------------------------------------------------------------------------
(* The ceiling *)

LEMMA GrantedNext == OneAtATime /\ SerialInv /\ [Next]_vars => [Granted]_vars
<1> SUFFICES ASSUME OneAtATime, SerialInv, Next PROVE Granted
  BY DEF vars
<1>0. /\ role \in [RoleIds -> RoleRow] /\ assigned \in [Tenants -> [Users -> SUBSET RoleIds]]
      /\ request \in [Requests -> Row] /\ Prepared
  BY TypedParts DEF SerialInv
<1> DEFINE Within(q) ==
             /\ \A r \in RoleIds :
                  role'[r].permissions \ role[r].permissions \subseteq request[q].permissions
             /\ \A t \in Tenants, u \in Users :
                  Authority(t, u)' \ Authority(t, u) \subseteq request[q].permissions
<1>1. ASSUME NEW q \in Requests, request'[q] # request[q], Within(q) PROVE Granted
  <2>1. (CHOOSE p \in Requests : request[p] # request'[p]) = q
    BY <1>1 DEF OneAtATime
  <2> QED BY <1>1, <2>1 DEF Granted
<1>2. ASSUME NEW q \in Requests, Done(q), request[q].pc # "idle" PROVE request'[q] # request[q]
  BY <1>0, <1>2, IdleType DEF Done
<1>3. ASSUME role' = role, assigned' = assigned, NEW q \in Requests PROVE Within(q)
  BY <1>3 DEF Authority
<1>4. ASSUME NEW q \in Requests, Authenticate(q) PROVE Granted
  <2>1. request'[q].pc = "authenticated" /\ request[q].pc = "idle"
    BY <1>0, <1>4, IdleType DEF Authenticate, Row
  <2> QED BY <1>1, <1>3, <1>4, <2>1 DEF Authenticate
<1>5. ASSUME NEW q \in Requests, ReadUser(q) PROVE Granted
  <2>1. request'[q].pc = "read" /\ request[q].pc = "authenticated"
    BY <1>0, <1>5 DEF ReadUser, Holds, Row
  <2> QED BY <1>1, <1>3, <1>5, <2>1 DEF ReadUser
<1>6. ASSUME NEW q \in Requests, WeighChange(q) PROVE Granted
  <2>1. request'[q].pc = "weighed" /\ request[q].pc = "read"
    BY <1>0, <1>6 DEF WeighChange, Row
  <2> QED BY <1>1, <1>3, <1>6, <2>1 DEF WeighChange
<1>7. ASSUME NEW q \in Requests, Refuse(q) PROVE Granted
  <2>1. Done(q) /\ request[q] # Idle /\ role' = role /\ assigned' = assigned
    BY <1>7 DEF Refuse
  <2>2. request'[q] = Idle
    BY <1>0, <2>1 DEF Done
  <2> QED BY <1>1, <1>3, <2>1, <2>2
<1>8. ASSUME NEW q \in Requests, NEW s \in RoleIds, NEW permissions \in SUBSET TenantPermissions,
             permissions \ role[s].permissions \subseteq request[q].permissions,
             \A r \in RoleIds \ {s} : role'[r].permissions = role[r].permissions,
             role'[s].permissions = permissions, assigned' = assigned
      PROVE  Within(q)
  <2>1. \A r \in RoleIds :
           role'[r].permissions \ role[r].permissions \subseteq request[q].permissions
    BY <1>8
  <2>2. ASSUME NEW t \in Tenants, NEW u \in Users
        PROVE  Authority(t, u)' \ Authority(t, u) \subseteq request[q].permissions
    <3>1. assigned[t][u] \subseteq RoleIds /\ assigned'[t][u] = assigned[t][u]
      BY <1>0, <1>8
    <3> QED BY <2>1, <3>1 DEF Authority
  <2> QED BY <2>1, <2>2
<1>9. ASSUME NEW q \in Requests, CreateRole(q) PROVE Granted
  <2>1. PICK code \in Codes, permissions \in SUBSET TenantPermissions :
          /\ WithinCeiling(q, permissions)
          /\ InsertRole([tenant |-> request[q].tenant, code |-> code], permissions)
    BY <1>9 DEF CreateRole
  <2>2. request[q].tenant \in Tenants
    BY <1>0, <1>9 DEF CreateRole, Holds, Prepared
  <2> DEFINE s == [tenant |-> request[q].tenant, code |-> code]
  <2>3. s \in RoleIds
    BY <2>2 DEF RoleIds
  <2>4. role' = [role EXCEPT ![s] = [status |-> "active", permissions |-> permissions]]
    BY <2>1 DEF InsertRole
  <2> HIDE DEF s
  <2>5. /\ \A r \in RoleIds \ {s} : role'[r].permissions = role[r].permissions
        /\ role'[s].permissions = permissions
    BY <1>0, <2>3, <2>4
  <2>6. permissions \subseteq request[q].permissions /\ assigned' = assigned
    BY <1>9, <2>1 DEF WithinCeiling, CreateRole
  <2>7. Within(q)
    BY <1>8, <2>3, <2>5, <2>6
  <2>8. request'[q] # request[q]
    BY <1>2, <1>9 DEF CreateRole, Holds
  <2> QED BY <1>1, <2>7, <2>8
<1>10. ASSUME NEW q \in Requests, UpdateRole(q) PROVE Granted
  <2>1. PICK s \in RoleIds :
           \/ \E permissions \in SUBSET TenantPermissions : ChangePermissions(q, s, permissions)
           \/ \E status \in {"active", "inactive"} : ChangeStatus(q, s, status)
    BY <1>10 DEF UpdateRole, Visible
  <2>2. assigned' = assigned
    BY <1>10 DEF UpdateRole
  <2>3. CASE \E permissions \in SUBSET TenantPermissions : ChangePermissions(q, s, permissions)
    <3>1. PICK permissions \in SUBSET TenantPermissions : ChangePermissions(q, s, permissions)
      BY <2>3
    <3>2. /\ permissions \subseteq request[q].permissions
          /\ \A r \in RoleIds \ {s} : role'[r].permissions = role[r].permissions
          /\ role'[s].permissions = permissions
      BY <1>0, <3>1 DEF ChangePermissions, ReplaceRolePermissions, WithinCeiling, RoleRow
    <3>3. Within(q)
      BY <1>8, <2>2, <3>2
    <3> QED BY <1>1, <1>2, <1>10, <3>3 DEF UpdateRole, Holds
  <2>4. CASE \E status \in {"active", "inactive"} : ChangeStatus(q, s, status)
    <3>1. \A r \in RoleIds : role'[r].permissions = role[r].permissions
      BY <1>0, <2>4 DEF ChangeStatus, RoleRow
    <3>2. role[s].permissions \in SUBSET TenantPermissions
      BY <1>0 DEF RoleRow
    <3>3. Within(q)
      BY <1>8, <2>2, <3>1, <3>2
    <3> QED BY <1>1, <1>2, <1>10, <3>3 DEF UpdateRole, Holds
  <2> QED BY <2>1, <2>3, <2>4
<1>11. ASSUME NEW q \in Requests, NEW v \in Users, NEW roles, request[q].tenant \in Tenants,
              ReplaceTenantRoles(request[q].tenant, v, roles), RequireAssignable(q, roles),
              role' = role
       PROVE  Within(q)
  <2>1. PermissionsForRoles(roles) \subseteq request[q].permissions
    BY <1>11 DEF ReplaceTenantRoles, RequireAssignable, WithinCeiling
  <2>2. ASSUME NEW t \in Tenants, NEW u \in Users
        PROVE  Authority(t, u)' \ Authority(t, u) \subseteq request[q].permissions
    <3>1. assigned'[t][u] = assigned[t][u] \/ assigned'[t][u] = roles
      BY <1>0, <1>11 DEF ReplaceTenantRoles
    <3> QED BY <1>11, <2>1, <3>1 DEF Authority, PermissionsForRoles
  <2> QED BY <1>11, <2>2
<1>12. ASSUME NEW q \in Requests, CreateUser(q) PROVE Granted
  <2>1. request[q].tenant \in Tenants /\ role' = role
    BY <1>0, <1>12 DEF CreateUser, Holds, Prepared
  <2>2. PICK v \in Users, roles \in SUBSET RoleIds :
          RequireAssignable(q, roles) /\ ReplaceTenantRoles(request[q].tenant, v, roles)
    BY <1>12 DEF CreateUser
  <2>3. Within(q)
    BY <1>11, <2>1, <2>2
  <2> QED BY <1>1, <1>2, <1>12, <2>3 DEF CreateUser, Holds
<1>13. ASSUME NEW q \in Requests, WriteUser(q) PROVE Granted
  <2>1. /\ request[q].pc = "weighed" /\ request[q].tenant \in Tenants /\ request[q].target \in Users
        /\ role' = role /\ Done(q)
    BY <1>0, <1>13 DEF WriteUser, Prepared
  <2>2. RequireAssignable(q, request[q].change.roles)
    BY <2>1 DEF SerialInv, Weighed
  <2>3. CASE request[q].change.set
    <3>1. ReplaceTenantRoles(request[q].tenant, request[q].target, request[q].change.roles)
      BY <1>13, <2>3 DEF WriteUser
    <3>2. Within(q)
      BY <1>11, <2>1, <2>2, <3>1
    <3> QED BY <1>1, <1>2, <2>1, <3>2
  <2>4. CASE ~request[q].change.set
    <3>1. assigned' = assigned
      BY <1>13, <2>4 DEF WriteUser
    <3> QED BY <1>1, <1>2, <1>3, <2>1, <3>1
  <2> QED BY <2>3, <2>4
<1> QED
  BY <1>4, <1>5, <1>6, <1>7, <1>9, <1>10, <1>12, <1>13 DEF Next, Handle

(* Nobody hands out, by a role, by roles or through a role that is held    *)
(* already, what they were not allowed themselves, whatever the roles are  *)
(* and however many accounts and workspaces there are.                     *)
THEOREM CeilingHolds == ASSUME OneAtATime PROVE Spec => GrantsWithinAuthority
<1>1. SerialInv /\ [Next]_vars => SerialInv'
  BY SerialNext
<1>2. SerialInv /\ [Next]_vars => [Granted]_vars
  BY GrantedNext
<1> QED BY <1>1, <1>2, SerialInit, PTL DEF Spec, GrantsWithinAuthority

-----------------------------------------------------------------------------
(* The last administrator *)

LEMMA AdministratorsNext ==
    ASSUME OneWorkspace, SerialInv, TenantKeepsAdministrator, [Next]_vars
    PROVE  TenantKeepsAdministrator'
<1>0. /\ user \in [Users -> Account] /\ membership \in [Tenants -> [Users -> Membership]]
      /\ assigned \in [Tenants -> [Users -> SUBSET RoleIds]]
      /\ request \in [Requests -> Row] /\ Prepared
  BY TypedParts DEF SerialInv
<1> SUFFICES ASSUME NEW t \in Tenants PROVE Administrators(t)' # {}
  BY DEF TenantKeepsAdministrator
<1>1. PICK a \in Users : a \in Administrators(t)
  BY DEF TenantKeepsAdministrator, Administrators
<1>2. TenantAdmin \in assigned[t][a] /\ user[a] = "active" /\ membership[t][a] = "active"
  BY <1>1 DEF Administrators
<1>3. ASSUME UNCHANGED <<user, membership, assigned>> PROVE Administrators(t)' # {}
  BY <1>2, <1>3 DEF Administrators
<1>4. ASSUME NEW q \in Requests, CreateUser(q) PROVE Administrators(t)' # {}
  <2>1. PICK u \in Users, roles \in SUBSET RoleIds :
          /\ user[u] = "none"
          /\ user' = [user EXCEPT ![u] = "active"]
          /\ membership' = [membership EXCEPT ![request[q].tenant][u] = "active"]
          /\ assigned' = [assigned EXCEPT ![request[q].tenant][u] = roles]
    BY <1>4 DEF CreateUser, ReplaceTenantRoles
  <2>2. a # u
    BY <1>2, <2>1
  <2> QED BY <1>0, <1>2, <2>1, <2>2 DEF Administrators
<1>5. ASSUME NEW q \in Requests, WriteUser(q) PROVE Administrators(t)' # {}
  <2> DEFINE r == request[q]
             u == r.target
  <2>1. r.pc = "weighed" /\ r.tenant = t /\ u \in Users /\ r \in Row
    BY <1>0, <1>5 DEF WriteUser, Prepared, OneWorkspace
  <2>2. \/ r.status = "keep" /\ UNCHANGED <<user, membership>>
        \/ /\ r.status \in {"active", "suspended"}
           /\ user' = [user EXCEPT ![u] = r.status]
           /\ membership' = [membership EXCEPT ![t][u] =
                                IF r.status = "active" THEN "active" ELSE "inactive"]
    BY <1>5, <2>1 DEF WriteUser, SetStatus, Row, Statuses
  <2>3. \/ r.change.set /\ assigned' = [assigned EXCEPT ![t][u] = r.change.roles]
        \/ ~r.change.set /\ assigned' = assigned
    BY <1>5, <2>1 DEF WriteUser, ReplaceTenantRoles
  <2>4. /\ r.administers <=> u \in Administrators(t)
        /\ RemovesAdministrator(q) => Others(q) # {}
    BY <2>1 DEF SerialInv, Weighed
  <2>5. ASSUME NEW x \in Administrators(t), x # u PROVE Administrators(t)' # {}
    <3>1. x \in Users /\ TenantAdmin \in assigned[t][x] /\ user[x] = "active"
          /\ membership[t][x] = "active"
      BY DEF Administrators
    <3>2. user'[x] = user[x] /\ membership'[t][x] = membership[t][x]
      <4> HIDE DEF r, u
      <4> QED BY <1>0, <2>2, <2>5, <3>1
    <3>3. assigned'[t][x] = assigned[t][x]
      <4> HIDE DEF u
      <4> QED BY <1>0, <2>3, <2>5, <3>1
    <3> QED BY <3>1, <3>2, <3>3 DEF Administrators
  <2>6. CASE RemovesAdministrator(q)
    <3>1. Others(q) # {} /\ Others(q) = Administrators(t) \ {u}
      BY <2>1, <2>4, <2>6 DEF Others
    <3> QED BY <2>5, <3>1
  <2>7. CASE a = u /\ ~RemovesAdministrator(q)
    <3>1. r.status # "suspended" /\ ~(r.change.set /\ TenantAdmin \notin r.change.roles)
      BY <1>1, <2>4, <2>7 DEF RemovesAdministrator
    <3> HIDE DEF r, u
    <3>2. user'[a] = "active" /\ membership'[t][a] = "active"
      BY <1>0, <1>2, <2>2, <2>7, <3>1
    <3>3. TenantAdmin \in assigned'[t][a]
      BY <1>0, <1>2, <2>3, <2>7, <3>1
    <3> QED BY <3>2, <3>3 DEF Administrators
  <2> QED BY <1>1, <2>5, <2>6, <2>7
<1>6. ASSUME NEW q \in Requests,
             \/ Authenticate(q) \/ CreateRole(q) \/ UpdateRole(q) \/ ReadUser(q) \/ WeighChange(q)
             \/ Refuse(q)
      PROVE  Administrators(t)' # {}
  BY <1>3, <1>6 DEF Authenticate, CreateRole, UpdateRole, ReadUser, WeighChange, Refuse
<1>7. CASE UNCHANGED vars
  BY <1>3, <1>7 DEF vars
<1> QED BY <1>4, <1>5, <1>6, <1>7 DEF Next, Handle

(* A workspace never loses its last administrator, however many members    *)
(* and roles it has; accounts that are shared with another workspace, or   *)
(* requests that overlap, are what the code does not guard against.        *)
THEOREM AdministratorStays ==
    ASSUME OneAtATime, OneWorkspace PROVE Spec => []TenantKeepsAdministrator
<1>1. SerialInv /\ [Next]_vars => SerialInv'
  BY SerialNext
<1>2. SerialInv /\ TenantKeepsAdministrator /\ [Next]_vars => TenantKeepsAdministrator'
  BY AdministratorsNext
<1>3. Init => TenantKeepsAdministrator
  <2> SUFFICES ASSUME Init, NEW t \in Tenants PROVE Administrators(t) # {}
    BY DEF TenantKeepsAdministrator
  <2>1. Founder[t] \in Users
    BY GovernanceAssumption
  <2> QED BY <2>1 DEF Init, Administrators
<1> QED BY <1>1, <1>2, <1>3, SerialInit, PTL DEF Spec
=============================================================================

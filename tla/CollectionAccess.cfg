SPECIFICATION Spec
CONSTANTS
    u1 = u1
    u2 = u2
    i1 = i1
    i2 = i2
    g1 = g1
    a1 = a1
    q1 = q1
    q2 = q2
    None = None
    Items = {i1, i2}
    Users = {u1, u2}
    Groups = {g1}
    Approvals = {a1}
    Requests = {q1, q2}
    TenantWide <- OneAdministrator
SYMMETRY Symmetry
ACTION_CONSTRAINT StaysWithinAScope
INVARIANTS
    TypeOK
    AccessAgrees
    GrantsFollowDecision

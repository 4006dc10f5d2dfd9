SPECIFICATION Spec
CONSTANTS
    u1 = u1
    u2 = u2
    t1 = t1
    t2 = t2
    None = None
    Tenants = {t1}
    Users = {u1, u2}
    Codes = {"auditor", "manager"}
    Founder <- OneFounder
    Requests = {q1}
    q1 = q1
INVARIANTS
    TypeOK
    TenantKeepsAdministrator
PROPERTY GrantsWithinAuthority

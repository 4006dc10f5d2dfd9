SPECIFICATION Spec
CONSTANTS
    u1 = u1
    u2 = u2
    public = public
    home1 = home1
    home2 = home2
    s1 = s1
    s2 = s2
    s3 = s3
    c1 = c1
    c2 = c2
    q1 = q1
    q2 = q2
    None = None
    Users = {u1, u2}
    Tenants = {public, home1, home2}
    Public = public
    Home <- Homes
    Sessions = {s1, s2, s3}
    Conversations = {c1, c2}
    Requests = {q1, q2}
SYMMETRY Symmetry
ACTION_CONSTRAINT StaysWithinAScope
INVARIANTS
    TypeOK
    OneSuccessor
    AdoptedByHeir
    ConversationStaysPrivate

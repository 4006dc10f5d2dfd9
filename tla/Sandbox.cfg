SPECIFICATION Spec
CONSTANTS
    r1 = r1
    r2 = r2
    t1 = t1
    t2 = t2
    d1 = d1
    None = None
    Requests = {r1, r2}
    Threads = {t1, t2}
    Resources = {d1}
    MaxSessions = 2
    MaxEnvironments = 2
    MaxFiles = 2
    MaxDocuments = 1
    MaxRevisions = 2
SYMMETRY Symmetry
ACTION_CONSTRAINT StaysWithinAScope
INVARIANTS
    TypeOK
    OneActiveSession
    SavedStaysSaved
CHECK_DEADLOCK FALSE

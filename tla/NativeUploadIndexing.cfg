CONSTANTS
    Requests = {r1}
    Catalog = {}
    Workers = {w1, w2}
    Files = {f1, f2, f3}
    BadFiles = {f3}
    Malformed = {f3}
    MaxAttempts = 2
    None = none
SPECIFICATION Spec
SYMMETRY Symmetry
INVARIANTS TypeOK ReadyIsIndexed RemovedIsGone
PROPERTY ImplementsSearchableDocument
CHECK_DEADLOCK FALSE

CONSTANTS
    Requests = {c1}
    Catalog = {c1}
    Workers = {w1, w2}
    Files = {f1}
    BadFiles = {}
    Malformed = {}
    MaxAttempts = 2
    None = none
SPECIFICATION FairSpec
PROPERTIES EveryActorFinishes WorkflowEnds
CHECK_DEADLOCK FALSE

SPECIFICATION FairSpec
CONSTANTS
    a = a
    b = b
    c = c
    Signatures = {a, b, c}
    MaxCalls = 2
    MaxModelTurns = 3
    MaxToolRounds = 2
    MaxToolCalls = 2
    MaxRetries = 1
    Budget = 4
INVARIANTS
    TypeOK
    InputIsPaired
    RunsWithinLimits
    NeverOutOfTurns
PROPERTIES
    TurnEnds
CHECK_DEADLOCK FALSE

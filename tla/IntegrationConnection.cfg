CONSTANTS
    Connections = {c1}
    Sources = {s1}
    Accounts = {a1}
    Persons = {p1}
    Requests = {r1}
    Runs = {w1}
    MaxGrants = 2
    None = none
SPECIFICATION Spec
INVARIANTS TypeOK ConnectedWorks DeletedIsForgotten
CHECK_DEADLOCK FALSE

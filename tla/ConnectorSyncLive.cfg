CONSTANTS
    i1 = i1
    i2 = i2
    Items = {i1}
    Connectors <- FixedFeed
    Slots = {s1}
    MaxChanges = 2
    MaxAttempts = 1
    None = none
SPECIFICATION FairSpec
PROPERTY EventuallyMirrored
CHECK_DEADLOCK FALSE

CONSTANTS
    i1 = i1
    i2 = i2
    Items = {i1, i2}
    Connectors <- FeedAndCrawl
    Slots = {s1}
    MaxChanges = 2
    MaxAttempts = 2
    None = none
SPECIFICATION Spec
INVARIANTS TypeOK CheckpointCoversUpdates
PROPERTY ListedIsIndexed
CHECK_DEADLOCK FALSE

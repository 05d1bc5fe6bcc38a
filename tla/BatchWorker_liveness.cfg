SPECIFICATION FairSpec
CONSTANTS
    Query <- Three
    Bad <- Outer
    MaxUnique = 3
    SizeThreshold = 2
    MaxRequests = 3
    MaxRefused = 0
    MaxOutages = 1
    MaxLives = 1
    CommitAckMayBeLost = TRUE
INVARIANT
    BisectionIsolatesBadRows
PROPERTIES
    EventsEventuallySettle
    StopCompletes
CHECK_DEADLOCK FALSE

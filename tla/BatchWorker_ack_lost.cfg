SPECIFICATION Spec
CONSTANTS
    Query <- Two
    Bad <- Nobody
    MaxUnique = 2
    SizeThreshold = 2
    MaxRequests = 2
    MaxRefused = 0
    MaxOutages = 1
    MaxLives = 1
    CommitAckMayBeLost = TRUE
INVARIANT
    CommittedAtMostOnce
CHECK_DEADLOCK FALSE

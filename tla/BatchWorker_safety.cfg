SPECIFICATION Spec
CONSTANTS
    Query <- Three
    Bad <- Middle
    MaxUnique = 2
    SizeThreshold = 2
    MaxRequests = 3
    MaxRefused = 1
    MaxOutages = 1
    MaxLives = 2
    CommitAckMayBeLost = FALSE
INVARIANTS
    TypeOK
    EventsConserved
    BufferBounded
    EachRowHasOneFate
    HealthyDatabaseLosesNothing
    MetricsAccountForEveryEvent
PROPERTY
    KeepsLedger
CHECK_DEADLOCK FALSE

SPECIFICATION Spec
CONSTANTS
    r1 = r1
    r2 = r2
    r3 = r3
    f1 = f1
    f2 = f2
    Nobody = Nobody
    Request <- Requests
    Flusher <- TwoFlushers
    MaxVersion = 3
INVARIANTS
    FlightHasItsLeader
    FollowersAreHeard
    BurstCostsOneQuery
    OldOnlyByRace
SYMMETRY Symmetry

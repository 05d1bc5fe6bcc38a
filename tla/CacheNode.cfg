SPECIFICATION FairSpec
CONSTANTS
    c1 = c1
    c2 = c2
    c3 = c3
    Caller <- Callers
INVARIANTS
    TypeOK
    ProbeHasOwner
    HalfOpenAdmitsOne
PROPERTY
    BreakerFollowsNode

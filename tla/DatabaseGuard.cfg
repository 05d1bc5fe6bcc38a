SPECIFICATION FairSpec
CONSTANTS
    c1 = c1
    c2 = c2
    c3 = c3
    Nobody = Nobody
    Caller <- Callers
    MaxConcurrency = 2
INVARIANTS
    TypeOK
    SlotsConserved
    ProbeHasOwner
PROPERTIES
    EveryCallReturns
    RecoversWithDatabase
    LoadKeepsBreakerClosed

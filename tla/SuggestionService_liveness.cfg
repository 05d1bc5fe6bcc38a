SPECIFICATION FairSpec
CONSTANTS
    r1 = r1
    r2 = r2
    r3 = r3
    f1 = f1
    f2 = f2
    Nobody = Nobody
    Request <- TwoRequests
    Flusher <- OneFlusher
    MaxVersion = 2
PROPERTIES
    EventuallyFresh
    EveryRequestReturns

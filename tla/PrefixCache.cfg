SPECIFICATION Spec
CONSTANTS
    r1 = r1
    r2 = r2
    r3 = r3
    f1 = f1
    f2 = f2
    i1 = i1
    g1 = g1
    Lower <- LowerLetters
    Composed <- Composites
    Blank <- Blanks
    Control <- Controls
    MaxPrefixLength = 2
    MaxQueryLength = 3
    Node <- Nodes
    Key <- CacheKeys
    VirtualNodes = 2
    Hash <- Hashes
    Query <- RowTexts
    Rank <- RankOfRow
    Flusher <- Flushers
    Ingester <- Ingesters
    MaxCount = 1
    Raw <- RawTexts
    Delta <- Deltas
    Reader <- Readers
    NoDocument = NoDocument
INVARIANTS
    TypeOK
    RingDependsOnNodes
    NoReplicaIsLost
    KeysStayPut
    FlushersNeverDeadlock
    CachedIsCurrent
    AnswersMatchPrefix
PROPERTIES
    UpsertsAreAtomic
SYMMETRY Symmetry
CONSTRAINT ServesWithoutCollisions

SPECIFICATION Spec
CONSTANTS
    r1 = r1
    r2 = r2
    r3 = r3
    f1 = f1
    f2 = f2
    i1 = i1
    g1 = g1
    Lower <- LowerLetters
    Composed <- Composites
    Blank <- Blanks
    Control <- Controls
    MaxPrefixLength = 3
    MaxQueryLength = 3
    Node <- Nodes
    Key <- CaronKeys
    VirtualNodes = 1
    Hash <- CaronHash
    Query <- CaronRows
    Rank <- RankOfCaronRow
    Flusher <- OneFlusher
    Ingester <- Ingesters
    MaxCount = 1
    Raw <- CaronTexts
    Delta <- CaronDeltas
    Reader <- Readers
    NoDocument = NoDocument
INVARIANT
    RowsAreReachable

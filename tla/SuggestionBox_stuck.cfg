SPECIFICATION FairSpec
CONSTANTS
    Text <- Texts
    Empty = ""
    Trimmed <- TrimmedTexts
    Offered <- OfferedTexts
    Nothing <- Null
PROPERTY
    FetchForEverything

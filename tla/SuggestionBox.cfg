SPECIFICATION FairSpec
CONSTANTS
    Text <- Texts
    Empty = ""
    Trimmed <- TrimmedTexts
    Offered <- OfferedTexts
    Nothing <- Null
INVARIANTS
    TypeOK
    RowsBelongToText
    OneSearchPerOpening
PROPERTIES
    OnlyCurrentAnswers
    EnterTakesMarkedRow
    FetchesAreAnswered

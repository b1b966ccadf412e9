CONSTANTS
    Plain = {0}
    LobCols = {1}
    JsonCols = {2}
    Desc = {d1, d2, d3, d4}
    NoDesc = NoDesc
    MaxRows = 2
    MaxTick = 2
SPECIFICATION FairSpec
INVARIANTS
    TypeOK
    FetchReady
    RowCoherent
    LobsSurvive
    DescriptorsOwned
    StateMatches
PROPERTIES
    PoisonedForGood
    RowStreamSpec
    CallsReturn

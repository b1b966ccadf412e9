CONSTANTS
    Plain = {0}
    LobCols = {1}
    JsonCols = {2}
    NoDesc = NoDesc
    Desc = {d1, d2, d3}
    MaxRows = 2
    MaxTick = 2
SPECIFICATION Spec
INVARIANTS
    FetchIntoLiveStorage

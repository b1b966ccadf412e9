CONSTANTS
    MaxLen = 4
    ChunkSizes = {0, 1, 3, 5, 9}
    CharsetRatio = 3
    Requests = {0, 1, 3, 5, 6}
    SizeMax = 11
    Word = 16
SPECIFICATION FairSpec
INVARIANTS
    Contiguous
    CompleteRead
    PositionedRead
PROPERTIES
    TransfersEnd

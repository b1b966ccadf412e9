CONSTANTS
    A = A
    B = B
    Schemas <- MCSchemas
    Names = {A, B}
    Desc = {d1, d2, d3}
    MaxRows = 2
    MaxCols = 2
    MaxFetched = 2
SYMMETRY Symmetry
SPECIFICATION Spec
INVARIANTS
    RowsCounted
    FirstErrorTold
    ReleasedOnReturn
    TakenNotNull
    ReadsDocumented

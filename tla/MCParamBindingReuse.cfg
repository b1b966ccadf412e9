CONSTANTS
    Count = 2
    Params = {p1, p2}
    Kinds = {"textNullable"}
    MaxSize = 2
    NoParam = NoParam
    Gone = Gone
SPECIFICATION Spec
INVARIANTS
    CapacityKept

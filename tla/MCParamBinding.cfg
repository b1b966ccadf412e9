CONSTANTS
    Count = 2
    Params = {p1, p2}
    Kinds = {"input", "fixed", "jsonNullable", "text", "textNullable"}
    MaxSize = 2
    NoParam = NoParam
    Gone = Gone
SYMMETRY Symmetry
SPECIFICATION Spec
INVARIANTS
    BoundToThisCall
    OkMeansDelivered
    TextFits

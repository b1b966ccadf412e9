CONSTANTS
    Vars = {v1}
    Params = {p1, p2}
    Kinds = {"jsonIn", "jsonNullIn", "lobIn", "jsonOut", "jsonNullable", "lobOut", "lobNullable"}
    Desc = {d1, d2, d3}
    Temps = {t1, t2}
    NoDesc = NoDesc
    NoTemp = NoTemp
    NoVar = NoVar
    MaxCalls = 2
SYMMETRY Symmetry
SPECIFICATION Spec
INVARIANTS
    DescriptorsHeld
    TemporariesAccounted
    JsonSentOnce
    CleanUnlessFailed
    OkMeansThisCall

CONSTANTS
    Conns = {c1, c2}
    Handles = {h1, h2, h3, h4}
    NoHandle = NoHandle
    OptionSets <- MCOptionSets
SPECIFICATION FairSpec
INVARIANTS
    TypeOK
    HandlesOwned
    ChildrenFirst
    ConfiguredFirst
PROPERTIES
    AttemptsEnd

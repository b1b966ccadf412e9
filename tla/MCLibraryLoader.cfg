CONSTANTS
    Threads = {t1, t2, t3}
    Discover = Discover
    NoFile = NoFile
    Unknown = Unknown
    NoLib = NoLib
    Free = Free
    path1 = path1
    bare1 = bare1
    path2 = path2
    local = local
    missing = missing
    f1 = f1
    f2 = f2
    Paths <- MCPaths
    Files <- MCFiles
    Canon <- MCCanon
    DlFile <- MCDlFile
    BareFile <- MCBareFile
    UserFile <- MCUserFile
SPECIFICATION FairSpec
INVARIANTS
    LoadsOnce
    OkMeansMyFile
    RefusedRightly
PROPERTIES
    OnceSpec
    CallsReturn

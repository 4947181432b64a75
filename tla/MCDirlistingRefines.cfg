\* Refinement: the request path (unsorted HTML and JSON through the
\* cache tee) implements the abstract DirlistService.
CONSTANTS
    Req = {1, 2}
    Entries <- MCEntries
    Kind <- MCKind
    DirNames = {3}
    Volatile = {3}
    HideDotFiles = TRUE
    HideIncludeFiles = FALSE
    Sort = FALSE
    ShowReadme = "raw"
    CacheOn = TRUE
    MaxAge = 1
    MaxConns = 16
    BATCH = 3
    FlushLen = 2
    LowWater = 1
    InMemRows = 1
    BufMin = TRUE
    MaxTime = 1
    CacheFails = TRUE
    OpenFails = TRUE
    ReaddirFails = FALSE
    SpillFails = FALSE
    MaxCrashes = 0
    ClockSkew = 0
    NoFile = NoFile
SPECIFICATION Spec
PROPERTY ImplementsService

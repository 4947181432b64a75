\* A negative max-age: the cache is written but never fresh, and responses
\* carry Cache-Control: max-age=-1.
CONSTANTS
    Req = {1, 2}
    Entries <- MCEntries
    Kind <- MCKind
    DirNames = {3}
    Volatile = {3}
    HideDotFiles = TRUE
    HideIncludeFiles = FALSE
    Sort = FALSE
    ShowReadme = "raw"
    CacheOn = TRUE
    MaxAge <- MCNegativeMaxAge
    MaxConns = 16
    BATCH = 3
    FlushLen = 2
    LowWater = 1
    InMemRows = 1
    BufMin = TRUE
    MaxTime = 1
    CacheFails = FALSE
    OpenFails = TRUE
    ReaddirFails = FALSE
    SpillFails = FALSE
    MaxCrashes = 0
    ClockSkew = 0
    NoFile = NoFile
SPECIFICATION Spec
INVARIANT CacheControlNotNegative

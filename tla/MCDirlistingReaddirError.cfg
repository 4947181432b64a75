\* readdir() may return NULL on an error: is the listing still complete?
CONSTANTS
    Req = {1, 2}
    Entries <- MCEntries
    Kind <- MCKind
    DirNames = {3}
    Volatile = {3}
    HideDotFiles = TRUE
    HideIncludeFiles = FALSE
    Sort = FALSE
    ShowReadme = "raw"
    CacheOn = TRUE
    MaxAge = 1
    MaxConns = 16
    BATCH = 3
    FlushLen = 2
    LowWater = 1
    InMemRows = 1
    BufMin = TRUE
    MaxTime = 1
    CacheFails = TRUE
    OpenFails = TRUE
    ReaddirFails = TRUE
    SpillFails = FALSE
    MaxCrashes = 0
    ClockSkew = 0
    NoFile = NoFile
SPECIFICATION Spec
INVARIANT ServedListingComplete

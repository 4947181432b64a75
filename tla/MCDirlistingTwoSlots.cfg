\* Two listing slots (max-connections 32) and a clock that runs past
\* max-age: two scans of the same directory run at once and race to rename
\* their temp files, and stale cache files are rescanned.
CONSTANTS
    Req = {1, 2}
    Entries <- MCEntries
    Kind <- MCKind
    DirNames = {3}
    Volatile = {3}
    HideDotFiles = TRUE
    HideIncludeFiles = FALSE
    Sort = FALSE
    ShowReadme = "raw"
    CacheOn = TRUE
    MaxAge = 1
    MaxConns = 32
    BATCH = 3
    FlushLen = 2
    LowWater = 1
    InMemRows = 1
    BufMin = TRUE
    MaxTime = 2
    CacheFails = TRUE
    OpenFails = TRUE
    ReaddirFails = FALSE
    SpillFails = FALSE
    MaxCrashes = 1
    ClockSkew = 1
    NoFile = NoFile
SPECIFICATION Spec
INVARIANT ServedListingComplete
INVARIANT CacheHoldsCompleteListing
INVARIANT AdmissionAccounting
INVARIANT ResourcesOwned
 

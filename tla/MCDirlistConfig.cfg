\* Start-up and per-request resolution of the configuration: a global
\* context and two conditionals, each giving or not giving dir-listing.cache
\* and dir-listing.show-readme.  A failed set_defaults stops the server, so
\* the "error" state has no successor.
CONSTANTS
    NULL = NULL
    NBlocks = 3
    MaxAgeIn <- MCMaxAgeIn
    PathIn = {"none", "dir", "enoent", "notdir"}
    ReadmeIn = {"", "enable", "disable"}
SPECIFICATION Spec
CHECK_DEADLOCK FALSE
INVARIANT TypeOK
INVARIANT ScopeResolution
INVARIANT CacheUsable
INVARIANT FreeReleasesOwned

\* show-readme "disable": set_defaults clears the string instead of
\* setting it to NULL, so the footer still attempts an include.
CONSTANTS
    NULL = NULL
    NBlocks = 3
    MaxAgeIn <- MCMaxAgeIn
    PathIn = {"none", "dir", "enoent", "notdir"}
    ReadmeIn = {"", "enable", "disable"}
SPECIFICATION Spec
CHECK_DEADLOCK FALSE
INVARIANT ReadmeDisableHonoured

CONSTANTS
    Names = {1, 2, 3}
    MaxEntries = 12
SPECIFICATION Spec
INVARIANT SortsEveryStore

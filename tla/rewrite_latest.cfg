CONSTANTS
    WorldSize = 2
    NumKeys = 2
    SaveIter = 2
    MaxIter = 5
    SaveZero = FALSE
    Async = FALSE
    LoaderState = TRUE
    ObjectStore = FALSE
    MaxJobs = 3
SPECIFICATION Spec
INVARIANTS
    LatestLoadable

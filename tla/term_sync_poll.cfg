CONSTANTS
    WorldSize = 2
    NumKeys = 1
    SaveIter = 3
    MaxIter = 6
    SaveZero = FALSE
    Async = FALSE
    LoaderState = FALSE
    ObjectStore = TRUE
    MaxJobs = 2
    MinProgress = 2
SPECIFICATION TermFairSpec
PROPERTIES
    EmergencySaveCompletes
CHECK_DEADLOCK FALSE

CONSTANTS
    WorldSize = 2
    NumKeys = 1
    SaveIter = 3
    MaxIter = 6
    SaveZero = FALSE
    Async = TRUE
    LoaderState = FALSE
    ObjectStore = TRUE
    MaxJobs = 2
    MinProgress = 2
SPECIFICATION TermSpec
PROPERTIES
    NoRedundantSave

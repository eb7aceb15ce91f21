CONSTANTS
    WorldSize = 2
    NumKeys = 2
    SaveIter = 2
    MaxIter = 4
    SaveZero = FALSE
    Async = FALSE
    LoaderState = TRUE
    ObjectStore = FALSE
    MaxJobs = 2
SPECIFICATION Spec
INVARIANTS
    SuccessIsFinished

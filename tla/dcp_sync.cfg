CONSTANTS
    WorldSize = 3
    NumKeys = 2
    SaveIter = 2
    MaxIter = 4
    SaveZero = FALSE
    Async = FALSE
    LoaderState = TRUE
    ObjectStore = FALSE
    MaxJobs = 3
SPECIFICATION Spec
INVARIANTS
    ResumeConsistent
    LossBounded

CONSTANTS
    WorldSize = 2
    NumKeys = 2
    SaveIter = 2
    MaxIter = 5
    SaveZero = TRUE
    Async = TRUE
    LoaderState = TRUE
    ObjectStore = TRUE
    MaxJobs = 2
SPECIFICATION FairSpec
INVARIANTS
    TypeOK
    PInv
    PublishedIntact
    LoaderStatePublished
    ResumeConsistent
    StagingStable
    AckedDurable
    CompletedDurable
PROPERTIES
    ImplementsStore
    Completion

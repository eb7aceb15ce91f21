CONSTANTS
    WorldSize = 2
    NumKeys = 1
    SaveIter = 1
    MaxIter = 4
    SaveZero = TRUE
    Async = TRUE
    LoaderState = FALSE
    ObjectStore = TRUE
    MaxJobs = 2
    ExportEvery = 2
    NumFiles = 2
    LocalModel = TRUE
SPECIFICATION ExportSpec
INVARIANTS
    ExportsDelivered
    ErrorsSurface
PROPERTIES
    ExportCompletion

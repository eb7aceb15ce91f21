CONSTANTS
    CacheSize = 2
    ConcatSize = 2
    MaxCopies = 3
    MaxFetch = 2
    Size = 4
    Retries = 3
    OpenAttempts = 2
SPECIFICATION ReadersSpec
INVARIANTS
    Lossless
    NoLostWakeup
    ClosedStaysEmpty
    NeverShort
    CloseReports
    InSync
PROPERTIES
    Served
    ShutsDown
    ImplementsReader
    Answered

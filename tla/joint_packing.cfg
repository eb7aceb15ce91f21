CONSTANTS
    Ratios <- MCRatios
    RoundRobin = TRUE
    MaxLength = 5
    LookaheadLimits <- MCLookaheadLimits
    Tokens = {1, 4, 5}
    CollateSize = 2
    MaxSize = 2
    MaxTokens = 16
    HalfFrom = 6
    PoolSize = 4
    MaxBatchSize = 3
    LongThreshold = 7
    PreferClosest = TRUE
    PoolLengths = {2, 4, 7}
    Modalities = {image, text}
    MaxArrivals = 6
    WorldSizes = {1, 2, 3, 4, 5, 7, 8}
    RatioValues = {1, 3, 20}
    MaxDatasets = 4
    NumReplicas = 2
    ReplicaSize = 2
    Warmup = 1
    Limit = 2
    Costs = {1, 3}
    MaxSamples = 4
SPECIFICATION LoaderSpec
INVARIANTS
    LoaderTypeOK
    OldestFirst
    SkipsBounded
    NothingLost
    NoneStarves
    EmittedOnce
    PaddedWithinBudget
    ShardsCovered
    SharesFair
    CollectivesMeet
    AnsweredOnce
    RoundsAgree

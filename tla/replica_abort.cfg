CONSTANTS
    NumReplicas = 2
    ReplicaSize = 2
    Warmup = 0
    Limit = 2
    Costs = {1, 2}
    MaxSamples = 3
SPECIFICATION ReplicaSpec
PROPERTY AbortTogether

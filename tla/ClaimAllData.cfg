\* make-ec after a build-data of one dataset only.
SPECIFICATION Spec
CONSTANTS
    a = a
    b = b
    None = None
    K = 2
    M = 2
    Layout = "raid3"
    Capacity = 3
    Datasets = {a, b}
    Count <- TwoAndOne
    Size <- MixedSizes
    Config <- OneConfig
    MaxSize = 2
    InitGroups = 1
    MaxPartitions = 8
    BuildScopes <- AnyBuilds
    Filters <- AnyFilter
    Parallel = 2
INVARIANTS
    CompletedHasAllData

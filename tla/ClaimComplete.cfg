\* With one EC file: both files of the stripe that recover rebuilds from stale EC files and make-ec encodes again.
SPECIFICATION RecoverSpec
CONSTANTS
    a = a
    b = b
    None = None
    K = 2
    M = 1
    Layout = "raid3"
    Capacity = 3
    Datasets = {a, b}
    Count <- OneEach
    Size <- SmallThenLarge
    Config <- OneConfig
    MaxSize = 2
    InitGroups = 1
    MaxPartitions = 3
    BuildScopes <- WholeBuilds
    Filters <- FullOnly
    Parallel = 1
INVARIANTS
    CompletedHoldsShards

\* After a refill, both DATA files of the stripe are lost before make-ec has run.
SPECIFICATION RecoverSpec
CONSTANTS
    a = a
    b = b
    None = None
    K = 2
    M = 2
    Layout = "raid3"
    Capacity = 3
    Datasets = {a, b}
    Count <- OneEach
    Size <- SmallThenLarge
    Config <- OneConfig
    MaxSize = 2
    InitGroups = 1
    MaxPartitions = 4
    BuildScopes <- WholeBuilds
    Filters <- FullOnly
    Parallel = 1
INVARIANTS
    RebuiltShardsMatch

\* k = 2, m = 2, dedicated parity partitions, two parallel workers.
SPECIFICATION Spec
CONSTANTS
    a = a
    b = b
    None = None
    K = 2
    M = 2
    Layout = "raid3"
    Capacity = 3
    Datasets = {a, b}
    Count <- TwoAndOne
    Size <- MixedSizes
    Config <- OneConfig
    MaxSize = 2
    InitGroups = 1
    MaxPartitions = 4
    BuildScopes <- LateBuilds
    Filters <- AnyFilter
    Parallel = 2
INVARIANTS
    TypeOK
    UniqueRows
    EveryShardStored
    ParityRowsCurrent
    CompletedProtected
    ShownStripesProtected
    StripesFilledInOrder
PROPERTIES
    DataRowsStable
    CompletedContentStable
    ImplementsArcsetSpec

\* Rotating parity, whole builds, stripes one after the other; a second stripe is
\* rotated, and the last shard spills into an added group where the parity has filled
\* the first.
SPECIFICATION Spec
CONSTANTS
    a = a
    b = b
    None = None
    K = 2
    M = 2
    Layout = "raid5"
    Capacity = 3
    Datasets = {a, b}
    Count <- TwoAndOne
    Size <- SkewedSizes
    Config <- OneConfig
    MaxSize = 2
    InitGroups = 1
    MaxPartitions = 8
    BuildScopes <- WholeBuilds
    Filters <- FullOnly
    Parallel = 1
INVARIANTS
    UniqueRows
    ParityRowsCurrent
    CompletedProtected
    PlanComplete

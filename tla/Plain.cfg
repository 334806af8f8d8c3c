\* No parity (m = 0): build-data, then make-ec only validates.
SPECIFICATION Spec
CONSTANTS
    a = a
    b = b
    None = None
    K = 2
    M = 0
    Layout = "raid3"
    Capacity = 3
    Datasets = {a, b}
    Count <- TwoAndOne
    Size <- TwoUnits
    Config <- OneConfig
    MaxSize = 2
    InitGroups = 1
    MaxPartitions = 4
    BuildScopes <- AnyBuilds
    Filters <- AnyFilter
    Parallel = 2
INVARIANTS
    EveryShardStored
    DataWithinCapacity
PROPERTIES
    CompletedContentStable

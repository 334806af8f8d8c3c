\* Two faults anywhere in the passes of two datasets over a raid5 arcset; three
\* stripes and a semaphore of two.
SPECIFICATION PipelineSpec
CONSTANTS
    a = a
    b = b
    None = None
    K = 2
    M = 2
    Layout = "raid5"
    Capacity = 3
    Datasets = {a, b}
    Count <- ThreeAndTwo
    Size <- MixedSizes
    Config <- OneConfig
    MaxSize = 3
    InitGroups = 2
    MaxPartitions = 8
    BuildScopes <- WholeBuilds
    Filters <- FullOnly
    Parallel = 2
    MaxFaults = 2
INVARIANTS
    NoStrayFiles
    RetryFindsShard
PROPERTIES
    CommandTerminates
    PipelineCompletes
CHECK_DEADLOCK FALSE

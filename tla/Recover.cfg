\* One stripe, k = 2, m = 2, losses of up to two files at a time.
SPECIFICATION RecoverSpec
CONSTANTS
    a = a
    b = b
    None = None
    K = 2
    M = 2
    Layout = "raid3"
    Capacity = 3
    Datasets = {a, b}
    Count <- OneEach
    Size <- SmallThenLarge
    Config <- OneConfig
    MaxSize = 2
    InitGroups = 1
    MaxPartitions = 4
    BuildScopes <- WholeBuilds
    Filters <- FullOnly
    Parallel = 1
CONSTRAINT NotSpoiled
INVARIANTS
    CompletedSurvivesLosses
    RecoveredProtected

\* Commands of two clients on two arcsets, with a router and without, and mounts.
SPECIFICATION Spec
CONSTANTS
    c1 = c1
    c2 = c2
    a1 = a1
    a2 = a2
    d1 = d1
    d2 = d2
    None = None
    Clients = {c1, c2}
    Arcsets = {a1, a2}
    Datasets = {d1, d2}
    Keys <- TwoKeys
    Values <- TwoValues
    Cases <- SomeCases
    Presets <- SomePresets
    Focus = {a1}
    Points = {mnt}
    Total = 4
    MaxPartitions = 9
    MaxStack = 2
    ApiDeletes = TRUE
SYMMETRY Symmetry
CONSTRAINTS
    MountsApart
    ExpandsApart
    CasesRouted
INVARIANTS
    RelationsExact
    ConfigAgrees
    PartitionsNamed
    ManifestAttributed
    RecordsOwned
    MountHoldsPlaced
PROPERTIES
    GroupsKept
CHECK_DEADLOCK FALSE

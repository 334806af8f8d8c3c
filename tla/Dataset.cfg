\* Two processes create, build, make and mark a dataset of two files.
SPECIFICATION Spec
CONSTANTS
    p = p
    q = q
    None = None
    Procs = {p, q}
    Inputs <- SomeInputs
SYMMETRY Symmetry
CONSTRAINTS
    BinLoses
    OneFileEarly
INVARIANTS
    SeqsContiguous
    DefsExact
    BuiltRestores
    BuildOrderExact
PROPERTIES
    SeqStable
CHECK_DEADLOCK FALSE

\* One file of three bytes in shards of two: it does not come back.
SPECIFICATION Spec
CONSTANTS
    p = p
    q = q
    None = None
    Procs = {p}
    Inputs <- SplitInput
INVARIANTS
    SplitFilesRestored
CHECK_DEADLOCK FALSE

CONSTANTS
    Items = {a, b, c}
    Flushes = {f, g}
    None = None
    MaxItems = 2
    DiskMayFail = TRUE
    MaxCalls = 4
    MaxCrashes = 2
SYMMETRY Symmetry
SPECIFICATION Spec
INVARIANTS TypeOK Conservation NoDuplicateIds CapHolds
PROPERTY FIFO
CHECK_DEADLOCK FALSE

CONSTANTS
    Items = {a, b, c}
    Flushes = {f}
    None = None
    MaxItems = 2
    DiskMayFail = TRUE
    MaxCalls = 4
    MaxCrashes = 2
SPECIFICATION FairSpec
PROPERTY EverythingLeaves
CHECK_DEADLOCK FALSE

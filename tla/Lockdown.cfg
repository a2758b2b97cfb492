CONSTANTS
    Adapters = {lan, dock}
    Up = {lan}
    Rules = {udp53, dot}
    MaxEvents = 2
SPECIFICATION FairSpec
INVARIANTS OriginalsAreSaved RestoreReturnsOriginals
PROPERTIES LockedInTheEnd WatchComesToRest
CHECK_DEADLOCK FALSE

\* One vector, whose monitor may be of each kind.
CONSTANTS
    Vectors = {v}
    Starters = {"timer", "manual"}
    DiskMayFail = TRUE
    Period = 4
    MaxDelay = 3
    MaxFaults = 2
SPECIFICATION MonitorsSpec
INVARIANTS NoticedInTime OneAlarmPerSession

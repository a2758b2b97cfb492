CONSTANTS
    Vectors = {dns, hosts}
    Starters = {timer, manual}
    DiskMayFail = TRUE
SPECIFICATION Spec
INVARIANTS AlarmOnce AlarmsOutliveCrashes

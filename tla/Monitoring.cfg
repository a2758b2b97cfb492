CONSTANTS
    InitialBackoff = 1
    MaxBackoff = 3
    StableReset = 6
    DownAfter = 2
    Backstop = 9
    Fast = 3
    Cooldown = 6
    CheckTime = 3
    ScanAge = 1
    LockTime = 2
SPECIFICATION Spec
INVARIANTS BlindSpotIsBounded TamperingIsAnswered DeadSensorMeansFastPolling

CONSTANTS
    Reapplies = {r1, r2}
    MaxRestarts = 1
SPECIFICATION FairSpec
INVARIANTS TypeOK SecondAttemptIsANewSession WarningOutlastsRestart OneWarning FailedStaysRestored
PROPERTIES DeadlineIsEnforced KeepsPromise

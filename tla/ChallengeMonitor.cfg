CONSTANTS
    Challenges = {a, b}
    None = None
    DiskMayFail = TRUE
SPECIFICATION FairSpec
INVARIANTS IdleWithoutChallenge ClosedAtTheServer
PROPERTIES ClosureIsNoticed MonitoringResumes

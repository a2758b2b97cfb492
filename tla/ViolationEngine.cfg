CONSTANTS
    Vectors = {dns, vpn}
    Vpn = vpn
    None = None
    Requests = {r, s}
    MaxPosts = 3
    MaxCrashes = 1
    Others = 1
SPECIFICATION FairSpec
INVARIANTS AtMostOneRefund TerminationIsEarned BooksAgree
PROPERTIES WarningsStand EveryChallengeCloses
CHECK_DEADLOCK FALSE

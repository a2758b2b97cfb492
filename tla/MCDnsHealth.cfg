CONSTANTS
    Safe = {safe}
    Adult = {adult}
    Miss = {miss}
    Replies <- SomeReplies
    Layers = {"none", "https"}
SPECIFICATION HealthFairSpec
INVARIANTS ReportIsTrue DiagnosisFindsOpenDomains
PROPERTY NewsArrives

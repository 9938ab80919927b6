CONSTANTS
    RecentRuns = 2
    Limit = 5
    Trigger = 4
    SummaryLimit = 4
    Sizes = {1, 2, 5}
    MaxRuns = 6
    MaxFaults = 1
SPECIFICATION ContextSpec
INVARIANTS
    ContextTypeOK
    CoveredWasReadOrInside
    RequestIsHonest

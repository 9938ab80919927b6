CONSTANTS
    m1 = m1
    m2 = m2
    m3 = m3
    m4 = m4
    Msgs = {m1, m2, m3, m4}
    Action <- Kind
    Kids = {}
    None = None
    Watched = {}
    MaxMessages = 2
    MaxAttempts = 2
    MaxRetries = 0
    MaxCrashes = 1
    MaxRevision = 1
    LiveRebind = FALSE
SPECIFICATION FairChannelSpec
INVARIANTS
    ChannelTypeOK
    EndIsAnnounced
    NotExecutedNeverRuns
PROPERTY EveryMessageSettles

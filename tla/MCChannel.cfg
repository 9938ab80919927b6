CONSTANTS
    m1 = m1
    m2 = m2
    m3 = m3
    m4 = m4
    Msgs = {m1}
    Action <- Kind
    Kids = {k1}
    None = None
    Watched = {"running"}
    MaxMessages = 2
    MaxAttempts = 2
    MaxRetries = 1
    MaxCrashes = 1
    MaxRevision = 2
    LiveRebind = TRUE
SPECIFICATION ChannelSpec
INVARIANTS
    NoBlindResend
    SentUnderBinding
PROPERTY StartedUnderBinding

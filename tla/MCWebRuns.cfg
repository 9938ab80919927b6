CONSTANTS
    s1 = s1
    s2 = s2
    q1 = q1
    q2 = q2
    b1 = b1
    b2 = b2
    c1 = c1
    c2 = c2
    Sessions = {s1, s2}
    Requests = {q1, q2}
    Bodies = {b1, b2}
    Clients = {c1, c2}
    None = None
    MaxRuns = 2
    MaxFaults = 1
SPECIFICATION WebRunsSpec
INVARIANTS
    WebRunsTypeOK
    OneRunAtATime
    OpenIsOwned
PROPERTIES
    KeepsSubmissionContract
SYMMETRY Symmetry

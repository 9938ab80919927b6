CONSTANTS
    Runs = {r1, r2}
    Calls = {c1}
    Approvals = {a1, a2}
    Payloads <- Contents
    None = None
    MaxRequests = 1
    MaxFaults = 1
SPECIFICATION WriteSpec
SYMMETRY RunSymmetry
PROPERTY UnknownBlocksTarget

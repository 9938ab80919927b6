CONSTANTS
    v1 = v1
    c1 = c1
    c2 = c2
    Agent = agent
    Server = server
    Skill = skill
    Versions = {v1}
    Clients = {c1, c2}
    None = None
    MaxChanges = 3
SPECIFICATION CapabilitiesSpec
INVARIANTS
    CapabilitiesTypeOK
    CurrentIsWhole
PROPERTY NothingLetThrough
SYMMETRY Symmetry

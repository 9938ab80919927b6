CONSTANTS
    i1 = i1
    i2 = i2
    s1 = s1
    s2 = s2
    Imports = {i1, i2}
    Slots = {s1, s2}
    Files <- TwoAndOne
    MaxStarts = 1
    MaxDamage = 1
SPECIFICATION FairImportSpec
INVARIANT ImportTypeOK
PROPERTIES
    KeepsImportContract
    QuietUnderBackup
    ComesToRest

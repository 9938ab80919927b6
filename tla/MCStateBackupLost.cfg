CONSTANTS
    i1 = i1
    i2 = i2
    Imports = {i1, i2}
    Free = Free
    Foreign = Foreign
    MaxDamage = 1
    MaxFaults = 0
SPECIFICATION BackupSpec
INVARIANT CompleteBundleRestores

CONSTANTS
    Stores = {s1}
    Keys = {k1}
    Ttls = {0, 1}
    MaxWrites = 3
    MaxSnapshots = 1
    MaxRestarts = 0
    MaxDeletions = 1
    MaxTime = 2
CHECK_DEADLOCK FALSE
SPECIFICATION Spec
PROPERTY StaleNeverClobbers

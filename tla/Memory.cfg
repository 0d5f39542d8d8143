CONSTANTS
    Stores = {s1, s2}
    Keys = {k1, k2}
    Ttls = {0, 1}
    MaxWrites = 3
    MaxSnapshots = 2
    MaxRestarts = 1
    MaxDeletions = 1
    MaxTime = 2
CHECK_DEADLOCK FALSE
SPECIFICATION Spec
INVARIANTS TypeOK VersionsAreCovered ExchangeAgrees
PROPERTIES RowsAdvance

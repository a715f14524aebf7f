SPECIFICATION Spec
CONSTANTS
    t1 = t1
    t2 = t2
    Ids <- MCIds
    MaxStores = 3
    MaxSyncs = 2
    MaxFaults = 2
INVARIANTS
    CacheValid
    SyncRepairs
PROPERTIES
    NeverBack
CHECK_DEADLOCK FALSE

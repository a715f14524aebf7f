SPECIFICATION Spec
CONSTANTS
    r1 = r1
    r2 = r2
    t1 = t1
    w1 = w1
    w2 = w2
    api = api
    NoRepo = NoRepo
    Repos = {r1, r2}
    Ids = {t1}
    Holds <- Same
    Workers = {w1, w2}
    MaxEdits = 1
    MaxJobs = 2
    MaxUploads = 1
    MaxFaults = 1
SYMMETRY Interchangeable
CHECK_DEADLOCK FALSE
INVARIANTS
    StoreConsistent
    SyncingIsSynced

    

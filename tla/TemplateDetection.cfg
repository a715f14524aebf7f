CONSTANTS
    good = good
    bad = bad
    app = app
    lib = lib
    key = key
    Texts <- TwoTexts
    Values = {good, bad}
    FilePlaces = {app, lib}
    KeyPlaces = {key}
    Absent = Absent
    Denied = Denied
    Batches <- Calls
    MaxConcurrency = 2
    MaxChanges = 1

SPECIFICATION FairSpec
CHECK_DEADLOCK FALSE

INVARIANTS
    VulnerableIsWitnessed
    UndisturbedIsExact
    ReturnsComplete

    

SPECIFICATION MergeSpec
CONSTANTS
    a1 = a1
    a2 = a2
    ip1 = ip1
    ip2 = ip2
    ip3 = ip3
    db = db
    vuln = vuln
    NoIP = NoIP
    NoName = NoName
    Agents = {a1, a2}
    IPs = {ip1, ip2, ip3}
    Targets <- TargetsDef
    Lookup <- LookupDef
    Discovered <- DiscoveredDef
    Dispatched = {a1, a2}
    Reports <- ReportsDef
    MaxMerges = 2
    MaxScans = 2
SYMMETRY Interchangeable
CHECK_DEADLOCK FALSE
INVARIANTS
    NothingTwice
    CompleteIsFinished
    NothingLostWithoutOverlap
    AnonymousApart

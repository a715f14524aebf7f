SPECIFICATION Spec
CONSTANTS
    t1 = t1
    s1 = s1
    x = x
    y = y
    Templates <- MCTemplates
    Scripts <- MCScripts
    Unsized <- MCUnsized
    Sums <- MCSums
    Absent = Absent
    Partial = Partial
    MaxReleases = 3
INVARIANTS
    
    VersionTellsFiles
PROPERTIES
    StaysInstalled

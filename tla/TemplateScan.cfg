SPECIFICATION FairSpec
CHECK_DEADLOCK FALSE
CONSTANTS
    NoResult = NoResult
    Platform = "linux"
    Library <- LibraryDef
    Machine <- MachineDef
    Panicking = {"file_search"}
    Templates <- TemplatesDef
    Produced <- ProducedDef
    Asked = 2
    NumCPU = 4
    Fragile = {1, 3}
INVARIANTS
    EachAnsweredOnce
    ResultsChannelSafe
    VerdictJustified

    

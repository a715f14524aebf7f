CONSTANTS
    Paths = {"check.sh", "check.ps1"}
    Scripts <- Texts
    NoScript = NoScript
    Directories <- Shipped
    MaxWritten = 1
    MaxCalls = 2
    Language <- LanguageOf
    Names = {"check"}
    Installed <- Interpreters
    Platforms = {"linux", "windows"}
    PipeRoom = 1
    MaxRuns = 1

SPECIFICATION FairScriptSpec
CHECK_DEADLOCK FALSE

INVARIANTS
    
    VerdictOfWholeOutput
    

    

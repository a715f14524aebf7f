SPECIFICATION Spec
CONSTANTS
    c1 = c1
    c2 = c2
    Callers <- MCCallers
    Texts <- MCTexts
    Scripting = TRUE
    MaxAgents = 2
    MaxCommands = 1
INVARIANTS
    NoStrayAgent
    CommandsServed
    NoEndLost

    
CHECK_DEADLOCK FALSE

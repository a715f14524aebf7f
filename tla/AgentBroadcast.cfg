SPECIFICATION LockSpec
CONSTANTS
    a1 = a1
    a2 = a2
    h1 = h1
    h2 = h2
    jobs = jobs
    events = events
    NoProc = NoProc
    AgentIds = {a1, a2}
    Handlers = {h1, h2}
    AgentOf <- OneEach
    Notifiers = {jobs, events}
CHECK_DEADLOCK FALSE
INVARIANTS
    LoopSeesWholeRegistry
    BlockedOnlyByNesting

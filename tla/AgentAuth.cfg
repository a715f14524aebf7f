SPECIFICATION Spec
CONSTANTS
    m1 = m1
    m2 = m2
    c1 = c1
    c2 = c2
    c3 = c3
    NoConn = NoConn
    Machines = {m1, m2}
    Conns = {c1, c2, c3}
    DialerOf <- Dialers
    MaxSaveFailures = 1
    MaxCommands = 1
INVARIANTS
    TokensStayWithOwner
    IssuedTokenIsHeld
PROPERTIES
    SettledTokenIsFinal

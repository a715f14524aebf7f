SPECIFICATION FairSpec
CONSTANTS
    a1 = a1
    c1 = c1
    c2 = c2
    status = status
    scan = scan
    NoConn = NoConn
    Agents = {a1}
    Conns = {c1, c2}
    Owner <- TwoStreams
    Cmds = {status}
    StatusCmd = status
    MaxRequests = 1
    Beating = {a1}
PROPERTIES
    DeadStreamForgotten
    ListConverges

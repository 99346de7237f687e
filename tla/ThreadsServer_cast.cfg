SPECIFICATION Spec
CONSTANTS
    NoConn = NoConn
    Conns = {c1, c2}
    Cells = {p1, p2}
    LISTENQ = 2
INVARIANT ServesItsClient
CHECK_DEADLOCK FALSE

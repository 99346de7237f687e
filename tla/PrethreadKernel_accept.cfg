SPECIFICATION FairSpec
CONSTANTS
    NoConn = NoConn
    Conns = {c1, c2, c3}
    BadConns = {c1, c2, c3}
    NThreads = 2
    LISTENQ = 2
INVARIANTS
    OneOwner
    OneAcceptor
    CountsMatch
PROPERTIES
    EveryClientServed
CHECK_DEADLOCK FALSE

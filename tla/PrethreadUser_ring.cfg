SPECIFICATION FairSpec
CONSTANTS
    NoConn = NoConn
    Conns = {c1, c2}
    BadConns = {c1}
    NThreads = 2
    LISTENQ = 2
    MAXNCLI = 2
INVARIANTS
    TypeOK
    OneOwner
    NoLostWakeup
    CountsMatch
PROPERTIES
    DispatchSpec
    EveryClientServed
CHECK_DEADLOCK FALSE

SPECIFICATION FairSpec
CONSTANTS
    NoConn = NoConn
    Conns = {c1, c2, c3}
    Backlog = 2
INVARIANTS
    TypeOK
    SocketsOwned
PROPERTIES
    EveryClientLeaves
CHECK_DEADLOCK FALSE

SPECIFICATION FairSpec
CONSTANTS
    NoConn = NoConn
    Listen = Listen
    Conns = {c1, c2, c3}
    ResetConns = {c1}
    LISTENQ = 2
INVARIANTS
    OwnDescriptors
    NoForgottenZombie
PROPERTIES
    FinReachesClient
CHECK_DEADLOCK FALSE

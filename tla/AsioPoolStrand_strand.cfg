SPECIFICATION FairSpec
CONSTANTS
    Threads = {t1, t2}
    Clients = {x1}
    Handlers = {h1, h2}
    Plain = {o1}
    Task = Task
    NoOp = NoOp
INVARIANTS
    TypeOK
    WorkCounted
    RunsUntilDone
    NoLostWakeup
PROPERTIES
    StrandSpec
    SerialSpec
    EveryHandlerRuns
    RunReturns
CHECK_DEADLOCK FALSE

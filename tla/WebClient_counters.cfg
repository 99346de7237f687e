SPECIFICATION Spec
CONSTANTS
    nfiles = 4
    maxnconn = 3
INVARIANTS
    NoLostWakeup
    EachFileOnce
CHECK_DEADLOCK FALSE

SPECIFICATION Spec
CONSTANTS
    nfiles = 2
    maxnconn = 2
INVARIANT JoinWaitsForNotified
CHECK_DEADLOCK FALSE

SPECIFICATION FairSpec
CONSTANTS
    Chars = {a, n}
    NL = n
    Inputs <- MCInputs
    MaxInput = 7
    MAXLINE = 3
    BUFSIZE = 2
    CAP = 2
INVARIANTS
    TypeOK
    StreamConserved
    ExitLosesNothing
PROPERTIES
    SessionEnds
CHECK_DEADLOCK FALSE

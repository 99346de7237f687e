SPECIFICATION FairSpec
CONSTANTS
    Threads = {t1, t2, t3}
    Nobody = Nobody
INVARIANTS
    Exclusion
    QuietLockIsFree
    NoForgottenWaiter
PROPERTIES
    WritersFirst
    FreeLockIsTaken
CHECK_DEADLOCK FALSE

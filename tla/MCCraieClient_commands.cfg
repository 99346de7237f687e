SPECIFICATION FairSpec
CONSTANTS
    Contents <- MCContents
    MaxWrites = 3
    NoFile = NoFile
    Partial = Partial
    FRAMES = 2
INVARIANTS
    TypeOK
    LibraryInStep
PROPERTIES
    FileTakenUp
CHECK_DEADLOCK FALSE

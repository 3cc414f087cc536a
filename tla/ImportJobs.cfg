SPECIFICATION FairSpec
CONSTANTS
    Imports <- ThreeJobs
    Files <- Faulty
    Ids <- People1to3
    Chunk = 2
    MaxErrors = 2
    Faults = {"cut", "db_error"}
CHECK_DEADLOCK FALSE
INVARIANTS
    TypeOK
    EachRowCountedOnce
    OwnRowsPresent
    LinksAccounted
PROPERTY
    ImportsEnd

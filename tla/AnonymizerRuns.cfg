SPECIFICATION Spec
CONSTANTS
    Missing = Missing
    None = None
    Runs <- FourRuns
    Mode <- ModeOf
    Dataset <- DatasetOf
    People <- FourPeople
    Kind <- KindOf
    Filled <- FilledCells
    Birth <- BirthOf
    Relation <- RelationOf
    KThreshold = 2
INVARIANTS
    TypeOK
    OneTokenForever
    SelfCheckPasses
    OutputComplete
    AnonymityReported
CHECK_DEADLOCK FALSE

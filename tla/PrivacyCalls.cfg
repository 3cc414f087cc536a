SPECIFICATION Spec
CONSTANTS
    Subjects = {"s", "g"}
    TypeOf <- MCTypeOf
    Imported = {"s"}
    Ask <- MCAsk
    Loads <- MCLoads
    DueDays = 1
    LastDay = 3
INVARIANTS
    TypeOK
    ConsentsCover
    AnswersTruthful
CHECK_DEADLOCK FALSE

SPECIFICATION FairSpec
CONSTANTS
    j1 = j1
    j2 = j2
    s1 = s1
    s2 = s2
    None = None
    Jobs <- TwoJobs
    Slots <- TwoSlots
    Prompts <- Both
INVARIANTS
    TypeOK
    PollingTracked
    VerdictShownIsFinal
PROPERTIES
    VerdictGetsShown
    PollingEnds
CHECK_DEADLOCK FALSE

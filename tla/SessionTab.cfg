SPECIFICATION FairSpec
CONSTANTS
    Tokens <- FourTokens
    Owner <- MCOwner
    Roles <- MCRoles
    None = None
    MaxLoads = 2
INVARIANTS
    TypeOK
    SessionAgrees
PROPERTIES
    ComesToRest
CHECK_DEADLOCK FALSE

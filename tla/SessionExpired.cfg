SPECIFICATION FairSpec
CONSTANTS
    Tokens <- OneToken
    Owner <- OneOwner
    Roles <- MCRoles
    None = None
    MaxLoads = 1
PROPERTIES
    DeniedGoesToLogin
CHECK_DEADLOCK FALSE

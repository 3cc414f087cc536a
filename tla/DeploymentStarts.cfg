SPECIFICATION FairSpec
CONSTANTS
    Backends = {"api", "api2"}
    Seeders = {"cli"}
    Ask <- MCAsk
    Scenarios <- MCScenarios
    AdminEmail = "admin"
    MaxDowngrades = 2
INVARIANTS
    TypeOK
    PiiReadable
    StartLeavesAll
    RolesReplaced
PROPERTIES
    ServesInTheEnd
CHECK_DEADLOCK FALSE

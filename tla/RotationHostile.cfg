SPECIFICATION Spec
CONSTANTS
    a = a  b = b  c = c
    Node <- Two
    Coordinators <- Two
    InitMembers <- AllKnown
    Id = {}
    MaxRounds = 2
    MaxGen = 4
    Mortal <- Two
    MaxCrashes = 2
    Torn = {"activate", "rollback"}
    Linger = FALSE
    DiskFails = TRUE
    RegistryHere = FALSE
INVARIANTS FrozenOwned DoubtOwned
CHECK_DEADLOCK FALSE

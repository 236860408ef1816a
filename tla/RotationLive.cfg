SPECIFICATION FairSpec
CONSTANTS
    a = a  b = b  c = c
    Node <- Two
    Coordinators <- Two
    InitMembers <- AllKnown
    Id = {}
    MaxRounds = 2
    MaxGen = 3
    Mortal <- Two
    MaxCrashes = 1
    Torn = {}
    Linger = FALSE
    DiskFails = FALSE
    RegistryHere = FALSE
PROPERTIES Thaws
CHECK_DEADLOCK FALSE
INVARIANT OneOutcome

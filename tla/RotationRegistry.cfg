SPECIFICATION FairSpec
CONSTANTS
    a = a  b = b  c = c
    Node <- Two
    Coordinators <- OnlyA
    InitMembers <- AllKnown
    Id = {}
    MaxRounds = 1
    MaxGen = 2
    Mortal <- Two
    MaxCrashes = 1
    Torn = {}
    Linger = FALSE
    DiskFails = FALSE
    RegistryHere = TRUE
PROPERTIES Thaws
CHECK_DEADLOCK FALSE

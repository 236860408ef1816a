SPECIFICATION DoubtSpec
CONSTANTS
    a = a  b = b  c = c
    Node <- Three
    Coordinators <- OnlyA
    InitMembers <- AllKnown
    Id = {}
    MaxRounds = 1
    MaxGen = 1
    Mortal <- Three
    MaxCrashes = 0
    Torn = {}
    Linger = FALSE
    DiskFails = FALSE
    RegistryHere = FALSE
INVARIANTS GenAgreement
CHECK_DEADLOCK FALSE

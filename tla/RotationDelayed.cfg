SPECIFICATION Spec
CONSTANTS
    a = a  b = b  c = c
    Node <- Two
    Coordinators <- OnlyA
    InitMembers <- AllKnown
    Id = {}
    MaxRounds = 1
    MaxGen = 2
    Mortal <- Two
    MaxCrashes = 0
    Torn = {}
    Linger = TRUE
    DiskFails = FALSE
    RegistryHere = FALSE
INVARIANTS GenAgreement
CHECK_DEADLOCK FALSE

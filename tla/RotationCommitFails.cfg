SPECIFICATION Spec
CONSTANTS
    a = a  b = b  c = c
    Node <- Two
    Coordinators <- OnlyA
    InitMembers <- AllKnown
    Id = {}
    MaxRounds = 1
    MaxGen = 4
    Mortal <- Two
    MaxCrashes = 0
    Torn = {}
    Linger = FALSE
    DiskFails = TRUE
    RegistryHere = FALSE
INVARIANTS OneOutcome
CHECK_DEADLOCK FALSE

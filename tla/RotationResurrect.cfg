SPECIFICATION Spec
CONSTANTS
    a = a  b = b  c = c
    Node <- Two
    Coordinators <- OnlyA
    InitMembers <- AllKnown
    Id = {1}
    MaxRounds = 2
    MaxGen = 3
    Mortal <- Two
    MaxCrashes = 1
    Torn = {}
    Linger = FALSE
    DiskFails = FALSE
    RegistryHere = FALSE
INVARIANTS NoResurrection
CHECK_DEADLOCK FALSE

SPECIFICATION Spec
CONSTANTS
    a = a  b = b  c = c
    Node <- Two
    Coordinators <- OnlyA
    InitMembers <- AllKnown
    Id = {1}
    MaxRounds = 1
    MaxGen = 2
    Mortal <- Two
    MaxCrashes = 1
    Torn = {}
    Linger = FALSE
    DiskFails = FALSE
    RegistryHere = FALSE
INVARIANTS ReadsUnbroken
CHECK_DEADLOCK FALSE

SPECIFICATION Spec
CONSTANTS
    a = a  b = b  c = c
    Node <- Two
    Coordinators <- OnlyA
    InitMembers <- AllKnown
    Id = {1}
    MaxRounds = 2
    MaxGen = 4
    Mortal <- Two
    MaxCrashes = 1
    Torn = {"rollback"}
    Linger = FALSE
    DiskFails = FALSE
    RegistryHere = FALSE
INVARIANTS NoLostWrite
CHECK_DEADLOCK FALSE

SPECIFICATION Spec
CONSTANTS
    a = a  b = b  c = c
    Node <- Two
    Coordinators <- Two
    InitMembers <- AllKnown
    Id = {}
    MaxRounds = 2
    MaxGen = 2
    Mortal <- Two
    MaxCrashes = 0
    Torn = {}
    Linger = FALSE
    DiskFails = FALSE
    RegistryHere = FALSE
INVARIANTS GenAgreement
CHECK_DEADLOCK FALSE

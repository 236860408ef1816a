SPECIFICATION Spec
CONSTANTS
    a = a  b = b  c = c
    Node <- Two
    Coordinators <- OnlyA
    InitMembers <- OnlyAKnows
    Id = {1}
    MaxRounds = 2
    MaxGen = 4
    Mortal <- Two
    MaxCrashes = 2
    Torn = {}
    Linger = FALSE
    DiskFails = FALSE
    RegistryHere = FALSE
INVARIANTS TypeOK GenAgreement NoLostWrite SeedUndoesNoDelete SwitchHidesNothing
PROPERTY RestartStaysFrozen
CHECK_DEADLOCK FALSE

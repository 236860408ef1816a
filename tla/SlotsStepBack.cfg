SPECIFICATION Spec
CONSTANTS
    Replica <- Replicas
    MaxWall = 3
    MaxWrites = 4
    MaxRestarts = 2
    StepsBack = TRUE
    LogicalWidth = 8
PROPERTY SlotsGrow
CHECK_DEADLOCK FALSE

SPECIFICATION Spec
CONSTANTS
    Replica <- Replicas
    MaxWall = 3
    MaxWrites = 4
    MaxRestarts = 0
    StepsBack = FALSE
    LogicalWidth = 8
PROPERTY OwnWriteWins
CHECK_DEADLOCK FALSE

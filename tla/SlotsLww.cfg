SPECIFICATION Spec
CONSTANTS
    Replica <- Replicas
    MaxWall = 3
    MaxWrites = 3
    MaxRestarts = 1
    StepsBack = FALSE
    LogicalWidth = 8
INVARIANT LastWriterWins
PROPERTY MonotoneRead SlotsGrow
CHECK_DEADLOCK FALSE

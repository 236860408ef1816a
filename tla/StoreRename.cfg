SPECIFICATION Spec
CONSTANTS
    Replica <- Replicas
    Key <- Keys
    Elem <- Two
    Field <- Two
    Score <- Two
    Register <- Two
    Item <- Sketched
    ChunkBytes = 1
    ByteBits = 2
    LogicalWidth = 16
    MaxNow = 2
    Unit = 4
    MaxRestarts = 0
    Disc <- DiscOf
    MaxNew = 1
    Positions <- BloomBits
    BloomChunk = 2
    MaxLayers = 2
    Cell <- CellOf
    MaxCell = 6
    IntMax = 3
    Work = {"copies"}
    Budget <- Commands
    Writer <- Writers
PROPERTIES RenameKeepsShared
CHECK_DEADLOCK FALSE

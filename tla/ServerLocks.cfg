SPECIFICATION ServerSpec
CONSTANTS
    Replica <- Two
    Key <- Keys
    Elem <- Two
    Field <- Two
    Score <- Two
    Register <- Two
    Item <- Sketched
    ChunkBytes = 1
    ByteBits = 2
    LogicalWidth = 16
    MaxNow = 2
    Unit = 4
    MaxRestarts = 1
    Disc <- DiscOf
    MaxNew = 1
    Positions <- BloomBits
    BloomChunk = 2
    MaxLayers = 2
    Cell <- CellOf
    MaxCell = 6
    IntMax = 7
    Work = {"lock"}
    Client <- Three
    Command <- Sent
    Bucket <- PartitionOf
    NumBuckets = 2
    Apart = TRUE
    MaxGen = 1
    CursorTTL = 1
    LogicalKey <- Keys
    Pairs <- Ordered
    Shard <- Sharing
    Budget <- Commands
INVARIANT NoWaitCycle
CHECK_DEADLOCK FALSE

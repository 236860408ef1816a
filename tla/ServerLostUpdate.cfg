SPECIFICATION ServerSpec
CONSTANTS
    Replica <- Two
    Key <- Keys
    Elem <- Two
    Field <- Two
    Score <- Two
    Register <- Two
    Item <- Sketched
    ChunkBytes = 1
    ByteBits = 2
    LogicalWidth = 16
    MaxNow = 2
    Unit = 4
    MaxRestarts = 1
    Disc <- DiscOf
    MaxNew = 1
    Positions <- BloomBits
    BloomChunk = 2
    MaxLayers = 2
    Cell <- CellOf
    MaxCell = 6
    IntMax = 7
    Work = {"txn"}
    Client <- Three
    Command <- Increments
    Bucket <- PartitionOf
    NumBuckets = 2
    Apart = FALSE
    MaxGen = 0
    CursorTTL = 1
    LogicalKey <- Keys
    Pairs <- Ordered
    Shard <- OneEach
    Budget <- Commands
INVARIANT IncrementsKept
CHECK_DEADLOCK FALSE

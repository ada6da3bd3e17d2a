CONSTANTS
    p1 = p1
    p2 = p2
    Pictures <- MCPictures
    Length <- MCLength
    Batch <- MCBatch
    PacketBytes = 2
    BufPackets = 2
    PageBytes = 4
    RegionPages = 3
    QueueSize = 2
    Erased = Erased
    Garbage = Garbage
    Blank = Blank
    PacedWrites = TRUE
    MaxLost = 2
    LinkLoss = TRUE
    Resets = TRUE
    FlashFails = TRUE
SPECIFICATION FairSpec
INVARIANTS NoOverrun StoredPrefix EndMeansWhole NoOverwrite
PROPERTIES TransferCompletes

CONSTANTS
    factory = factory
    small = small
    large = large
    Images <- MCImages
    Size <- MCSize
    Factory = factory
    Region = 8
    PageUnits = 2
    Chunk = 2
    Buffers = 4
    MaxObject = 4
    CommandUnits = 2
    Packets = {1, 2}
    QueueSize = 4
    Receipts = {0, 3}
    NoImage = NoImage
    Mixed = Mixed
    Erased = Erased
    Torn = Torn
    NoSettings = NoSettings
    Paced = TRUE
    FlashFails = FALSE
    MaxBreaks = 1
SPECIFICATION FairTransportSpec
INVARIANTS SavedIsStored ValidIsWhole
PROPERTIES BufferHeld UpdateCompletes

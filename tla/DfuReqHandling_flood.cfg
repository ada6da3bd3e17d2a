CONSTANTS
    factory = factory
    small = small
    Images <- MCImages
    Size <- MCSize
    Factory = factory
    Region = 6
    PageUnits = 2
    Chunk = 2
    Buffers = 2
    MaxObject = 2
    CommandUnits = 1
    Packets = {2}
    QueueSize = 3
    NoImage = NoImage
    Mixed = Mixed
    Erased = Erased
    Torn = Torn
    NoSettings = NoSettings
    Paced = FALSE
    FlashFails = TRUE
    MaxBreaks = 1
SPECIFICATION Spec
INVARIANTS PendingCounted InstalledIsWhole

CONSTANTS
    f1 = f1
    f2 = f2
    NoFile = NoFile
    VirtualPages = 3
    PageSize = 11
    OpQueueSize = 2
    ChunkSlots = 2
    ChunkWords = 1
    ChunkCounts = {1}
    Files = {f1}
    MaxIds = 3
    MaxDeletes = 1
    MaxGcs = 2
    MaxReserves = 1
    MaxOpens = 1
    MaxCrashes = 1
    MaxFails = 1
    MaxSpecials = 1
    InitPreempted = TRUE
    Upsets = {}
SPECIFICATION FairSpec
CHECK_DEADLOCK FALSE
INVARIANTS RecordsFound NoOverlay SpaceHeld AnswerTrue OpenKept InitKnowsFlash
PROPERTIES StoreSpec QueueDrains

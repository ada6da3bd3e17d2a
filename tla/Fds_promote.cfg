CONSTANTS
    f1 = f1
    f2 = f2
    NoFile = NoFile
    VirtualPages = 3
    PageSize = 9
    OpQueueSize = 2
    ChunkSlots = 2
    ChunkWords = 1
    ChunkCounts = {0}
    Files = {f1}
    MaxIds = 4
    MaxDeletes = 1
    MaxGcs = 2
    MaxReserves = 0
    MaxOpens = 0
    MaxCrashes = 1
    MaxFails = 0
    MaxSpecials = 1
    InitPreempted = FALSE
    Upsets = {"promoted"}
SPECIFICATION Spec
CHECK_DEADLOCK FALSE
INVARIANTS RecordsSurvive

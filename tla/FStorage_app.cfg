CONSTANTS
    o1 = o1
    o2 = o2
    o3 = o3
    Ops = {o1, o2, o3}
    NoOp = NoOp
    QueueSize = 2
    MaxRetries = 1
    MaxWrite = 2
    MaxLen = 3
    MaxEvents = 2
    ForeignUsers = FALSE
    StrayEvents = FALSE
    SdRejects = FALSE
SPECIFICATION FairSpec
INVARIANTS AnsweredLeavesQueue ProgressIsPhysical
PROPERTIES EveryRequestAnswered ServiceSpec

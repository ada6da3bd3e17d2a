CONSTANTS
    o1 = o1
    o2 = o2
    Ops = {o1, o2}
    NoOp = NoOp
    QueueSize = 2
    MaxRetries = 1
    MaxWrite = 2
    MaxLen = 3
    MaxEvents = 2
    ForeignUsers = TRUE
    StrayEvents = TRUE
    SdRejects = TRUE
SPECIFICATION Spec
SYMMETRY OpSymmetry
INVARIANTS FlagsMatchQueue NoLostWakeup

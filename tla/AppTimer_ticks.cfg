CONSTANTS
    clock = clock
    conn = conn
    NoTimer = NoTimer
    Timers <- MCTimers
    Repeated = {clock}
    InMain = {clock, conn}
    InHandlers = {conn}
    Interval <- MCInterval
    Period = 36
    OffsetMin = 2
    QueueSize = 2
    MaxLag = 1
SPECIFICATION Spec
CHECK_DEADLOCK FALSE
INVARIANTS DeadlinesKept NotLate
PROPERTIES CalledInTime

CONSTANTS
    Events = {e1, e2}
    NoHandler = NoHandler
    QueueSize = 3
    Levels = 2
    Depth = 1
SPECIFICATION AppSpec
INVARIANTS SpaceIsRoom RunsOldest
PROPERTIES QueueSpec

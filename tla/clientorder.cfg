SPECIFICATION Spec
CONSTANTS
    MaxStarts = 1
    MaxAsked = 2
    MaxCalls = 2
    Sights = {{"main"}}
    InOrder = TRUE
INVARIANT WatchesWithoutServer
CHECK_DEADLOCK FALSE

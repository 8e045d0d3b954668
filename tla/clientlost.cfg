SPECIFICATION Spec
CONSTANTS
    MaxStarts = 2
    MaxAsked = 2
    MaxCalls = 3
    Sights = {{"main"}}
    InOrder = TRUE
PROPERTY LossTold
CHECK_DEADLOCK FALSE

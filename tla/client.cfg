SPECIFICATION Spec
CONSTANTS
    MaxStarts = 2
    MaxAsked = 2
    MaxCalls = 2
    Sights = {{"main"}, {"portal"}, {"main", "portal"}}
    InOrder = TRUE
INVARIANTS TypeOK Attentive
PROPERTIES ServerFound LossNoticed
CHECK_DEADLOCK FALSE

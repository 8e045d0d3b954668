SPECIFICATION Spec
CONSTANTS
    d1 = d1  d2 = d2
    Dock = {d1, d2}
    NoDock = NoDock
    MaxQueue = 3
    FailsCalls = TRUE
    EndsUnseen = FALSE
    Named = {"kimpanel", "classic"}
INVARIANT IconIsSomewhere
CHECK_DEADLOCK FALSE

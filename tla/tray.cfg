SPECIFICATION FairSpec
CONSTANTS
    d1 = d1  d2 = d2
    Dock = {d1, d2}
    NoDock = NoDock
    MaxQueue = 3
    FailsCalls = FALSE
    EndsUnseen = FALSE
    Named = {"kimpanel", "classic"}
INVARIANTS TypeOK OnlyOneDraws OneIcon IconIsSomewhere
PROPERTY ImplementsTrayIcon
CHECK_DEADLOCK FALSE

SPECIFICATION Spec
CONSTANTS
    Node = {n1, n2}
    NULL = NULL
    App = {a1}
    NoApp = NoApp
    NumIM = 3
    SelfNamed = {}
    ShareState = "None"
    DefaultState = "INACTIVE"
    SwitchInactive = FALSE
    Kinds = {"v2"}
    LocalIM = {}
    ClientCaps = {}
SYMMETRY Symmetry
PROPERTIES DelayedIMApplied
CHECK_DEADLOCK FALSE

SPECIFICATION Spec
CONSTANTS
    Node = {n1, n2, n3}
    NULL = NULL
    App = {a1}
    NoApp = NoApp
    NumIM = 2
    SelfNamed = {}
    ShareState = "All"
    DefaultState = "INACTIVE"
    SwitchInactive = FALSE
    Kinds = {"v1", "v2"}
    LocalIM = {}
    ClientCaps = {}
SYMMETRY Symmetry
INVARIANTS SharedStateAgrees ClosedIsTold
CHECK_DEADLOCK FALSE

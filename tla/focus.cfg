SPECIFICATION Spec
CONSTANTS
    Node = {n1, n2}
    NULL = NULL
    App = {a1}
    NoApp = NoApp
    NumIM = 3
    SelfNamed = {}
    ShareState = "None"
    DefaultState = "INACTIVE"
    SwitchInactive = TRUE
    Kinds = {"v3", "xim"}
    LocalIM = {2}
    ClientCaps = {TRUE}
SYMMETRY Symmetry
INVARIANTS TypeOK PointersLinked CurrentIMFollowsFocus NoForeignText
CHECK_DEADLOCK FALSE

SPECIFICATION Spec
CONSTANTS
    Node = {n1, n2, n3}
    NULL = NULL
    App = {a1, a2}
    NoApp = NoApp
    NumIM = 2
    SelfNamed = {}
    ShareState = "PerProgram"
    DefaultState = "INACTIVE"
    SwitchInactive = FALSE
    Kinds = {"v2", "xim"}
    LocalIM = {}
    ClientCaps = {}
SYMMETRY Symmetry
INVARIANTS ProgramStateAgrees
CHECK_DEADLOCK FALSE

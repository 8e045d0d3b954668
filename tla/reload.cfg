SPECIFICATION Spec
CONSTANTS
    dbus = dbus
    x11 = x11
    remote = remote
    Timer = {t1}
    Modules <- ModulesInOrder
    X11 = x11
    Delays = {1}
    MaxLag = 1
    Burst = 1
    Forever = 10
INVARIANTS MarkedIsUpdated
CHECK_DEADLOCK FALSE

SPECIFICATION FairSpec
CONSTANTS
    dbus = dbus
    x11 = x11
    remote = remote
    Timer = {t1, t2}
    Modules <- ModulesInOrder
    X11 = x11
    Delays = {0, 2}
    MaxLag = 1
    Burst = 1
    Forever = 10
INVARIANTS TypeOK NeverOversleeps XIMQueueSent RequestedUpdateMade
PROPERTIES TimersCalled SignalEnds
CHECK_DEADLOCK FALSE

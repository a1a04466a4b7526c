SPECIFICATION Spec
CONSTANTS
    s1 = s1
    s2 = s2
    k1 = k1
    k2 = k2
    Stream = {s1, s2}
    Conn = {k1, k2}
    Item = {1, 2}
    MaxStreams = 2
    ReplayLimit = 1
    SeenMax = 1
    QueueMax = 1
    MaxFaults = 1
INVARIANTS
    OneListener
    NothingMissed
    TwiceOnlyFarApart
PROPERTIES
    EveryItemArrives
CHECK_DEADLOCK FALSE

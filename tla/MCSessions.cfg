SPECIFICATION Spec
CONSTANTS
    Key = {"ip", "user"}
    Limit <- MCLimit
    Window <- MCWindow
    SweepAge = 2
    s1 = s1
    s2 = s2
    Session = {s1, s2}
    c1 = c1
    c2 = c2
    Change = {c1, c2}
    Ttl = 1
    MaxNow = 3
    MaxTries = 3
INVARIANTS
    LessThanTwiceTheLimit
    SurvivorsOverlapped
PROPERTIES
    DeadStaysDead
    ChecksAreSound
    SweepIsInvisible
CHECK_DEADLOCK FALSE
SYMMETRY Symmetry

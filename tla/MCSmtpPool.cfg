SPECIFICATION Spec
SYMMETRY Symmetric
CONSTANTS
    Sink = {home, work}
    home = home
    work = work
    Job = {a, b, c}
    a = a
    b = b
    c = c
    MaxConnections = 1
    MaxEdits = 1
INVARIANTS
    OpenIffCached
    SentAsRead
    FreshAfterFailure

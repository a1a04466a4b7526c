SPECIFICATION Spec
CONSTANTS
    r1 = r1
    r2 = r2
    r3 = r3
    Request = {r1, r2, r3}
    Window = 2
    i1 = i1
    i2 = i2
    Ip = {i1, i2}
    Feed = {"news", "logs"}
    User = {"alice"}
    t1 = t1
    t2 = t2
    t3 = t3
    Token = {t1, t2, t3}
    Owner <- MCOwner
    FirstToken <- MCFirstToken
    IpLimit = 1
    LookupLimit = 1
    FeedLimit = 1
    UserLimit = 1
    MaxIps = 1
    MaxTrusted = 3
    MaxNow = 2
INVARIANTS
    LookupsAreBounded
    OnlyDebtsAreCounted
    OldestFirst
    LessThanTwiceThrough
CHECK_DEADLOCK FALSE
SYMMETRY Symmetry

SPECIFICATION AccessSpec
CONSTANTS
    s1 = s1
    s2 = s2
    r1 = r1
    r2 = r2
    Subjects = {s1, s2}
    Flows = {r1, r2}
    Conns = {r1, r2}
    Sessions = {"s1"}
    Machines = {"m1"}
    Owner <- OneOwner
    Ports = {0, 1}
    NoSession = "none"
    MaxOffs = 1
    MaxTokens = 1
    Verified = {s1, s2}
    Old = 1
    MaxRows = 3
    MaxLogins = 2
    MaxBearers = 1
    MaxEnds = 1
    MaxClock = 4
    TTL = 1
    Slow = 1
    CacheMax = 1
    SignInMay = {}
    Keys = {"k1", "k2"}
    Unit = 4
    Capacity = 8
    Rate = 3
    LimitClock = 4
    Cap = 2
    MaxFleet = 4
    MaxChanges = 4
    MaxViews = 2
    Sess = {"s1"}
    Pats = {"p1"}
    Users = {"u1", "u2"}
    Requests = {"r1", "r2"}
    SessionTTL = 4
    RefreshThreshold = 1
    TouchThreshold = 1
    Lives = {0, 3}
    MaxNow = 7
    May = {}
SYMMETRY Symmetry
CHECK_DEADLOCK FALSE
INVARIANTS
    AccountsHold
    GatewayGuards
    CloseTells
    LimitsHold

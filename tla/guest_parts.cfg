SPECIFICATION Spec
CONSTANTS
    MaxBoots = 3
    MaxFaults = 2
    MaxPairs = 4
    MaxClock = 4
    MaxCalls = 4
    Life = 2
    Skew = 1
    TTL = 1
    Users = {"u1", "u2"}
    MaxTokens = 3
    MaxOps = 3
    Machines = {"m1", "m2"}
    SubnetSize = 5
    MaxPid = 2
    MaxStops = 1
    Serial = TRUE
    PidLost = FALSE
    MaxRestarts = 1
    DiskFaults = {"nodisk", "nobind", "nodb", "race", "restart"}
    MaxSessions = 2
    MaxBytes = 5
    MaxChunk = 3
    QueueCap = 1
    RingSize = 3
    Providers = {"claude", "codex"}
    Subscription = {"claude"}
    WithSetup = {"codex"}
    LoginKeys = {"k1"}
    MaxRequests = 2
    MaxStarts = 2
    MaxLaunches = 1
    MaxAttempts = 2
    SecretFaults = 1
    SecretsMay = {"fail"}
    GitMay = {"fail"}
    BaoMay = {"fail"}
    Callers = {c1, c2}
SYMMETRY Symmetry
CHECK_DEADLOCK FALSE
INVARIANTS
    TerminalsWhole
    DiskTells
    SecretsCurrent
    StoresServe
    ChildrenRecorded
PROPERTIES
    DiskKeeps
    ImplementsDriver

SPECIFICATION ControlSpec
CONSTANTS
    m1 = m1
    m2 = m2
    NoMachine = NoMachine
    Machines = {m1, m2}
    Calls = {c1, c2, c3, c4}
    UidOf <- OwnUids
    Serial = TRUE
    May = {"snap", "upgrade"}
    MaxPid = 4
    MaxRestarts = 0
    FleetMay = {}
    WorktreeMay = {"overlap", "edit", "kill"}
    PullMay = {"overlap", "push", "lost"}
    SettingsMay = {}
    NetMay = {}
    StreamMay = {"kind"}
    Hosts = {1, 2, 3}
    Guests = {"a", "b"}
    Modes <- Policies
    Total <- Totals
    Need <- Needs
    BlipThreshold = 2
    MaxFaults = 1
    Files = {"f1", "f2"}
    Weight <- Weights
    DiffCap = 2
    Envelope = 1
    FrameLimit = 2
    Items <- ItemCounts
    PageSize = 2
    MaxHead = 2
    MaxTokens = 3
    Confs = {"k1", "k2", "k3"}
    MaxEdits = 2
    MaxDrops = 1
    Streamers = {s1}
    Buf = 2
    Recent = 1
    MaxReplay = 1
    MaxEvents = 3
    MaxFails = 1
    Reqs = {h1, h2}
SYMMETRY Symmetry
CHECK_DEADLOCK FALSE
INVARIANTS
    PidsAreOwn
    RecordsTell
    NoOvercommit
    CommitsTell
    PullsTell
    SettingsApplied
    NetworkHolds
    StreamCurrent
PROPERTIES
    NoFalseAlarm
    UserWorkKept

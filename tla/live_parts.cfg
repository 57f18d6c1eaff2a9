SPECIFICATION LiveSpec
CONSTANTS
    Conns = {"c1", "c2", "c3"}
    MaxProcs = 3
    Base = 1
    MaxWait = 3
    StartTimeout = 1
    May = {"unstartable", "mute", "crash", "stop"}
    Ports = {"p1", "p2"}
    MaxDown = 2
    MaxUp = 2
    TunnelMay = {"refuse", "nobackend", "close", "reply"}
    Ops = {"o1", "o2"}
    Repos <- Namesakes
    MaxFaults = 1
    TransferFaults = {"kill", "remove"}
CHECK_DEADLOCK FALSE
INVARIANTS
    OneBackend
    TransfersWhole
PROPERTIES
    BacksOff
    DirKeepsRepo
    PartsSettle

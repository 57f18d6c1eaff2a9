SPECIFICATION FairSpec
CONSTANTS
    LastTurn = 2
    MaxEvents = 0
    MaxCancels = 0
    MaxRestarts = 0
    BufSize = 8
    SubBuf = 8
    Viewers = {v1}
    May = {"early"}
PROPERTY TaskSettles
CHECK_DEADLOCK FALSE

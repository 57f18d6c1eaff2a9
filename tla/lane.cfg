SPECIFICATION MCSpec
CONSTANTS
    LastTurn = 2
    MaxEvents = 1
    MaxCancels = 1
    MaxRestarts = 1
    BufSize = 8
    SubBuf = 8
    Viewers = {v1}
    May = {"early", "drop", "reap"}
CHECK_DEADLOCK FALSE
INVARIANTS
    LaneSound
PROPERTIES
    LaneSettles

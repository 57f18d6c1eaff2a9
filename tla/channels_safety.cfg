SPECIFICATION Spec
CONSTANTS
    Machines = {m1, m2}
    Writers = {w1, w2}
    Sups = {i1, i2, i3}
    None = None
    Buffer = 2
    May = {"reorder", "gap", "late", "destroy", "list"}
    MaxWrites = 3
SYMMETRY Symmetry
CHECK_DEADLOCK FALSE
INVARIANTS
    ChannelsSound

SPECIFICATION Spec

CONSTANTS
    m1 = m1
    m2 = m2
    NoMachine = NoMachine
    Machines = {m1}
    Calls = {c1, c2, c3}
    UidOf <- OwnUids
    Serial = TRUE
    May = {"boot"}
    MaxPid = 3
    MaxRestarts = 0

SYMMETRY CallSymmetry
CHECK_DEADLOCK FALSE
PROPERTIES
    DiskSurvives

SPECIFICATION FairSpec
CONSTANTS
    m1 = m1
    m2 = m2
    NoMachine = NoMachine
    Machines = {m1}
    Calls = {c1, c2, c3}
    UidOf <- OwnUids
    Serial = TRUE
    May = {"boot", "snap", "upgrade", "vmm", "reaper"}
    MaxPid = 3
    MaxRestarts = 1
CHECK_DEADLOCK FALSE
INVARIANTS
    RecordsSound
PROPERTIES
    DriverSettles
    DiskOutlivesFailures

SPECIFICATION Spec
CONSTANTS
    Machines = {m1}
    Requests = {r1, r2, r3}
    NoMachine = NoMachine
    Ops = {"create", "start", "stop", "destroy"}
    MaxPerUser = 1
    BlipThreshold = 2
    MaxStartRetries = 2
    Faults = {"setup", "call", "vm", "forget", "crash", "cancel", "write"}
SYMMETRY RequestSymmetry
CHECK_DEADLOCK FALSE
INVARIANTS
    Consistent
    RunningSnapshotIsLeftover
    CreatorOwnsRequested
PROPERTIES
    RowsImplemented

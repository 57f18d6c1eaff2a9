SPECIFICATION FairSpec
CONSTANTS
    Machines = {m1}
    Requests = {r1, r2}
    NoMachine = NoMachine
    Ops = {"create", "start", "stop", "destroy"}
    MaxPerUser = 1
    BlipThreshold = 2
    MaxStartRetries = 2
    Faults = {"call", "vm", "forget"}
CHECK_DEADLOCK FALSE
PROPERTIES
    Resolves

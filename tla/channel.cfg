SPECIFICATION ChannelSpec
CONSTANTS
    c1 = c1
    g1 = g1
    n1 = n1
    CPCalls = {c1}
    GuestCalls = {g1}
    Notes = {n1}
    None = None
    ManagerMay = {}
CHECK_DEADLOCK FALSE
INVARIANTS
    ConnSound
    OneChannel
PROPERTIES
    ChannelsSettle

SPECIFICATION WebSpec
CONSTANTS
    c1 = c1
    c2 = c2
    w1 = w1
    w2 = w2
    Connections = {c1, c2}
    Workers = {w1}
    KeepAliveMax = 2
    BodyLength = 3
    Routes <- LocationRoutes
    Clients <- MCClients
    None = None
    LineMax = 60
    HeaderMaxLength = 14
    HeaderMaxCount = 3
    PartLineMax = 4
    PayloadMax = 20
    FormMax = 12
    RangeMaxCount = 4
    RangeLists <- MCRangeLists
    Lengths <- MCLengths
INVARIANT CallsReachTheirHandlers
CHECK_DEADLOCK FALSE

SPECIFICATION ServerSpec
CONSTANTS
    c1 = c1
    c2 = c2
    o1 = o1
    o2 = o2
    NoClient = NoClient
    Connections <- Two
    Clients <- TwoClients
    Callers <- Two
    Wanted = 0
    HandlerFails = TRUE
    Stops = TRUE
INVARIANTS RemoveFindsEntries CounterCountsClients
PROPERTY EveryClientRemoved
CHECK_DEADLOCK FALSE

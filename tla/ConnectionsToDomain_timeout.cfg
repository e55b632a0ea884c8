SPECIFICATION Spec
CONSTANTS
    s1 = s1
    s2 = s2
    c1 = c1
    c2 = c2
    n1 = n1
    n2 = n2
    Null = Null
    Sessions <- Two
    Clients <- TwoClients
    Nodes <- TwoNodes
    MaxIds = 2
    MaxStalls = 2
    Timeouts = TRUE
    Drops = FALSE
SYMMETRY Symmetry
INVARIANT HeldNotKilled
CHECK_DEADLOCK FALSE

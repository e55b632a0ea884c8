SPECIFICATION Spec
CONSTANTS
    MaxSessions = 2
    Consoles = {c1, c2}
    MaxLines = 1
    MaxClicks = 2
    Connections = {n1, n2}
    Values = {u, v}
    MaxEvents = 4
SYMMETRY Symmetry
CHECK_DEADLOCK FALSE
INVARIANTS TableMatches EveryConsoleHasButton EveryTabFilled

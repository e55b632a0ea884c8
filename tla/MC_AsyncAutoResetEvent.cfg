SPECIFICATION Spec
CONSTANTS
    w1 = w1
    w2 = w2
    k1 = k1
    k2 = k2
    Waiters <- MCWaiters
    Tokens <- MCTokens
    NoToken = NoToken
    Torn = Torn
    Canceled = Canceled
    MaxSets = 2
    MaxWaits = 2
    MaxResets = 1
SYMMETRY Symmetry
INVARIANTS PendingIsQueued SignalsAccounted NoMissedWakeup
CHECK_DEADLOCK FALSE

SPECIFICATION MCSpec
CONSTANTS
    cr = cr
    lf = lf
    other = other
    Items <- Bytes
    Default = other
    Capacity = 4
    substring <- EndOfHeader
    MaxBytes = 9
INVARIANTS EndsAgree MatchIsSuffix
PROPERTY ImplementsQueue
CHECK_DEADLOCK FALSE

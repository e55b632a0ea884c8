SPECIFICATION Spec
CONSTANTS
    p1 = p1
    p2 = p2
    d1 = d1
    d2 = d2
    Producers <- MCProducers
    Data <- MCData
    MaxPuts = 4
    Cancelable = TRUE
    WriterFails = TRUE
INVARIANTS WakeupFindsData WrittenInOrder
PROPERTY EveryDatumWritten
CHECK_DEADLOCK FALSE

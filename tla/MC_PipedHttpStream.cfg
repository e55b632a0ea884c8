SPECIFICATION Spec
CONSTANTS
    Stream <- MCStream
    Messages = 4
    End <- MCEnd
    Closing <- MCClosing
    MaxSessions = 2
    ExternalCancel = TRUE
INVARIANTS SpinFindsMessage DeliveredInOrder
PROPERTY CloseEndsParse
CHECK_DEADLOCK FALSE

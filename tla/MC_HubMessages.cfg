SPECIFICATION Spec
CONSTANTS
    Pages <- MCPages
    MaxItems = 1
    MaxReplies = 2
    MaxChunk = 2
INVARIANTS SentInOrder OutcomeIsTrue PendingIsHeld CallbackPerCall
    OneAnswer UploadsInOrder DispatchedInOrder
PROPERTIES ImplementsSendQueue EverySendSettles
CHECK_DEADLOCK FALSE

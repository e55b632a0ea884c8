SPECIFICATION Spec
CONSTANTS
    Supported = {"WebSockets", "ServerSentEvents", "LongPolling"}
    Requested = {"WebSockets", "ServerSentEvents", "LongPolling"}
    MAX_REDIRECTS = 2
    Offers <- MCOffers
    Chunks <- MCChunks
    Fetches = {TRUE, FALSE}
    FirstPoll = {200}
    Pages <- MCPages
INVARIANTS TypeOK TimerBelongsToLiveConnection DeadServerNoticed StatesAgree
    ConnectedHasTransport
PROPERTIES StoppedStaysStopped ImplementsSession StopSettles StartSettles
CHECK_DEADLOCK FALSE

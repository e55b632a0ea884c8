SPECIFICATION Spec
CONSTANTS
    Supported = {"WebSockets", "ServerSentEvents", "LongPolling"}
    Requested = {"WebSockets", "ServerSentEvents", "LongPolling"}
    MAX_REDIRECTS = 2
    Offers <- MCOffers
    Chunks <- MCChunks
    Fetches = {TRUE, FALSE}
    FirstPoll = {200}
    Pages <- RepositoryPages
INVARIANT ClosedStartFails

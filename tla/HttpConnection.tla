--------------------------- MODULE HttpConnection ---------------------------
(***************************************************************************)
(* The SignalR client's HttpConnection (signalr.js): its fields, the          *)
(* synchronous parts of start(), stop() and send(), the negotiation and the    *)
(* choice of a transport.  JavaScript runs a handler to its end, callbacks      *)
(* included, so every operator maps a client  w = [conn, hub]  (HttpConnection, *)
(* HubConnection) to the client after the call; an `await' ends the operator,   *)
(* and conn.start / conn.stop say at which one start() and stop() wait.         *)
(***************************************************************************)
EXTENDS Integers, Sequences, HttpClient

CONSTANTS Supported,      \* transports this browser has (options.WebSocket, EventSource)
          Requested,      \* transports the page asked for (options.transport)
          MAX_REDIRECTS   \* 100 in the code

ASSUME RedirectsAssumption == MAX_REDIRECTS \in Nat \ {0}

Transports == {"WebSockets", "ServerSentEvents", "LongPolling"}

\* The constructor.  `stopThrew' is a history variable: the stop coroutine was rejected.
NewConnection(fetch) ==
    [fetch |-> fetch, state |-> "Disconnected", started |-> FALSE, transport |-> "none",
     inherentKeepAlive |-> FALSE,
     start |-> "none", result |-> "none", endpoints |-> << >>, redirects |-> 0,
     stop |-> "none", stopPromise |-> "resolved", stopThrew |-> FALSE,
     post |-> "none",
     running |-> FALSE, aborted |-> FALSE, poll |-> Idle]

\* start() up to the first await, the POST of the negotiation
HttpStart(w) ==
    IF w.conn.state # "Disconnected"
    THEN [w EXCEPT !.conn.result = "fail"]
    ELSE [w EXCEPT !.conn.state = "Connecting", !.conn.start = "negotiating",
                   !.conn.result = "none", !.conn.redirects = 0]

\* The catch of _startInternal: every active stop() is told that it is over.
StartCatch(w) ==
    [w EXCEPT !.conn.state = "Disconnected", !.conn.transport = "none",
              !.conn.stopPromise = "resolved", !.conn.start = "none",
              !.conn.result = "fail"]

\* _resolveTransportOrError: an endpoint is skipped when the client does not know it, did not
\* ask for it, cannot use its format or has no browser support for it.
Usable(endpoint) ==
    /\ endpoint.transport \in Transports \cap Requested
    /\ endpoint.text
    /\ endpoint.transport \in Supported

\* The loop of _createTransport, from the endpoints that are left to the next connect()
NextEndpoint(w, start) ==
    LET left == w.conn.endpoints
        usable == {i \in DOMAIN left : Usable(left[i])}
    IN  IF usable = {} THEN StartCatch(w)
        ELSE LET i == CHOOSE j \in usable : \A k \in usable : j <= k
             IN  [w EXCEPT !.conn.transport = left[i].transport, !.conn.start = start,
                           !.conn.endpoints = SubSeq(left, i + 1, Len(left)),
                           !.conn.running = FALSE, !.conn.aborted = FALSE,
                           !.conn.poll = Idle]

\* Mutant: redirections are not counted against the limit.
NegotiatedNoLimit(w, kind, endpoints) ==
    CASE w.conn.start = "renegotiating" /\ kind # "fail" -> [w EXCEPT !.conn.start = "connecting"]
      [] w.conn.start = "negotiating" /\ kind = "redirect" /\ w.conn.state = "Connecting" ->
             [w EXCEPT !.conn.redirects = @ + 1]
      [] OTHER -> StartCatch(w)

\* The negotiation POST ends: kind is "fail" (rejected, or a status other than 200), "error"
\* (the server refused), "redirect" or "ok".  Only the first negotiation looks at its answer
\* and at the state; the one after a failed transport only wants a new connection id.
Negotiated(w, kind, endpoints) ==
    IF w.conn.start = "renegotiating"
    THEN IF kind = "fail" THEN StartCatch(w) ELSE [w EXCEPT !.conn.start = "connecting"]
    ELSE IF \/ kind \in {"fail", "error"}
            \/ w.conn.state # "Connecting"
            \/ kind = "redirect" /\ w.conn.redirects + 1 >= MAX_REDIRECTS
    THEN StartCatch(w)
    ELSE IF kind = "redirect" THEN [w EXCEPT !.conn.redirects = @ + 1]
    ELSE NextEndpoint([w EXCEPT !.conn.endpoints = endpoints], "connecting")

\* transport.connect() was rejected: fall back to the next endpoint, unless stop() was called.
ConnectFailed(w) ==
    IF w.conn.state = "Connecting" THEN NextEndpoint(w, "renegotiating") ELSE StartCatch(w)

\* transport.connect() resolved: the rest of _startInternal, then of start().
ConnectSucceeded(w) ==
    LET v == [w EXCEPT !.conn.inherentKeepAlive =
                           @ \/ w.conn.transport = "LongPolling"]
    IN  IF w.conn.state = "Connecting"
        THEN [v EXCEPT !.conn.state = "Connected", !.conn.started = TRUE,
                       !.conn.start = "none", !.conn.result = "ok"]
        ELSE [v EXCEPT !.conn.start = "awaitStop"]

\* stop() up to its first await
HttpStop(w) ==
    IF w.conn.state \in {"Disconnected", "Disconnecting"} THEN w
    ELSE [w EXCEPT !.conn.state = "Disconnecting", !.conn.stopPromise = "pending",
                   !.conn.stop = "awaitStart"]

\* send() of the handshake request or of the ping at the end of the start
HttpSend(w) ==
    [w EXCEPT !.conn.post =
        IF w.conn.state = "Connected" /\ w.conn.transport # "none" THEN "pending" ELSE "fail"]
=============================================================================

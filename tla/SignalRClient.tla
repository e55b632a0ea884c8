--------------------------- MODULE SignalRClient ---------------------------
(***************************************************************************)
(* The SignalR client a page runs: HubConnection over HttpConnection over the    *)
(* WebSocket, Server-Sent Events or long-polling transport (signalr.js).  An     *)
(* action is one task or one promise continuation of the browser's single        *)
(* thread.  Continuations that are ready run before any further event, in any    *)
(* order among themselves: every event has the guard Quiet.                       *)
(***************************************************************************)
EXTENDS HubConnection

CONSTANTS Offers,         \* sequences of endpoints a server offers
          Chunks,         \* sequences of records that arrive in one message or poll
          Fetches,        \* whether the browser has fetch: a set of Booleans
          FirstPoll,      \* statuses of the poll that opens long polling
          Pages           \* what a page configures: [retries, restart, stopper]

ASSUME OffersAssumption == Offers \subseteq Seq([transport : STRING, text : BOOLEAN])
ASSUME ChunksAssumption == Chunks \subseteq Seq(STRING) \ {<< >>}
ASSUME FetchesAssumption == Fetches \subseteq BOOLEAN

\* A page that restarts in onclose leaves reconnecting to that callback, as both pages of this
\* repository do: with a policy as well, two attempts could be under way at once.
ASSUME PagesAssumption ==
    /\ Pages \subseteq [retries : -1..10, restart : BOOLEAN, stopper : BOOLEAN]
    /\ \A page \in Pages : page.restart => page.retries = -1

VARIABLES conn, hub
vars == <<conn, hub>>

Client == [conn |-> conn, hub |-> hub]
Become(w) == conn' = w.conn /\ hub' = w.hub

Init ==
    /\ \E fetch \in Fetches : conn = NewConnection(fetch)
    /\ \E page \in Pages : hub = NewHub(page)

-----------------------------------------------------------------------------
(* Callbacks of the transport *)

\* _stopConnection while the connection is Connecting throws, with the transport dropped.
Throws(w) == w.conn.state = "Connecting"

\* _stopConnection, the onclose callback of the transports
StopConnection(w) ==
    LET v == [w EXCEPT !.conn.transport = "none"]
        closed == [v EXCEPT !.conn.state = "Disconnected", !.conn.started = FALSE,
                            !.conn.stopPromise = "resolved"]
    IN  CASE w.conn.state \in {"Disconnected", "Connecting"} -> v
          [] w.conn.state \in {"Connected", "Disconnecting"} /\ w.conn.started ->
                 ConnectionClosed(closed)
          [] OTHER -> closed

\* A message of a WebSocket or of an EventSource: an exception closes the transport.
MessageArrives(w, records) ==
    LET p == ProcessIncomingData(w, records)
    IN  IF p.threw THEN StopConnection(p.w) ELSE p.w

-----------------------------------------------------------------------------
(* Long polling.  The loop runs while conn.poll is not idle. *)

Poll(w) == [w EXCEPT !.conn.poll = Send(w.conn.aborted)]

\* Mutant: the close is raised by the loop and again by stop().
PollEndsAlwaysCloses(w) ==
    StopConnection([w EXCEPT !.conn.running = FALSE, !.conn.poll = Idle])

\* The finally of _poll: the close is raised here unless stop() will do it.
PollEnds(w) ==
    LET v == [w EXCEPT !.conn.running = FALSE, !.conn.poll = Idle]
    IN  IF w.conn.aborted THEN v ELSE StopConnection(v)

\* The loop after a response or an exception: `more' is this._running now.
PollContinues(w, more) == IF more THEN Poll(w) ELSE PollEnds(w)

\* connect(): the first poll ends.  A status other than 200 ends the loop at once, and
\* connect() resolves all the same.
LongPollingConnects(w, status) ==
    IF status = 200 THEN ConnectSucceeded(Poll([w EXCEPT !.conn.running = TRUE]))
                    ELSE ConnectSucceeded(PollEnds(w))

\* A poll was answered with 200 and content.
PollReceives(w, records) ==
    LET p == ProcessIncomingData(w, records)
    IN  PollContinues([p.w EXCEPT !.conn.poll = Idle], p.w.conn.running /\ ~p.threw)

-----------------------------------------------------------------------------
(* Continuations *)

StartSettled == conn.start \in {"none", "awaitStop"}
PollIdle == conn.poll.phase = "idle"

HubReady ==
    \/ hub.start = "http" /\ conn.result # "none"
    \/ hub.start \in {"sent", "ping"} /\ conn.post \in {"ok", "fail"}
    \/ hub.start = "handshake" /\ hub.handshake # "pending"
    \/ hub.start = "stop" /\ conn.stopPromise = "resolved"
StopReady ==
    \/ conn.stop = "awaitStart" /\ StartSettled
    \/ conn.stop = "awaitPoll" /\ PollIdle
    \/ conn.stop = "stopped"
    \/ conn.stop = "awaitPromise" /\ conn.stopPromise = "resolved"
StartReady == conn.start = "awaitStop" /\ conn.stopPromise = "resolved"
SendReady == conn.post = "pending" /\ conn.transport = "WebSockets"
Quiet == ~HubReady /\ ~StopReady /\ ~StartReady /\ ~SendReady

HttpStarted ==
    /\ hub.start = "http" /\ conn.result = "ok"
    /\ Become(SendHandshake(Client))

HttpStartFailed ==
    /\ hub.start = "http" /\ conn.result = "fail"
    /\ Become(StartFailed(Client))

HandshakeSent ==
    /\ hub.start = "sent" /\ conn.post = "ok"
    /\ Become(AwaitHandshake(Client))

HandshakeAnswered ==
    /\ hub.start = "handshake" /\ hub.handshake # "pending"
    /\ Become(HandshakeSettled(Client))

PingSent ==
    /\ hub.start = "ping" /\ conn.post = "ok"
    /\ Become(StartSucceeded(Client))

SendFailed ==
    /\ hub.start \in {"sent", "ping"} /\ conn.post = "fail"
    /\ Become(HandshakeFailed(Client))

StartStopped ==
    /\ hub.start = "stop" /\ conn.stopPromise = "resolved"
    /\ Become(StartFailed(Client))

\* start() finds that stop() was called while it connected.
HttpStartStopped ==
    /\ StartReady
    /\ Become([Client EXCEPT !.conn.start = "none", !.conn.result = "fail"])

\* Mutant: stop() forgets that there is a transport.
HttpStopNoTransport ==
    /\ conn.stop = "awaitStart" /\ StartSettled
    /\ Become([Client EXCEPT !.conn.stop = "awaitPromise"])

\* _stopInternal after `await this._startInternalPromise': transport.stop()
HttpStopTransport ==
    /\ conn.stop = "awaitStart" /\ StartSettled
    /\ CASE conn.transport = "none" -> Become([Client EXCEPT !.conn.stop = "awaitPromise"])
         [] conn.transport = "LongPolling" ->
                LET r == Abort(conn.poll)
                IN  Become([Client EXCEPT !.conn.running = FALSE, !.conn.aborted = TRUE,
                                !.conn.poll = IF r.error = "AbortError" THEN Idle ELSE r,
                                !.conn.stop = "awaitPoll"])
         [] OTHER -> Become(StopConnection([Client EXCEPT !.conn.stop = "stopped"]))

\* The polling loop has ended: send the DELETE.
SendDelete ==
    /\ conn.stop = "awaitPoll" /\ PollIdle
    /\ Become([Client EXCEPT !.conn.stop = "deleting"])

\* `this.transport = undefined' after the await of transport.stop()
TransportStopped ==
    /\ conn.stop = "stopped"
    /\ Become([Client EXCEPT !.conn.transport = "none", !.conn.stop = "awaitPromise"])

HttpStopped ==
    /\ conn.stop = "awaitPromise" /\ conn.stopPromise = "resolved"
    /\ Become([Client EXCEPT !.conn.stop = "none"])

-----------------------------------------------------------------------------
(* Events: requests that end *)

NegotiateEnds ==
    /\ Quiet /\ conn.start \in {"negotiating", "renegotiating"}
    /\ \E kind \in {"fail", "error", "redirect", "ok"}, offer \in Offers :
           Become(Negotiated(Client, kind, offer))

TransportConnects ==
    /\ Quiet /\ conn.start = "connecting"
    /\ IF conn.transport = "LongPolling"
       THEN \E status \in FirstPoll : Become(LongPollingConnects(Client, status))
       ELSE Become(ConnectSucceeded(Client))

TransportFailsToConnect ==
    /\ Quiet /\ conn.start = "connecting"
    /\ Become(ConnectFailed(Client))

\* WebSocketTransport.send settles at once, the POST of the other transports later.
SendEnds ==
    /\ SendReady \/ Quiet
    /\ conn.post = "pending"
    /\ \E r \in {"ok", "fail"} : Become([Client EXCEPT !.conn.post = r])

PollHeaders ==
    /\ Quiet /\ AwaitsHeaders(conn.poll, conn.fetch)
    /\ Become([Client EXCEPT !.conn.poll = Headers(@)])

\* 200 with content, 200 without, 204, another status or a status the client throws on
PollAnswered ==
    /\ Quiet /\ AwaitsResponse(conn.poll, conn.fetch) /\ StartSettled
    /\ \/ \E records \in Chunks : Become(PollReceives(Client, records))
       \/ Become(PollContinues(Client, conn.running))
       \/ Become(PollEnds(Client))

PollTimesOut ==
    /\ Quiet /\ conn.poll.phase = "fetching" /\ conn.poll.timer
    /\ Become(PollContinues([Client EXCEPT !.conn.poll = TimedOut(@, conn.fetch)], conn.running))

PollFails ==
    /\ Quiet /\ conn.poll.phase \in {"fetching", "body"}
    /\ Become(PollEnds([Client EXCEPT !.conn.poll = Failed(@, conn.fetch)]))

\* The DELETE ends; onclose is raised either way.  If it failed, _stopInternal calls
\* _stopConnection once more, by now perhaps during the next start.
DeleteEnds ==
    /\ Quiet /\ conn.stop = "deleting"
    /\ \/ Become(StopConnection([Client EXCEPT !.conn.stop = "stopped"]))
       \/ LET v == StopConnection([Client EXCEPT !.conn.stop = "none"])
          IN  IF Throws(v)
              THEN Become([StopConnection(v) EXCEPT !.conn.stopThrew = TRUE])
              ELSE Become([StopConnection(v) EXCEPT !.conn.stop = "stopped"])

-----------------------------------------------------------------------------
(* Events: the server, the timers, the page *)

Streaming == conn.transport \in {"WebSockets", "ServerSentEvents"} /\ StartSettled

Receive ==
    /\ Quiet /\ Streaming
    /\ \E records \in Chunks : Become(MessageArrives(Client, records))

TransportCloses ==
    /\ Quiet /\ Streaming
    /\ Become(StopConnection(Client))

ServerTimeout ==
    /\ Quiet /\ hub.timer
    /\ Become(HttpStop([Client EXCEPT !.hub.timer = FALSE]))

PingTimer ==
    /\ Quiet /\ hub.ping = "armed"
    /\ Become(PingFires(Client))

\* A ping of the timer ends; a failure clears the timer that is set now.
PingEnds ==
    /\ Quiet /\ hub.pinging
    /\ \/ Become([Client EXCEPT !.hub.pinging = FALSE])
       \/ Become([CleanupPingTimer(Client) EXCEPT !.hub.pinging = FALSE])

DelayElapses ==
    /\ Quiet /\ hub.delay
    /\ Become(ReconnectAttempt(Client))

\* The page starts the connection again, once an attempt it stopped has come to its end.
PageStarts ==
    /\ Quiet /\ hub.state = "Disconnected" /\ hub.start = "none"
    /\ Become(HubStart(Client))

PageStops ==
    /\ Quiet /\ hub.state \notin {"Disconnected", "Disconnecting"}
    /\ Become(HubStop(Client))

Continuation ==
    \/ HttpStarted \/ HttpStartFailed \/ HandshakeSent \/ HandshakeAnswered \/ PingSent
    \/ SendFailed \/ StartStopped \/ HttpStartStopped \/ HttpStopTransport \/ SendDelete
    \/ TransportStopped \/ HttpStopped
RequestEnds ==
    \/ NegotiateEnds \/ TransportConnects \/ TransportFailsToConnect \/ SendEnds
    \/ PollHeaders \/ PollAnswered \/ PollTimesOut \/ PollFails \/ DeleteEnds
Next ==
    \/ Continuation \/ RequestEnds
    \/ Receive \/ TransportCloses \/ ServerTimeout \/ PingTimer \/ PingEnds
    \/ DelayElapses \/ PageStarts \/ PageStops

\* The browser runs every continuation and every timer; each request and connect() ends, by an
\* answer, its timeout (100 s) or the network.  Nothing is assumed of the server's messages.
Fairness ==
    /\ WF_vars(Continuation) /\ WF_vars(NegotiateEnds) /\ WF_vars(SendEnds)
    /\ WF_vars(TransportConnects \/ TransportFailsToConnect)
    /\ WF_vars(PollHeaders \/ PollAnswered \/ PollTimesOut \/ PollFails)
    /\ WF_vars(DeleteEnds) /\ WF_vars(ServerTimeout) /\ WF_vars(DelayElapses)

Spec == Init /\ [][Next]_vars /\ Fairness

-----------------------------------------------------------------------------
(* Properties *)

HubStates == {"Disconnected", "Connecting", "Connected", "Disconnecting", "Reconnecting"}

\* What is left of a server's offer when the first endpoints have been tried
Endpoints == {<< >>} \cup UNION {{SubSeq(o, i, Len(o)) : i \in 1..Len(o) + 1} : o \in Offers}

Conns == [fetch : BOOLEAN, state : HubStates \ {"Reconnecting"}, started : BOOLEAN,
          transport : Transports \cup {"none"}, inherentKeepAlive : BOOLEAN,
          start : {"none", "negotiating", "connecting", "renegotiating", "awaitStop"},
          result : {"none", "ok", "fail"}, endpoints : Endpoints,
          redirects : 0..MAX_REDIRECTS - 1,
          stop : {"none", "awaitStart", "awaitPoll", "deleting", "stopped", "awaitPromise"},
          stopPromise : {"pending", "resolved"}, stopThrew : BOOLEAN,
          post : {"none", "pending", "ok", "fail"},
          running : BOOLEAN, aborted : BOOLEAN, poll : Requests]

Hubs == [state : HubStates, started : BOOLEAN,
         start : {"none", "http", "sent", "handshake", "ping", "stop"},
         reconnecting : BOOLEAN, received : BOOLEAN,
         handshake : {"pending", "resolved", "rejected"}, stopError : BOOLEAN,
         attempts : 0..10, delay : BOOLEAN, timer : BOOLEAN, leaked : Nat,
         ping : {"none", "armed", "fired"}, pinging : BOOLEAN,
         session : {"none", "open", "closed", "spurious"}, overtaken : BOOLEAN,
         retries : -1..10, restart : BOOLEAN, stopper : BOOLEAN]

\* Every field holds one of its values; the states are the two classes' state constants, and a
\* negotiation stops following redirections before MAX_REDIRECTS.
TypeOK == conn \in Conns /\ hub \in Hubs

\* serverTimeout() stops whatever connection the HttpConnection has when it fires.  So the handle
\* of a running server timer is never overwritten (_cleanupTimeout before every
\* _resetTimeoutPeriod), and between two turns of the event loop a timer runs only over the
\* connection it was set for.
TimerBelongsToLiveConnection ==
    /\ hub.leaked = 0
    /\ Quiet /\ hub.timer => conn.state \in {"Connected", "Disconnecting"}

\* An open hub over a transport without its own keep-alive always has a server timer running,
\* so a silent server is noticed (_resetTimeoutPeriod).
DeadServerNoticed ==
    Quiet /\ hub.state = "Connected" /\ conn.state = "Connected" /\ ~conn.inherentKeepAlive
        => hub.timer

\* The states of the two objects agree.  A hub that is Disconnected left no connection open under
\* it, however its start failed (the catch of _startInternal stops the connection before the
\* state changes); a hub is Connected over a closed connection only if its start was overtaken:
\* the connection closed while the POST of the first ping was in flight, after the check of
\* _stopDuringStartError.
StatesAgree ==
    Quiet =>
        /\ hub.state = "Disconnected" => conn.state = "Disconnected"
        /\ hub.state = "Connected" /\ conn.state = "Disconnected" => hub.overtaken

\* HttpConnection.send: "Transport will not be null if state is connected", for a server that
\* answers the poll that opens long polling with 200.
ConnectedHasTransport == conn.state = "Connected" => conn.transport # "none"

\* The comment of _connectionClosed: a close during a start fails the start.  So a hub that is
\* Connected has a connection.
ClosedStartFails == Quiet /\ hub.state = "Connected" => conn.state # "Disconnected"

\* A stop() during a start or a reconnect attempt is not undone: the hub does not become
\* Connected, unless only the first ping was left to send.
StoppedStaysStopped ==
    [][hub.state = "Disconnecting" /\ hub.start # "ping" => hub'.state # "Connected"]_vars

\* What a page sees of the client: see HubSession.
Session == INSTANCE HubSession WITH
    status <- CASE hub.session = "open" -> "open"
                [] hub.session # "open" /\ hub.state = "Disconnected" -> "idle"
                [] OTHER -> "starting",
    told <- hub.session # "open" /\ hub.session # "spurious"

\* The client implements HubSession: a session that a start() opened is reported closed at most
\* once by _completeClose before another one opens, and a start that failed is never reported as
\* closed.  That the report comes is no part of it: a safety property.
ImplementsSession == Session!SessionSpec

\* stop() and a close message come to an end, unless the start was overtaken by a close or an
\* onreconnecting callback called stop(): the hub then stays in Disconnecting, where start() is
\* refused (line 1609 is not caught here).  It rests on FirstPoll = {200}: after a first poll of
\* another 2xx status there is no transport whose close stop() could wait for, and it hangs.
StopSettles ==
    hub.state = "Disconnecting" ~>
        (hub.state # "Disconnecting" \/ hub.overtaken \/ hub.stopper)

\* start() and a reconnect attempt come to an end though the server may never answer the
\* handshake: the server timeout ends the wait.  Long polling has no such timeout, and after a
\* first poll of a 2xx status other than 200, which FirstPoll = {200} rules out, start() hangs.
StartSettles ==
    hub.start # "none" ~> (hub.start = "none" \/ conn.inherentKeepAlive)
=============================================================================

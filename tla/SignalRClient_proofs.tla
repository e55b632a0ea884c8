------------------------ MODULE SignalRClient_proofs ------------------------
(***************************************************************************)
(* Proofs about SignalRClient, for any offers, chunks and pages.             *)
(***************************************************************************)
EXTENDS SignalRClient, SequenceTheorems, WellFoundedInduction, TLAPS

-----------------------------------------------------------------------------
(* The inductive invariant, of a connection c and a hub h *)

\* HttpConnection.state against the awaits of start() and stop().  A second start() can be
\* under way before the last stop() has returned (its promise is resolved, its continuation
\* is not run yet), but never before that stop() has let go of the transport.
StateInv(c) ==
    /\ c.state = "Disconnected" =>
           c.transport = "none" /\ ~c.started /\ c.start \in {"none", "awaitStop"}
    /\ c.state = "Connecting" =>
           /\ c.start \in {"negotiating", "connecting", "renegotiating"}
           /\ c.stop \in {"none", "stopped", "awaitPromise"}
    /\ c.state = "Connected" => c.started /\ c.stop = "none" /\ ~c.aborted
    /\ c.state = "Disconnecting" =>
           c.stop \in {"awaitStart", "awaitPoll", "deleting", "awaitPromise"}
    /\ c.state = "Disconnecting" <=> c.stopPromise = "pending"
    /\ c.started => c.start = "none"
    /\ c.result = "ok" => c.state = "Connected"
    /\ c.result = "fail" => c.start = "none"

\* The transport against start(), stop() and the request that is in flight.
TransportInv(c) ==
    /\ c.start = "negotiating" => c.transport = "none"
    /\ c.start \in {"connecting", "renegotiating"} =>
           c.transport # "none" /\ ~c.aborted /\ c.stop \in {"none", "awaitStart"}
    /\ c.stop = "awaitPoll" => c.transport = "LongPolling" /\ c.aborted
    /\ c.stop = "deleting" => c.transport = "LongPolling" /\ c.poll.phase = "idle"
    /\ c.stop = "awaitPromise" => c.transport = "none"
    /\ c.post = "ok" => c.stop \in {"none", "awaitPoll", "deleting"}
    /\ c.post = "pending" /\ c.transport = "WebSockets" => c.stop = "none"
    /\ c.post \in {"ok", "pending"} /\ c.transport = "none" => c.state = "Disconnected"

\* The loop of the long-polling transport.
PollInv(c) ==
    /\ c.poll.phase \in {"idle", "fetching", "body"}
    /\ c.poll.phase # "idle" => c.transport = "LongPolling"
    /\ c.poll.phase = "fetching" => c.poll.onabort /\ c.running
    /\ c.running => /\ c.transport = "LongPolling" /\ c.start \in {"none", "awaitStop"}
                    /\ c.stop \in {"none", "awaitStart"}
    /\ c.transport = "LongPolling" /\ c.state = "Connected" => c.running
    /\ c.transport = "LongPolling" /\ ~c.inherentKeepAlive =>
           c.start \in {"connecting", "renegotiating"}

\* HubConnection.state against the session start() opened and the attempt under way.
HubInv(h) ==
    /\ h.leaked = 0
    /\ IF h.started THEN h.session = "open" ELSE h.session \in {"none", "closed"}
    /\ h.started /\ ~h.reconnecting => h.start = "none"
    /\ h.reconnecting => h.retries >= 0
    /\ h.restart => h.retries = -1
    /\ h.state = "Disconnected" => ~h.started /\ (h.reconnecting \/ h.start = "none")
    /\ h.state = "Connecting" => ~h.reconnecting
    /\ h.state = "Connected" => h.start = "none"
    /\ h.state = "Disconnecting" => h.stopError
    /\ h.state = "Reconnecting" => h.started /\ h.retries >= 0
    /\ h.delay => h.state = "Reconnecting" /\ h.start = "none"
    /\ h.start = "ping" => h.received

\* The two objects together: where each state of the one leaves the other.
StatesInv(c, h) ==
    /\ h.state = "Disconnected" \/ h.delay => c.state = "Disconnected"
    /\ h.state = "Disconnecting" \/ h.start = "stop" \/ h.handshake = "rejected" =>
           c.state \in {"Disconnected", "Disconnecting"}
    /\ h.state = "Connected" /\ (c.state = "Disconnected" \/ ~h.started) => c.stop = "none"
    /\ h.state = "Connected" /\ c.state = "Disconnected" => h.overtaken
    /\ c.state = "Connected" /\ ~h.started => h.state = "Connecting"
    /\ c.state = "Connecting" => h.start = "http"
    /\ c.state = "Disconnecting" /\ ~c.started => h.start = "http"
    /\ c.state = "Disconnected" /\ h.start \notin {"none", "http"} =>
           h.stopError /\ h.handshake # "pending"
    /\ ~h.received /\ h.handshake = "resolved" => c.state = "Disconnected"

\* The start of the hub against the start of its connection.
StartInv(c, h) ==
    /\ c.start = "awaitStop" \/ c.result = "ok" => h.start = "http"
    /\ h.start = "http" /\ c.start = "none" => c.state \in {"Connected", "Disconnected"}
    /\ h.start = "http" /\ c.state = "Connected" => c.result = "ok"
    /\ h.start = "http" => c.poll.phase \in {"idle", "fetching"}
    /\ h.start \notin {"sent", "ping"} => c.post = "none"
    /\ h.start = "ping" => c.transport # "LongPolling"
    /\ c.stop = "awaitStart" => h.handshake # "rejected"

\* The timers of the hub run over the connection they were set for.
TimersInv(c, h) ==
    /\ c.inherentKeepAlive \/ h.start = "http" => ~h.timer
    /\ c.transport = "none" /\ h.timer => h.start = "handshake"
    /\ c.transport = "none" /\ h.start = "handshake" => c.state = "Disconnected"
    /\ c.transport \in {"none", "LongPolling"} \/ h.start = "http" => h.ping = "none"
    /\ c.state = "Connected" /\ h.start = "ping" => h.timer
    /\ c.state = "Connected" /\ h.start = "handshake" /\ ~c.inherentKeepAlive => h.timer
    /\ c.state = "Connected" /\ h.state = "Connected" /\ ~c.inherentKeepAlive => h.timer

\* The first poll of a server that answers it with 200.
FirstPollInv(c) ==
    FirstPoll \subseteq {200} /\ c.state = "Connected" => c.transport # "none"

ClientInv(c, h) ==
    /\ StateInv(c) /\ TransportInv(c) /\ PollInv(c) /\ HubInv(h)
    /\ StatesInv(c, h) /\ StartInv(c, h) /\ TimersInv(c, h) /\ FirstPollInv(c)

Inv == TypeOK /\ ClientInv(conn, hub)

-----------------------------------------------------------------------------
(* What the calls do to the two records *)

IsClient(w) == DOMAIN w = {"conn", "hub"} /\ w.conn \in Conns /\ w.hub \in Hubs

\* stop() up to its first await, of a connection c
Stopping(c) ==
    IF c.state \in {"Disconnected", "Disconnecting"} THEN c
    ELSE [c EXCEPT !.state = "Disconnecting", !.stopPromise = "pending",
                   !.stop = "awaitStart"]

\* start() up to its first await
Negotiating(c) ==
    IF c.state # "Disconnected" THEN [c EXCEPT !.result = "fail"]
    ELSE [c EXCEPT !.state = "Connecting", !.start = "negotiating", !.result = "none",
                   !.redirects = 0]

StartCaught(c) ==
    [c EXCEPT !.state = "Disconnected", !.transport = "none", !.stopPromise = "resolved",
              !.start = "none", !.result = "fail"]

\* The hub in a new attempt
Attempting(h) ==
    [h EXCEPT !.stopError = FALSE, !.received = FALSE, !.handshake = "pending",
              !.start = "http"]

\* The hub after the onclose callbacks, and when one of them has started it again
Closed(h) ==
    [h EXCEPT !.state = "Disconnected", !.started = FALSE, !.session = Reported(@)]
Restarted(h) == Attempting([Closed(h) EXCEPT !.state = "Connecting", !.reconnecting = FALSE])

NoTimers(h) == [h EXCEPT !.timer = FALSE, !.ping = "none"]

\* _completeClose takes <<c, h>> to <<d, k>>.
Completes(c, h, d, k) ==
    \/ ~h.started /\ d = c /\ k = h
    \/ h.started /\ ~h.restart /\ d = c /\ k = Closed(h)
    \/ h.started /\ h.restart /\ d = Negotiating(c) /\ k = Restarted(h)

\* stop() of the hub takes <<c, h>> to <<d, k>>.
HubStops(c, h, d, k) ==
    \/ h.state \in {"Disconnected", "Disconnecting"} /\ d = c /\ k = h
    \/ /\ h.state \notin {"Disconnected", "Disconnecting"} /\ h.delay
       /\ Completes(c, [h EXCEPT !.state = "Disconnecting", !.delay = FALSE], d, k)
    \/ /\ h.state \notin {"Disconnected", "Disconnecting"} /\ ~h.delay
       /\ d = Stopping(c)
       /\ k = [NoTimers([h EXCEPT !.state = "Disconnecting"]) EXCEPT !.stopError = TRUE]

\* The hub when its connection has closed
Dropped(h) ==
    NoTimers([h EXCEPT !.stopError = TRUE,
                       !.handshake = IF @ = "pending" THEN "resolved" ELSE @])

\* _reconnect takes <<c, h>> to <<d, k>>.
Reconnecting(h) == [h EXCEPT !.attempts = 0, !.state = "Reconnecting", !.attempts = 1]
Reconnects(c, h, d, k) ==
    \/ h.retries <= 0 /\ Completes(c, h, d, k)
    \/ h.retries > 0 /\ ~h.stopper /\ d = c /\ k = [Reconnecting(h) EXCEPT !.delay = TRUE]
    \/ h.retries > 0 /\ h.stopper /\ HubStops(c, Reconnecting(h), d, k)

\* _connectionClosed takes <<c, h>> to <<d, k>>.
Closes(c, h, d, k) ==
    \/ h.state = "Disconnecting" /\ Completes(c, Dropped(h), d, k)
    \/ h.state = "Connected" /\ h.retries >= 0 /\ Reconnects(c, Dropped(h), d, k)
    \/ h.state = "Connected" /\ h.retries < 0 /\ Completes(c, Dropped(h), d, k)
    \/ h.state \notin {"Disconnecting", "Connected"} /\ d = c /\ k = Dropped(h)

\* _stopConnection takes <<c, h>> to <<d, k>>.
NoTransport(c) == [c EXCEPT !.transport = "none"]
Ended(c) ==
    [NoTransport(c) EXCEPT !.state = "Disconnected", !.started = FALSE,
                           !.stopPromise = "resolved"]
Stops(c, h, d, k) ==
    \/ c.state \in {"Disconnected", "Connecting"} /\ d = NoTransport(c) /\ k = h
    \/ c.state \notin {"Disconnected", "Connecting"} /\ c.started /\ Closes(Ended(c), h, d, k)
    \/ c.state \notin {"Disconnected", "Connecting"} /\ ~c.started /\ d = Ended(c) /\ k = h

\* An attempt to start comes to its end.
Over(c) == [c EXCEPT !.result = "none", !.post = "none"]
StartFails(c, h, d, k) ==
    \/ ~h.reconnecting /\ d = Over(c) /\ k = [h EXCEPT !.start = "none", !.state = "Disconnected"]
    \/ /\ h.reconnecting /\ h.state = "Reconnecting" /\ h.attempts < h.retries
       /\ d = Over(c)
       /\ k = [h EXCEPT !.start = "none", !.delay = TRUE, !.attempts = h.attempts + 1]
    \/ /\ h.reconnecting
       /\ \/ h.state = "Disconnecting"
          \/ h.state = "Reconnecting" /\ h.attempts >= h.retries
       /\ Completes(Over(c), [h EXCEPT !.start = "none"], d, k)
    \/ /\ h.reconnecting /\ h.state \notin {"Disconnecting", "Reconnecting"}
       /\ d = Over(c) /\ k = [h EXCEPT !.start = "none"]

StartSucceeds(c, h, d, k) ==
    /\ d = Over(c)
    /\ \E overtaken \in BOOLEAN :
          LET g == [h EXCEPT !.start = "none", !.state = "Connected", !.overtaken = overtaken]
          IN  /\ overtaken = (h.overtaken \/ c.state = "Disconnected")
              /\ k = IF h.reconnecting THEN g ELSE [g EXCEPT !.started = TRUE, !.session = "open"]

\* send() and the two resets of the timers
Sending(c) ==
    [c EXCEPT !.post =
        IF c.state = "Connected" /\ c.transport # "none" THEN "pending" ELSE "fail"]
KeptAlive(c, h) == IF c.inherentKeepAlive THEN h ELSE [h EXCEPT !.ping = "none"]
TimeoutReset(c, h) ==
    IF c.inherentKeepAlive THEN h
    ELSE [h EXCEPT !.leaked = IF h.timer THEN @ + 1 ELSE @, !.timer = TRUE,
                   !.ping = IF @ = "none" THEN "armed" ELSE @]

HandshakeFails(c, h, d, k) ==
    d = Stopping([c EXCEPT !.post = "none"]) /\ k = [NoTimers(h) EXCEPT !.start = "stop"]

HandshakeSettles(c, h, d, k) ==
    \/ (h.handshake = "rejected" \/ h.stopError) /\ HandshakeFails(c, h, d, k)
    \/ /\ h.handshake # "rejected" /\ ~h.stopError /\ c.inherentKeepAlive
       /\ StartSucceeds(c, h, d, k)
    \/ /\ h.handshake # "rejected" /\ ~h.stopError /\ ~c.inherentKeepAlive
       /\ d = Sending(c) /\ k = KeptAlive(c, [h EXCEPT !.start = "ping"])

\* The types of the records the calls make
LEMMA ConnTypes ==
    ASSUME NEW c \in Conns
    PROVE  /\ Stopping(c) \in Conns /\ Negotiating(c) \in Conns /\ StartCaught(c) \in Conns
           /\ NoTransport(c) \in Conns /\ Ended(c) \in Conns
  <1>1. /\ "Disconnected" \in HubStates \ {"Reconnecting"}
        /\ "Connecting" \in HubStates \ {"Reconnecting"}
        /\ "Disconnecting" \in HubStates \ {"Reconnecting"}
        /\ "none" \in Transports \cup {"none"} /\ 0 \in 0..MAX_REDIRECTS - 1
    BY RedirectsAssumption DEF HubStates
  <1>2. [c EXCEPT !.state = "Disconnecting", !.stopPromise = "pending", !.stop = "awaitStart"]
            \in Conns
    BY <1>1, ZenonT(40) DEF Conns
  <1>3. /\ [c EXCEPT !.result = "fail"] \in Conns
        /\ [c EXCEPT !.state = "Connecting", !.start = "negotiating", !.result = "none",
                     !.redirects = 0] \in Conns
    BY <1>1, ZenonT(40) DEF Conns
  <1>4. StartCaught(c) \in Conns
    BY <1>1, ZenonT(40) DEF Conns, StartCaught
  <1>5. NoTransport(c) \in Conns /\ Ended(c) \in Conns
    BY <1>1, ZenonT(40) DEF Conns, NoTransport, Ended
  <1> QED BY <1>2, <1>3, <1>4, <1>5 DEF Stopping, Negotiating

\* The same, of the hub
LEMMA HubTypes ==
    ASSUME NEW h \in Hubs
    PROVE  /\ Attempting(h) \in Hubs /\ Closed(h) \in Hubs /\ NoTimers(h) \in Hubs
           /\ Dropped(h) \in Hubs /\ Reconnecting(h) \in Hubs
           /\ [h EXCEPT !.attempts = 0] \in Hubs
           /\ \A s \in HubStates : [h EXCEPT !.state = s] \in Hubs
           /\ \A b \in BOOLEAN : /\ [h EXCEPT !.reconnecting = b] \in Hubs
                                 /\ [h EXCEPT !.stopError = b] \in Hubs
                                 /\ [h EXCEPT !.delay = b] \in Hubs
  <1>1. Reported(h.session) \in {"none", "open", "closed", "spurious"}
        /\ "Disconnected" \in HubStates
    BY DEF Reported, HubStates
  <1>2. Closed(h) \in Hubs
    BY <1>1, ZenonT(40) DEF Hubs, Closed
  <1>3. Attempting(h) \in Hubs /\ NoTimers(h) \in Hubs
    BY ZenonT(40) DEF Hubs, Attempting, NoTimers
  <1>4. \A s \in HubStates : [h EXCEPT !.state = s] \in Hubs
    BY ZenonT(40) DEF Hubs
  <1>5. \A b \in BOOLEAN : /\ [h EXCEPT !.reconnecting = b] \in Hubs
                           /\ [h EXCEPT !.stopError = b] \in Hubs
                           /\ [h EXCEPT !.delay = b] \in Hubs
    BY ZenonT(40) DEF Hubs
  <1>6. PICK x \in {"pending", "resolved", "rejected"} :
            x = IF h.handshake = "pending" THEN "resolved" ELSE h.handshake
    BY DEF Hubs
  <1>7. NoTimers([h EXCEPT !.stopError = TRUE, !.handshake = x]) \in Hubs
    BY ZenonT(40) DEF Hubs, NoTimers
  <1>8. Dropped(h) \in Hubs
    BY <1>6, <1>7 DEF Dropped
  <1>9. 0 \in 0..10 /\ 1 \in 0..10 /\ "Reconnecting" \in HubStates
    BY DEF HubStates
  <1>10. Reconnecting(h) \in Hubs /\ [h EXCEPT !.attempts = 0] \in Hubs
    BY <1>9, ZenonT(40) DEF Hubs, Reconnecting
  <1> QED BY <1>2, <1>3, <1>4, <1>5, <1>8, <1>10

\* The client of a state is a client.
LEMMA ClientIs == TypeOK => IsClient(Client) /\ Client.conn = conn /\ Client.hub = hub
  BY DEF IsClient, Client, TypeOK

\* stop() of the connection, up to its first await
LEMMA HttpStopCall ==
    ASSUME NEW w, IsClient(w)
    PROVE  /\ IsClient(HttpStop(w))
           /\ HttpStop(w).conn = Stopping(w.conn) /\ HttpStop(w).hub = w.hub
  BY ConnTypes DEF IsClient, HttpStop, Stopping

\* The catch of _startInternal of the connection
LEMMA StartCatchCall ==
    ASSUME NEW w, IsClient(w)
    PROVE  /\ IsClient(StartCatch(w))
           /\ StartCatch(w).conn = StartCaught(w.conn) /\ StartCatch(w).hub = w.hub
  BY ConnTypes DEF IsClient, StartCatch, StartCaught

\* _startInternal of the hub, up to `await this.connection.start'
LEMMA StartInternalCall ==
    ASSUME NEW w, IsClient(w)
    PROVE  /\ IsClient(StartInternal(w))
           /\ StartInternal(w).conn = Negotiating(w.conn)
           /\ StartInternal(w).hub = Attempting(w.hub)
  BY ConnTypes, HubTypes DEF IsClient, StartInternal, HttpStart, Negotiating, Attempting

\* _cleanupTimeout and _cleanupPingTimer
LEMMA CleanupTimersCall ==
    ASSUME NEW w, IsClient(w)
    PROVE  /\ IsClient(CleanupTimers(w))
           /\ CleanupTimers(w).conn = w.conn /\ CleanupTimers(w).hub = NoTimers(w.hub)
  BY HubTypes DEF IsClient, CleanupTimers, CleanupTimeout, CleanupPingTimer, NoTimers

\* start() of a hub that is Disconnected
LEMMA HubStartCall ==
    ASSUME NEW w, IsClient(w), w.hub.state = "Disconnected"
    PROVE  /\ IsClient(HubStart(w))
           /\ HubStart(w).conn = Negotiating(w.conn)
           /\ HubStart(w).hub =
                  Attempting([w.hub EXCEPT !.state = "Connecting", !.reconnecting = FALSE])
  <1> DEFINE v == [w EXCEPT !.hub.state = "Connecting", !.hub.reconnecting = FALSE]
             k == [w.hub EXCEPT !.state = "Connecting", !.reconnecting = FALSE]
  <1>1. k \in Hubs
    BY ZenonT(40) DEF Hubs, HubStates, IsClient
  <1>2. IsClient(v) /\ v.conn = w.conn /\ v.hub = k
    BY <1>1 DEF IsClient
  <1>3. HubStart(w) = StartInternal(v)
    BY DEF HubStart
  <1> HIDE DEF v
  <1> QED BY <1>2, <1>3, StartInternalCall

\* _completeClose with the onclose callbacks
LEMMA CompleteCloseCall ==
    ASSUME NEW w, IsClient(w)
    PROVE  /\ IsClient(CompleteClose(w))
           /\ Completes(w.conn, w.hub, CompleteClose(w).conn, CompleteClose(w).hub)
  <1> DEFINE v == [w EXCEPT !.hub.state = "Disconnected", !.hub.started = FALSE,
                            !.hub.session = Reported(@)]
  <1>1. CASE ~w.hub.started
    BY <1>1 DEF CompleteClose, Completes
  <1>2. IsClient(v) /\ v.conn = w.conn /\ v.hub = Closed(w.hub)
    BY HubTypes DEF IsClient, Closed
  <1>3. v.hub.state = "Disconnected" /\ v.hub.restart = w.hub.restart
    <2>1. Closed(w.hub).state = "Disconnected" /\ Closed(w.hub).restart = w.hub.restart
      BY DEF Closed, Hubs, IsClient
    <2> HIDE DEF v
    <2> QED BY <1>2, <2>1
  <1>4. CASE w.hub.started /\ ~w.hub.restart
    <2>1. CompleteClose(w) = v
      BY <1>3, <1>4 DEF CompleteClose
    <2> QED BY <1>2, <1>4, <2>1 DEF Completes
  <1>5. CASE w.hub.started /\ w.hub.restart
    <2>1. CompleteClose(w) = HubStart(v)
      BY <1>3, <1>5 DEF CompleteClose
    <2> HIDE DEF v
    <2>2. /\ IsClient(HubStart(v)) /\ HubStart(v).conn = Negotiating(w.conn)
          /\ HubStart(v).hub = Restarted(w.hub)
      BY <1>2, <1>3, HubStartCall DEF Restarted
    <2> QED BY <1>5, <2>1, <2>2 DEF Completes
  <1> QED BY <1>1, <1>4, <1>5

\* _stopInternal of the hub
LEMMA HubStopCall ==
    ASSUME NEW w, IsClient(w)
    PROVE  /\ IsClient(HubStop(w))
           /\ HubStops(w.conn, w.hub, HubStop(w).conn, HubStop(w).hub)
  <1> DEFINE v == [w EXCEPT !.hub.state = "Disconnecting"]
             k == [w.hub EXCEPT !.state = "Disconnecting"]
             u == [v EXCEPT !.hub.delay = FALSE]
             t == [CleanupTimers(v) EXCEPT !.hub.stopError = TRUE]
  <1>1. k \in Hubs
    BY HubTypes DEF HubStates, IsClient
  <1>2. IsClient(v) /\ v.conn = w.conn /\ v.hub = k
    BY <1>1 DEF IsClient
  <1>3. CASE w.hub.state \in {"Disconnected", "Disconnecting"}
    BY <1>3 DEF HubStop, HubStops
  <1>4. CASE w.hub.state \notin {"Disconnected", "Disconnecting"} /\ w.hub.delay
    <2>1. HubStop(w) = CompleteClose(u)
      BY <1>4 DEF HubStop
    <2> HIDE DEF v
    <2>2. [k EXCEPT !.delay = FALSE] \in Hubs
      BY <1>1, HubTypes
    <2>3. IsClient(u) /\ u.conn = w.conn /\ u.hub = [k EXCEPT !.delay = FALSE]
      BY <1>2, <2>2 DEF IsClient
    <2> HIDE DEF u
    <2> QED BY <1>4, <2>1, <2>3, CompleteCloseCall DEF HubStops
  <1>5. CASE w.hub.state \notin {"Disconnected", "Disconnecting"} /\ ~w.hub.delay
    <2>1. HubStop(w) = HttpStop(t)
      BY <1>5 DEF HubStop
    <2> HIDE DEF v, k
    <2>2. /\ IsClient(CleanupTimers(v)) /\ CleanupTimers(v).conn = w.conn
          /\ CleanupTimers(v).hub = NoTimers(k)
      BY <1>2, CleanupTimersCall
    <2>3. [NoTimers(k) EXCEPT !.stopError = TRUE] \in Hubs
      BY <1>1, HubTypes
    <2>4. IsClient(t) /\ t.conn = w.conn /\ t.hub = [NoTimers(k) EXCEPT !.stopError = TRUE]
      BY <2>2, <2>3 DEF IsClient
    <2> HIDE DEF t
    <2>5. /\ IsClient(HubStop(w)) /\ HubStop(w).conn = Stopping(w.conn)
          /\ HubStop(w).hub = [NoTimers(k) EXCEPT !.stopError = TRUE]
      BY <2>1, <2>4, HttpStopCall
    <2> QED BY <1>5, <2>5 DEF HubStops, k
  <1> QED BY <1>3, <1>4, <1>5

\* Neither stop() nor _completeClose leaves a hub Reconnecting.
LEMMA HubStopsLeaves ==
    ASSUME NEW c, NEW h \in Hubs, NEW d, NEW k, HubStops(c, h, d, k)
    PROVE  k.state # "Reconnecting"
  <1>1. CASE h.state \in {"Disconnected", "Disconnecting"} /\ k = h
    BY <1>1
  <1>2. CASE k = [NoTimers([h EXCEPT !.state = "Disconnecting"]) EXCEPT !.stopError = TRUE]
    BY <1>2 DEF Hubs, NoTimers
  <1>3. ASSUME NEW g \in Hubs, g.state = "Disconnecting", Completes(c, g, d, k)
        PROVE  k.state # "Reconnecting"
    BY <1>3, ZenonT(40) DEF Completes, Closed, Restarted, Attempting, Hubs
  <1>4. /\ [h EXCEPT !.state = "Disconnecting", !.delay = FALSE] \in Hubs
        /\ [h EXCEPT !.state = "Disconnecting", !.delay = FALSE].state = "Disconnecting"
    <2>1. "Disconnecting" \in HubStates
      BY DEF HubStates
    <2>2. [h EXCEPT !.state = "Disconnecting", !.delay = FALSE] \in Hubs
      BY <2>1, ZenonT(40) DEF Hubs
    <2> QED BY <2>2 DEF Hubs
  <1> QED BY <1>1, <1>2, <1>3, <1>4 DEF HubStops

\* _reconnect up to the first delay, with the onreconnecting callbacks
LEMMA ReconnectCall ==
    ASSUME NEW w, IsClient(w)
    PROVE  /\ IsClient(Reconnect(w))
           /\ Reconnects(w.conn, w.hub, Reconnect(w).conn, Reconnect(w).hub)
  <1> DEFINE first == [w EXCEPT !.hub.attempts = 0]
             v == [first EXCEPT !.hub.state = "Reconnecting", !.hub.attempts = 1]
             told == IF v.hub.stopper THEN HubStop(v) ELSE v
  <1>1. IsClient(v) /\ v.conn = w.conn /\ v.hub = Reconnecting(w.hub)
    BY HubTypes DEF IsClient, Reconnecting
  <1>2. v.hub.state = "Reconnecting" /\ v.hub.stopper = w.hub.stopper
    <2>1. /\ Reconnecting(w.hub).state = "Reconnecting"
          /\ Reconnecting(w.hub).stopper = w.hub.stopper
      BY DEF Reconnecting, Hubs, IsClient
    <2> HIDE DEF v
    <2> QED BY <1>1, <2>1
  <1>3. NextRetryDelay(first) <=> w.hub.retries > 0
    <2>1. first.hub = [w.hub EXCEPT !.attempts = 0]
      BY DEF IsClient
    <2>2. first.hub.attempts = 0 /\ first.hub.retries = w.hub.retries /\ w.hub.retries \in Int
      BY <2>1 DEF Hubs, IsClient
    <2> HIDE DEF first
    <2> QED BY <2>2 DEF NextRetryDelay
  <1>4. CASE ~(w.hub.retries > 0)
    <2>1. Reconnect(w) = CompleteClose(w)
      BY <1>3, <1>4 DEF Reconnect
    <2>2. w.hub.retries <= 0
      BY <1>4 DEF IsClient, Hubs
    <2> QED BY <2>1, <2>2, CompleteCloseCall DEF Reconnects
  <1>5. CASE w.hub.retries > 0 /\ w.hub.stopper
    <2>1. told = HubStop(v)
      BY <1>2, <1>5
    <2> HIDE DEF v
    <2>2. /\ IsClient(HubStop(v))
          /\ HubStops(w.conn, Reconnecting(w.hub), HubStop(v).conn, HubStop(v).hub)
      BY <1>1, HubStopCall
    <2>3. Reconnecting(w.hub) \in Hubs
      BY HubTypes DEF IsClient
    <2>4. told.hub.state # "Reconnecting"
      <3> HIDE DEF told
      <3> QED BY <2>1, <2>2, <2>3, HubStopsLeaves
    <2>5. Reconnect(w) = told
      <3> USE DEF v
      <3> QED BY <1>3, <1>5, <2>4 DEF Reconnect
    <2> HIDE DEF told
    <2> QED BY <1>5, <2>1, <2>2, <2>5 DEF Reconnects
  <1>6. CASE w.hub.retries > 0 /\ ~w.hub.stopper
    <2>1. told = v
      BY <1>2, <1>6
    <2>2. told.hub.state = "Reconnecting"
      BY <1>2, <2>1
    <2>3. Reconnect(w) = [told EXCEPT !.hub.delay = TRUE]
      BY <1>3, <1>6, <2>2 DEF Reconnect
    <2>4. [Reconnecting(w.hub) EXCEPT !.delay = TRUE] \in Hubs
      BY HubTypes DEF IsClient
    <2> HIDE DEF told, v
    <2>5. IsClient(Reconnect(w)) /\ Reconnect(w).conn = w.conn
          /\ Reconnect(w).hub = [Reconnecting(w.hub) EXCEPT !.delay = TRUE]
      BY <1>1, <2>1, <2>3, <2>4 DEF IsClient
    <2> QED BY <1>6, <2>5 DEF Reconnects
  <1> QED BY <1>4, <1>5, <1>6

\* _connectionClosed, which the connection calls when it has closed
LEMMA ConnectionClosedCall ==
    ASSUME NEW w, IsClient(w)
    PROVE  /\ IsClient(ConnectionClosed(w))
           /\ Closes(w.conn, w.hub, ConnectionClosed(w).conn, ConnectionClosed(w).hub)
  <1> DEFINE u == [w EXCEPT !.hub.stopError = TRUE,
                            !.hub.handshake = IF @ = "pending" THEN "resolved" ELSE @]
             v == CleanupTimers(u)
             g == [w.hub EXCEPT !.stopError = TRUE,
                                !.handshake = IF @ = "pending" THEN "resolved" ELSE @]
  <1>1. DOMAIN u = {"conn", "hub"} /\ u.conn = w.conn /\ u.hub = g
    BY DEF IsClient
  <1>2. v.conn = w.conn /\ v.hub = Dropped(w.hub) /\ DOMAIN v = {"conn", "hub"}
    <2> HIDE DEF u
    <2> QED BY <1>1 DEF CleanupTimers, CleanupTimeout, CleanupPingTimer, Dropped, NoTimers
  <1>3. IsClient(v)
    BY <1>2, HubTypes DEF IsClient
  <1>4. w.hub.state \in HubStates /\ w.hub.retries \in Int
    BY DEF IsClient, Hubs
  <1>5. ConnectionClosed(w) =
            CASE w.hub.state = "Disconnecting" -> CompleteClose(v)
              [] w.hub.state = "Connected" /\ w.hub.retries >= 0 -> Reconnect(v)
              [] w.hub.state = "Connected" /\ w.hub.retries < 0 -> CompleteClose(v)
              [] OTHER -> v
    BY DEF ConnectionClosed
  <1> HIDE DEF v
  <1>6. CASE \/ w.hub.state = "Disconnecting"
             \/ w.hub.state = "Connected" /\ w.hub.retries < 0
    <2>1. ConnectionClosed(w) = CompleteClose(v)
      BY <1>4, <1>5, <1>6
    <2> QED BY <1>2, <1>3, <1>6, <2>1, CompleteCloseCall DEF Closes
  <1>7. CASE w.hub.state = "Connected" /\ w.hub.retries >= 0
    <2>1. ConnectionClosed(w) = Reconnect(v)
      BY <1>4, <1>5, <1>7
    <2> QED BY <1>2, <1>3, <1>7, <2>1, ReconnectCall DEF Closes
  <1>8. CASE w.hub.state \notin {"Disconnecting", "Connected"}
    <2>1. ConnectionClosed(w) = v
      BY <1>5, <1>8
    <2> QED BY <1>2, <1>3, <1>8, <2>1 DEF Closes
  <1> QED BY <1>4, <1>6, <1>7, <1>8

\* _stopConnection of the connection
LEMMA StopConnectionCall ==
    ASSUME NEW w, IsClient(w)
    PROVE  /\ IsClient(StopConnection(w))
           /\ Stops(w.conn, w.hub, StopConnection(w).conn, StopConnection(w).hub)
  <1> DEFINE v == [w EXCEPT !.conn.transport = "none"]
             closed == [v EXCEPT !.conn.state = "Disconnected", !.conn.started = FALSE,
                                 !.conn.stopPromise = "resolved"]
  <1>1. IsClient(v) /\ v.conn = NoTransport(w.conn) /\ v.hub = w.hub
    BY ConnTypes DEF IsClient, NoTransport
  <1>2. IsClient(closed) /\ closed.conn = Ended(w.conn) /\ closed.hub = w.hub
    BY ConnTypes DEF IsClient, Ended, NoTransport
  <1>3. w.conn.state \in {"Disconnected", "Connecting", "Connected", "Disconnecting"}
    BY DEF IsClient, Conns, HubStates
  <1>4. StopConnection(w) =
            CASE w.conn.state \in {"Disconnected", "Connecting"} -> v
              [] w.conn.state \in {"Connected", "Disconnecting"} /\ w.conn.started ->
                     ConnectionClosed(closed)
              [] OTHER -> closed
    BY DEF StopConnection
  <1> HIDE DEF v, closed
  <1>5. CASE w.conn.state \in {"Disconnected", "Connecting"}
    BY <1>1, <1>4, <1>5 DEF Stops
  <1>6. CASE w.conn.state \notin {"Disconnected", "Connecting"} /\ w.conn.started
    <2>1. StopConnection(w) = ConnectionClosed(closed)
      BY <1>3, <1>4, <1>6
    <2> QED BY <1>2, <1>6, <2>1, ConnectionClosedCall DEF Stops
  <1>7. CASE w.conn.state \notin {"Disconnected", "Connecting"} /\ ~w.conn.started
    <2>1. StopConnection(w) = closed
      BY <1>3, <1>4, <1>7
    <2> QED BY <1>2, <1>7, <2>1 DEF Stops
  <1> QED BY <1>5, <1>6, <1>7

\* The types of the records that the ends of a start make
LEMMA OverTypes ==
    ASSUME NEW c \in Conns
    PROVE  Over(c) \in Conns /\ Sending(c) \in Conns /\ [c EXCEPT !.post = "none"] \in Conns
           /\ [c EXCEPT !.result = "none"] \in Conns
  <1>1. PICK p \in {"none", "pending", "ok", "fail"} :
            p = IF c.state = "Connected" /\ c.transport # "none" THEN "pending" ELSE "fail"
    OBVIOUS
  <1>2. [c EXCEPT !.post = p] \in Conns
    BY ZenonT(40) DEF Conns
  <1>3. Over(c) \in Conns /\ [c EXCEPT !.post = "none"] \in Conns
        /\ [c EXCEPT !.result = "none"] \in Conns
    BY ZenonT(40) DEF Conns, Over
  <1> QED BY <1>1, <1>2, <1>3 DEF Sending

\* The types of the records that the timers make
LEMMA TimerTypes ==
    ASSUME NEW c \in Conns, NEW h \in Hubs
    PROVE  /\ KeptAlive(c, h) \in Hubs /\ TimeoutReset(c, h) \in Hubs
           /\ [h EXCEPT !.timer = FALSE] \in Hubs
           /\ \A s \in {"none", "http", "sent", "handshake", "ping", "stop"} :
                  [h EXCEPT !.start = s] \in Hubs
  <1>1. PICK n \in Nat : n = IF h.timer THEN h.leaked + 1 ELSE h.leaked
    BY DEF Hubs
  <1>2. PICK p \in {"none", "armed", "fired"} : p = IF h.ping = "none" THEN "armed" ELSE h.ping
    BY DEF Hubs
  <1>3. [h EXCEPT !.leaked = n, !.timer = TRUE, !.ping = p] \in Hubs
    BY ZenonT(40) DEF Hubs
  <1>4. [h EXCEPT !.ping = "none"] \in Hubs /\ [h EXCEPT !.timer = FALSE] \in Hubs
    BY ZenonT(40) DEF Hubs
  <1>5. h.timer \in BOOLEAN /\ h.leaked \in Nat
    BY DEF Hubs
  <1>6. TimeoutReset(c, h) \in Hubs
    <2>1. [h EXCEPT !.leaked = IF h.timer THEN @ + 1 ELSE @, !.timer = TRUE,
                    !.ping = IF @ = "none" THEN "armed" ELSE @]
            = [h EXCEPT !.leaked = n, !.timer = TRUE, !.ping = p]
      <3>1. (IF h.timer THEN h.leaked + 1 ELSE h.leaked) = n
        BY <1>1
      <3>2. (IF h.ping = "none" THEN "armed" ELSE h.ping) = p
        BY <1>2
      <3>3. [h EXCEPT !.leaked = n].ping = h.ping /\ [h EXCEPT !.leaked = n, !.timer = TRUE].ping = h.ping
        BY DEF Hubs
      <3> QED BY <3>1, <3>2, <3>3
    <2> QED BY <1>3, <2>1 DEF TimeoutReset
  <1>7. \A s \in {"none", "http", "sent", "handshake", "ping", "stop"} :
            [h EXCEPT !.start = s] \in Hubs
    BY ZenonT(40) DEF Hubs
  <1> QED BY <1>4, <1>6, <1>7 DEF KeptAlive

\* A start of the hub that throws, of start() or of a reconnect attempt
LEMMA StartFailedCall ==
    ASSUME NEW w, IsClient(w)
    PROVE  /\ IsClient(StartFailed(w))
           /\ StartFails(w.conn, w.hub, StartFailed(w).conn, StartFailed(w).hub)
  <1> DEFINE v == [w EXCEPT !.hub.start = "none", !.conn.result = "none", !.conn.post = "none"]
             h == w.hub
  <1>1. /\ w.hub.state \in HubStates /\ w.hub.retries \in -1..10 /\ w.hub.attempts \in 0..10
        /\ w.hub.reconnecting \in BOOLEAN
    BY DEF IsClient, Hubs
  <1>2. [w.hub EXCEPT !.start = "none"] \in Hubs
    BY TimerTypes DEF IsClient
  <1>3. IsClient(v) /\ v.conn = Over(w.conn) /\ v.hub = [w.hub EXCEPT !.start = "none"]
    BY <1>2, OverTypes DEF IsClient, Over
  <1>4. StartFailed(w) =
            CASE ~w.hub.reconnecting -> [v EXCEPT !.hub.state = "Disconnected"]
              [] w.hub.reconnecting /\ w.hub.state = "Reconnecting" ->
                     IF NextRetryDelay(w)
                     THEN [v EXCEPT !.hub.delay = TRUE, !.hub.attempts = @ + 1]
                     ELSE CompleteClose(v)
              [] w.hub.reconnecting /\ w.hub.state = "Disconnecting" -> CompleteClose(v)
              [] OTHER -> v
    BY DEF StartFailed
  <1> HIDE DEF v
  <1>5. CASE ~w.hub.reconnecting
    <2>1. [w.hub EXCEPT !.start = "none", !.state = "Disconnected"] \in Hubs
      BY <1>2, HubTypes DEF HubStates
    <2>2. StartFailed(w) = [v EXCEPT !.hub.state = "Disconnected"]
      BY <1>4, <1>5
    <2> QED BY <1>3, <1>5, <2>1, <2>2 DEF StartFails, IsClient
  <1>6. CASE w.hub.reconnecting /\ w.hub.state = "Reconnecting" /\ w.hub.attempts < w.hub.retries
    <2>1. PICK n \in 0..10 : n = w.hub.attempts + 1
      BY <1>1, <1>6
    <2>2. [w.hub EXCEPT !.start = "none", !.delay = TRUE, !.attempts = n] \in Hubs
      BY ZenonT(40) DEF Hubs, IsClient
    <2>3. StartFailed(w) = [v EXCEPT !.hub.delay = TRUE, !.hub.attempts = @ + 1]
      BY <1>4, <1>6 DEF NextRetryDelay
    <2>4. [[w.hub EXCEPT !.start = "none"] EXCEPT !.delay = TRUE].attempts = w.hub.attempts
      BY DEF Hubs, IsClient
    <2>5. /\ StartFailed(w).hub = [w.hub EXCEPT !.start = "none", !.delay = TRUE, !.attempts = n]
          /\ StartFailed(w).conn = v.conn /\ DOMAIN StartFailed(w) = {"conn", "hub"}
      <3>1. /\ StartFailed(w).hub = [v.hub EXCEPT !.delay = TRUE, !.attempts = @ + 1]
            /\ StartFailed(w).conn = v.conn /\ DOMAIN StartFailed(w) = {"conn", "hub"}
        BY <1>3, <2>3 DEF IsClient
      <3> DEFINE g == [w.hub EXCEPT !.start = "none", !.delay = TRUE]
      <3>2. StartFailed(w).hub = [g EXCEPT !.attempts = g.attempts + 1]
        BY <1>3, <3>1
      <3> HIDE DEF g
      <3>3. StartFailed(w).hub = [g EXCEPT !.attempts = n]
        BY <2>1, <2>4, <3>2 DEF g
      <3> QED BY <3>1, <3>3 DEF g
    <2>6. IsClient(StartFailed(w))
      BY <1>3, <2>2, <2>5 DEF IsClient
    <2>7. StartFailed(w).hub = [w.hub EXCEPT !.start = "none", !.delay = TRUE,
                                             !.attempts = w.hub.attempts + 1]
      BY <2>1, <2>5
    <2> QED BY <1>3, <1>6, <2>5, <2>6, <2>7 DEF StartFails
  <1>7. CASE w.hub.reconnecting /\
             (\/ w.hub.state = "Disconnecting"
              \/ w.hub.state = "Reconnecting" /\ w.hub.attempts >= w.hub.retries)
    <2>1. StartFailed(w) = CompleteClose(v)
      BY <1>1, <1>4, <1>7 DEF NextRetryDelay
    <2> QED BY <1>3, <1>7, <2>1, CompleteCloseCall DEF StartFails
  <1>8. CASE w.hub.reconnecting /\ w.hub.state \notin {"Disconnecting", "Reconnecting"}
    <2>1. StartFailed(w) = v
      BY <1>4, <1>8
    <2> QED BY <1>3, <1>8, <2>1 DEF StartFails
  <1> QED BY <1>1, <1>5, <1>6, <1>7, <1>8

\* A start of the hub that returns
LEMMA StartSucceededCall ==
    ASSUME NEW w, IsClient(w)
    PROVE  /\ IsClient(StartSucceeded(w))
           /\ StartSucceeds(w.conn, w.hub, StartSucceeded(w).conn, StartSucceeded(w).hub)
  <1> DEFINE v == [w EXCEPT !.hub.start = "none", !.conn.result = "none", !.conn.post = "none",
                            !.hub.state = "Connected",
                            !.hub.overtaken = @ \/ w.conn.state = "Disconnected"]
             g(b) == [w.hub EXCEPT !.start = "none", !.state = "Connected", !.overtaken = b]
  <1>1. PICK b \in BOOLEAN : b = (w.hub.overtaken \/ w.conn.state = "Disconnected")
    OBVIOUS
  <1>2. [w.hub EXCEPT !.start = "none", !.state = "Connected"].overtaken = w.hub.overtaken
    BY DEF IsClient, Hubs
  <1>3. /\ g(b) \in Hubs /\ [g(b) EXCEPT !.started = TRUE, !.session = "open"] \in Hubs
    <2>1. "Connected" \in HubStates
      BY DEF HubStates
    <2> QED BY <2>1, ZenonT(40) DEF Hubs, IsClient
  <1>4. v.conn = Over(w.conn) /\ DOMAIN v = {"conn", "hub"}
    BY DEF IsClient, Over
  <1>5. v.hub = g(b)
    <2> DEFINE e == [w.hub EXCEPT !.start = "none", !.state = "Connected"]
    <2>1. v.hub = [e EXCEPT !.overtaken = e.overtaken \/ w.conn.state = "Disconnected"]
      BY DEF IsClient
    <2> HIDE DEF v, e
    <2>2. v.hub = [e EXCEPT !.overtaken = b]
      BY <1>1, <1>2, <2>1 DEF e
    <2> QED BY <2>2 DEF e
  <1>6. StartSucceeded(w) = IF w.hub.reconnecting THEN v
                            ELSE [v EXCEPT !.hub.started = TRUE, !.hub.session = "open"]
    BY DEF StartSucceeded
  <1> HIDE DEF v, g
  <1>7. CASE w.hub.reconnecting
    <2>1. IsClient(StartSucceeded(w)) /\ StartSucceeded(w).conn = Over(w.conn)
          /\ StartSucceeded(w).hub = g(b)
      BY <1>3, <1>4, <1>5, <1>6, <1>7, OverTypes DEF IsClient
    <2> QED BY <1>1, <1>7, <2>1 DEF StartSucceeds, g
  <1>8. CASE ~w.hub.reconnecting
    <2>1. IsClient(StartSucceeded(w)) /\ StartSucceeded(w).conn = Over(w.conn)
          /\ StartSucceeded(w).hub = [g(b) EXCEPT !.started = TRUE, !.session = "open"]
      BY <1>3, <1>4, <1>5, <1>6, <1>8, OverTypes DEF IsClient
    <2> QED BY <1>1, <1>8, <2>1 DEF StartSucceeds, g
  <1> QED BY <1>7, <1>8

\* The catch of _startInternal of the hub, up to `await this.connection.stop'
LEMMA HandshakeFailedCall ==
    ASSUME NEW w, IsClient(w)
    PROVE  /\ IsClient(HandshakeFailed(w))
           /\ HandshakeFails(w.conn, w.hub, HandshakeFailed(w).conn, HandshakeFailed(w).hub)
  <1> DEFINE u == [CleanupTimers(w) EXCEPT !.hub.start = "stop", !.conn.post = "none"]
  <1>1. [NoTimers(w.hub) EXCEPT !.start = "stop"] \in Hubs
    BY HubTypes, TimerTypes DEF IsClient
  <1>2. /\ IsClient(u) /\ u.conn = [w.conn EXCEPT !.post = "none"]
        /\ u.hub = [NoTimers(w.hub) EXCEPT !.start = "stop"]
    BY <1>1, CleanupTimersCall, OverTypes DEF IsClient
  <1>3. HandshakeFailed(w) = HttpStop(u)
    BY DEF HandshakeFailed
  <1> HIDE DEF u
  <1> QED BY <1>2, <1>3, HttpStopCall DEF HandshakeFails

\* _resetKeepAliveInterval cancels the ping that is armed.
LEMMA KeepAliveCall ==
    ASSUME NEW w, IsClient(w)
    PROVE  /\ IsClient(ResetKeepAliveInterval(w)) /\ ResetKeepAliveInterval(w).conn = w.conn
           /\ ResetKeepAliveInterval(w).hub = KeptAlive(w.conn, w.hub)
  <1>1. KeptAlive(w.conn, w.hub) \in Hubs
    BY TimerTypes DEF IsClient
  <1> QED BY <1>1 DEF IsClient, ResetKeepAliveInterval, CleanupPingTimer, KeptAlive

\* _resetTimeoutPeriod sets the server timeout, and arms the next ping.
LEMMA TimeoutCall ==
    ASSUME NEW w, IsClient(w)
    PROVE  /\ IsClient(ResetTimeoutPeriod(w)) /\ ResetTimeoutPeriod(w).conn = w.conn
           /\ ResetTimeoutPeriod(w).hub = TimeoutReset(w.conn, w.hub)
  <1>1. TimeoutReset(w.conn, w.hub) \in Hubs
    BY TimerTypes DEF IsClient
  <1>2. CASE w.conn.inherentKeepAlive
    BY <1>2 DEF ResetTimeoutPeriod, TimeoutReset
  <1>3. CASE ~w.conn.inherentKeepAlive
    <2>1. DOMAIN ResetTimeoutPeriod(w) = {"conn", "hub"} /\ ResetTimeoutPeriod(w).conn = w.conn
      BY <1>3 DEF ResetTimeoutPeriod, IsClient
    <2>2. ResetTimeoutPeriod(w).hub = TimeoutReset(w.conn, w.hub)
      BY <1>3 DEF ResetTimeoutPeriod, TimeoutReset, IsClient
    <2> QED BY <1>1, <2>1, <2>2 DEF IsClient
  <1> QED BY <1>2, <1>3

\* _cleanupTimeout
LEMMA CleanupTimeoutCall ==
    ASSUME NEW w, IsClient(w)
    PROVE  /\ IsClient(CleanupTimeout(w)) /\ CleanupTimeout(w).conn = w.conn
           /\ CleanupTimeout(w).hub = [w.hub EXCEPT !.timer = FALSE]
  BY TimerTypes DEF IsClient, CleanupTimeout

\* send() of the connection
LEMMA HttpSendCall ==
    ASSUME NEW w, IsClient(w)
    PROVE  /\ IsClient(HttpSend(w)) /\ HttpSend(w).conn = Sending(w.conn)
           /\ HttpSend(w).hub = w.hub
  <1>1. Sending(w.conn) \in Conns
    BY OverTypes DEF IsClient
  <1> QED BY <1>1 DEF IsClient, HttpSend, Sending

\* The handshake request of _startInternal
LEMMA SendHandshakeCall ==
    ASSUME NEW w, IsClient(w)
    PROVE  /\ IsClient(SendHandshake(w))
           /\ SendHandshake(w).conn = Sending([w.conn EXCEPT !.result = "none"])
           /\ SendHandshake(w).hub =
                  KeptAlive([w.conn EXCEPT !.result = "none"], [w.hub EXCEPT !.start = "sent"])
  <1> DEFINE u == [w EXCEPT !.hub.start = "sent", !.conn.result = "none"]
  <1>1. /\ IsClient(u) /\ u.conn = [w.conn EXCEPT !.result = "none"]
        /\ u.hub = [w.hub EXCEPT !.start = "sent"]
    BY OverTypes, TimerTypes DEF IsClient
  <1>2. SendHandshake(w) = HttpSend(ResetKeepAliveInterval(u))
    BY DEF SendHandshake
  <1> HIDE DEF u
  <1> DEFINE v == ResetKeepAliveInterval(u)
  <1>3. IsClient(v) /\ v.conn = u.conn /\ v.hub = KeptAlive(u.conn, u.hub)
    BY <1>1, KeepAliveCall
  <1> HIDE DEF v
  <1>4. IsClient(HttpSend(v)) /\ HttpSend(v).conn = Sending(v.conn) /\ HttpSend(v).hub = v.hub
    BY <1>3, HttpSendCall
  <1> QED BY <1>1, <1>2, <1>3, <1>4 DEF v

\* The timers of _startInternal, up to `await handshakePromise'
LEMMA AwaitHandshakeCall ==
    ASSUME NEW w, IsClient(w)
    PROVE  LET c == [w.conn EXCEPT !.post = "none"]
               h == [w.hub EXCEPT !.start = "handshake", !.timer = FALSE]
           IN  /\ IsClient(AwaitHandshake(w)) /\ AwaitHandshake(w).conn = c
               /\ AwaitHandshake(w).hub = KeptAlive(c, TimeoutReset(c, h))
  <1> DEFINE u == [w EXCEPT !.hub.start = "handshake", !.conn.post = "none"]
  <1>1. /\ IsClient(u) /\ u.conn = [w.conn EXCEPT !.post = "none"]
        /\ u.hub = [w.hub EXCEPT !.start = "handshake"]
    BY OverTypes, TimerTypes DEF IsClient
  <1>2. AwaitHandshake(w) = ResetKeepAliveInterval(ResetTimeoutPeriod(CleanupTimeout(u)))
    BY DEF AwaitHandshake
  <1> HIDE DEF u
  <1> DEFINE v == CleanupTimeout(u)
             x == ResetTimeoutPeriod(v)
             y == ResetKeepAliveInterval(x)
  <1>3. IsClient(v) /\ v.conn = u.conn /\ v.hub = [u.hub EXCEPT !.timer = FALSE]
    BY <1>1, CleanupTimeoutCall
  <1>4. AwaitHandshake(w) = y
    BY <1>2
  <1> HIDE DEF v
  <1>5. IsClient(x) /\ x.conn = v.conn /\ x.hub = TimeoutReset(v.conn, v.hub)
    BY <1>3, TimeoutCall
  <1> HIDE DEF x
  <1>6. IsClient(y) /\ y.conn = x.conn /\ y.hub = KeptAlive(x.conn, x.hub)
    BY <1>5, KeepAliveCall
  <1> HIDE DEF y
  <1> QED BY <1>1, <1>3, <1>4, <1>5, <1>6

\* _startInternal after the handshake promise
LEMMA HandshakeSettledCall ==
    ASSUME NEW w, IsClient(w)
    PROVE  /\ IsClient(HandshakeSettled(w))
           /\ HandshakeSettles(w.conn, w.hub, HandshakeSettled(w).conn, HandshakeSettled(w).hub)
  <1> DEFINE u == [w EXCEPT !.hub.start = "ping"]
  <1>1. IsClient(u) /\ u.conn = w.conn /\ u.hub = [w.hub EXCEPT !.start = "ping"]
    BY TimerTypes DEF IsClient
  <1>2. HandshakeSettled(w) =
            CASE w.hub.handshake = "rejected" \/ w.hub.stopError -> HandshakeFailed(w)
              [] w.hub.handshake # "rejected" /\ ~w.hub.stopError
                     /\ w.conn.inherentKeepAlive -> StartSucceeded(w)
              [] OTHER -> HttpSend(ResetKeepAliveInterval(u))
    BY DEF HandshakeSettled
  <1> HIDE DEF u
  <1>3. CASE w.hub.handshake = "rejected" \/ w.hub.stopError
    <2>1. HandshakeSettled(w) = HandshakeFailed(w)
      BY <1>2, <1>3
    <2> QED BY <1>3, <2>1, HandshakeFailedCall DEF HandshakeSettles
  <1>4. CASE w.hub.handshake # "rejected" /\ ~w.hub.stopError /\ w.conn.inherentKeepAlive
    <2>1. HandshakeSettled(w) = StartSucceeded(w)
      BY <1>2, <1>4
    <2> QED BY <1>4, <2>1, StartSucceededCall DEF HandshakeSettles
  <1>5. CASE w.hub.handshake # "rejected" /\ ~w.hub.stopError /\ ~w.conn.inherentKeepAlive
    <2> DEFINE v == ResetKeepAliveInterval(u)
    <2>1. HandshakeSettled(w) = HttpSend(v)
      BY <1>2, <1>5
    <2>2. IsClient(v) /\ v.conn = u.conn /\ v.hub = KeptAlive(u.conn, u.hub)
      BY <1>1, KeepAliveCall
    <2> HIDE DEF v
    <2>3. /\ IsClient(HttpSend(v)) /\ HttpSend(v).conn = Sending(v.conn)
          /\ HttpSend(v).hub = v.hub
      BY <2>2, HttpSendCall
    <2> QED BY <1>1, <1>5, <2>1, <2>2, <2>3 DEF HandshakeSettles
  <1> QED BY <1>3, <1>4, <1>5

\* _reconnect after its delay
LEMMA ReconnectAttemptCall ==
    ASSUME NEW w, IsClient(w), w.hub.state = "Reconnecting"
    PROVE  /\ IsClient(ReconnectAttempt(w))
           /\ ReconnectAttempt(w).conn = Negotiating(w.conn)
           /\ ReconnectAttempt(w).hub =
                  Attempting([w.hub EXCEPT !.delay = FALSE, !.reconnecting = TRUE])
  <1> DEFINE u == [[w EXCEPT !.hub.delay = FALSE] EXCEPT !.hub.reconnecting = TRUE]
  <1>1. [w.hub EXCEPT !.delay = FALSE, !.reconnecting = TRUE] \in Hubs
    BY ZenonT(40) DEF Hubs, IsClient
  <1>2. /\ IsClient(u) /\ u.conn = w.conn
        /\ u.hub = [w.hub EXCEPT !.delay = FALSE, !.reconnecting = TRUE]
    BY <1>1 DEF IsClient
  <1>3. ReconnectAttempt(w) = StartInternal(u)
    BY DEF ReconnectAttempt
  <1> HIDE DEF u
  <1> QED BY <1>2, <1>3, StartInternalCall

-----------------------------------------------------------------------------
(* Induction over the naturals *)

\* A set of naturals has a least element.
LEMMA NatLeast ==
    ASSUME NEW T \in SUBSET Nat, T # {}
    PROVE  \E n \in T : \A k \in T : n <= k
  <1> DEFINE less == OpToRel(<, Nat)
  <1>1. IsWellFoundedOn(less, Nat)
    BY NatLessThanWellFounded, Zenon
  <1>2. \A i, j \in Nat : i < j => <<i, j>> \in less
    BY DEF OpToRel
  <1> HIDE DEF less
  <1>3. PICK n \in T : \A k \in T : ~(<<k, n>> \in less)
    BY <1>1, WFMin
  <1>4. \A k \in T : ~(k < n)
    BY <1>2, <1>3
  <1> QED BY <1>3, <1>4

\* Induction, for a set instead of a predicate
LEMMA NatSetInduction ==
    ASSUME NEW T \in SUBSET Nat, 0 \in T, \A n \in T : n + 1 \in T
    PROVE  T = Nat
  <1> SUFFICES ASSUME Nat \ T # {} PROVE FALSE
    OBVIOUS
  <1>1. PICK n \in Nat \ T : \A k \in Nat \ T : n <= k
    BY NatLeast
  <1>2. n \in Nat /\ n # 0 /\ n - 1 \in Nat /\ ~(n <= n - 1)
    BY <1>1
  <1>3. n - 1 \in T
    BY <1>1, <1>2
  <1> QED BY <1>1, <1>3

-----------------------------------------------------------------------------
(* The choice of a transport *)

\* _createTransport takes c to d: no endpoint is usable, or the next one is tried.
Trying(c, start, transport, endpoints) ==
    [c EXCEPT !.transport = transport, !.start = start, !.endpoints = endpoints,
              !.running = FALSE, !.aborted = FALSE, !.poll = Idle]
Tries(c, start, d) ==
    \/ d = StartCaught(c)
    \/ \E t \in Transports, e \in Endpoints : d = Trying(c, start, t, e)

\* A suffix of a sequence
LEMMA SuffixIs ==
    ASSUME NEW S, NEW s \in Seq(S), NEW j \in Nat, j \in 1..Len(s) + 1
    PROVE  /\ SubSeq(s, j, Len(s)) \in Seq(S)
           /\ Len(SubSeq(s, j, Len(s))) = Len(s) + 1 - j
           /\ SubSeq(s, j, Len(s)) = [m \in 1..(Len(s) + 1 - j) |-> s[m + j - 1]]
  <1> DEFINE e == SubSeq(s, j, Len(s))
  <1>1. Len(s) \in Nat /\ \A i \in j..Len(s) : s[i] \in S
    OBVIOUS
  <1>2. e \in Seq(S) /\ Len(e) = IF j <= Len(s) THEN Len(s) - j + 1 ELSE 0
    BY <1>1, SubSeqProperties
  <1>3. \A i \in 1..(Len(s) - j + 1) : e[i] = s[j + i - 1]
    BY <1>1, SubSeqProperties
  <1> HIDE DEF e
  <1>4. Len(e) = Len(s) + 1 - j
    BY <1>1, <1>2
  <1>5. e = [m \in 1..(Len(s) + 1 - j) |-> e[m]]
    BY <1>2, <1>4
  <1>6. \A m \in 1..(Len(s) + 1 - j) : e[m] = s[m + j - 1]
    <2> TAKE m \in 1..(Len(s) + 1 - j)
    <2>1. j + m - 1 = m + j - 1 /\ m \in 1..(Len(s) - j + 1)
      BY <1>1
    <2> QED BY <1>3, <2>1
  <1> QED BY <1>2, <1>4, <1>5, <1>6 DEF e

\* What is left of what is left of an offer is left of the offer.
LEMMA EndpointsLeft ==
    ASSUME NEW e \in Endpoints, NEW i \in DOMAIN e
    PROVE  SubSeq(e, i + 1, Len(e)) \in Endpoints
  <1> DEFINE E == [transport : STRING, text : BOOLEAN]
  <1>1. e # << >>
    OBVIOUS
  <1>2. PICK o \in Offers : \E j \in 1..Len(o) + 1 : e = SubSeq(o, j, Len(o))
    BY <1>1 DEF Endpoints
  <1>3. PICK j \in 1..Len(o) + 1 : e = SubSeq(o, j, Len(o))
    BY <1>2
  <1>4. o \in Seq(E)
    BY OffersAssumption
  <1> HIDE DEF E
  <1>5. Len(o) \in Nat /\ j \in Nat
    BY <1>4, <1>3
  <1>6. /\ e \in Seq(E) /\ Len(e) = Len(o) + 1 - j
        /\ e = [m \in 1..(Len(o) + 1 - j) |-> o[m + j - 1]]
    BY <1>3, <1>4, <1>5, SuffixIs
  <1>7. i \in 1..(Len(o) + 1 - j)
    BY <1>6
  <1>8. /\ i + j \in Nat /\ i + j \in 1..Len(o) + 1
        /\ i + 1 \in Nat /\ i + 1 \in 1..Len(e) + 1
    BY <1>5, <1>6, <1>7
  <1>9. SubSeq(e, i + 1, Len(e)) = [m \in 1..(Len(e) + 1 - (i + 1)) |-> e[m + (i + 1) - 1]]
    BY <1>6, <1>8, SuffixIs
  <1>10. SubSeq(o, i + j, Len(o)) = [m \in 1..(Len(o) + 1 - (i + j)) |-> o[m + (i + j) - 1]]
    BY <1>4, <1>8, SuffixIs, SMTT(30)
  <1>11. 1..(Len(e) + 1 - (i + 1)) = 1..(Len(o) + 1 - (i + j))
    BY <1>5, <1>6, <1>7
  <1>12. \A m \in 1..(Len(e) + 1 - (i + 1)) : e[m + (i + 1) - 1] = o[m + (i + j) - 1]
    <2> TAKE m \in 1..(Len(e) + 1 - (i + 1))
    <2>1. /\ m + (i + 1) - 1 \in 1..(Len(o) + 1 - j)
          /\ (m + (i + 1) - 1) + j - 1 = m + (i + j) - 1
      BY <1>5, <1>6, <1>7
    <2> QED BY <1>6, <2>1
  <1>13. SubSeq(e, i + 1, Len(e)) = SubSeq(o, i + j, Len(o))
    BY <1>9, <1>10, <1>11, <1>12
  <1>14. SubSeq(o, i + j, Len(o)) \in {SubSeq(o, n, Len(o)) : n \in 1..Len(o) + 1}
    BY <1>8
  <1>15. SubSeq(o, i + j, Len(o)) \in Endpoints
    BY <1>14, SMTT(30) DEF Endpoints
  <1> QED BY <1>13, <1>15

\* An offer as the server made it
LEMMA OfferWhole == \A o \in Offers : o \in Endpoints
  <1> SUFFICES ASSUME NEW o \in Offers PROVE o \in Endpoints
    OBVIOUS
  <1>1. o \in Seq([transport : STRING, text : BOOLEAN])
    BY OffersAssumption
  <1>2. o = SubSeq(o, 1, Len(o)) /\ 1 \in 1..Len(o) + 1
    BY <1>1, SubSeqFull
  <1>3. o \in {SubSeq(o, n, Len(o)) : n \in 1..Len(o) + 1}
    BY <1>2
  <1> QED BY <1>3 DEF Endpoints

\* The requests of the polling loop
LEMMA RequestTypes ==
    /\ Idle \in Requests /\ Idle.phase = "idle"
    /\ \A b \in BOOLEAN : Send(b) \in Requests
    /\ \A r \in Requests : Headers(r) \in Requests /\ Abort(r) \in Requests
    /\ \A r \in Requests, f \in BOOLEAN : TimedOut(r, f) \in Requests /\ Failed(r, f) \in Requests
  <1>1. Idle \in Requests /\ Idle.phase = "idle"
    BY DEF Idle, Requests, ErrorKinds
  <1>2. \A r \in Requests, e \in ErrorKinds : Settled(r, e) \in Requests
    BY ZenonT(40) DEF Settled, Requests
  <1>3. {"none", "HttpError", "TimeoutError", "AbortError"} \subseteq ErrorKinds
    BY DEF ErrorKinds
  <1>4. \A b \in BOOLEAN : Send(b) \in Requests
    BY <1>1, <1>2, <1>3 DEF Send, Requests
  <1>5. \A r \in Requests : Headers(r) \in Requests
    BY ZenonT(40) DEF Headers, Requests
  <1>6. \A r \in Requests : Abort(r) \in Requests
    BY <1>2, <1>3 DEF Abort
  <1>7. ASSUME NEW r \in Requests, NEW f \in BOOLEAN
        PROVE  TimedOut(r, f) \in Requests /\ Failed(r, f) \in Requests
    <2>1. PICK b \in BOOLEAN : b = (r.onabort /\ ~f)
      BY DEF Requests
    <2>2. [r EXCEPT !.onabort = b] \in Requests
      BY ZenonT(40) DEF Requests
    <2>3. [r EXCEPT !.onabort = @ /\ ~f] = [r EXCEPT !.onabort = b]
      BY <2>1
    <2> QED BY <1>2, <1>3, <2>2, <2>3 DEF TimedOut, Failed
  <1> QED BY <1>1, <1>4, <1>5, <1>6, <1>7

\* The loop of _createTransport
LEMMA NextEndpointCall ==
    ASSUME NEW w, IsClient(w), NEW start \in {"connecting", "renegotiating"}
    PROVE  /\ IsClient(NextEndpoint(w, start)) /\ NextEndpoint(w, start).hub = w.hub
           /\ Tries(w.conn, start, NextEndpoint(w, start).conn)
  <1> DEFINE left == w.conn.endpoints
             usable == {i \in DOMAIN left : Usable(left[i])}
             i == CHOOSE j \in usable : \A k \in usable : j <= k
             t == left[i].transport
             e == SubSeq(left, i + 1, Len(left))
  <1>1. left \in Endpoints
    BY DEF IsClient, Conns
  <1>2. CASE usable = {}
    BY <1>2, StartCatchCall DEF NextEndpoint, Tries
  <1>3. CASE usable # {}
    <2>1. i \in usable
      <3>1. DOMAIN left \subseteq Nat
        <4>1. left = << >> \/ \E o \in Offers : \E j \in 1..Len(o) + 1 : left = SubSeq(o, j, Len(o))
          BY <1>1 DEF Endpoints
        <4>2. ASSUME NEW o \in Offers, NEW j \in 1..Len(o) + 1, left = SubSeq(o, j, Len(o))
              PROVE  DOMAIN left \subseteq Nat
          <5>1. o \in Seq([transport : STRING, text : BOOLEAN])
            BY OffersAssumption
          <5>2. left \in Seq([transport : STRING, text : BOOLEAN])
            <6>1. Len(o) \in Nat
              BY <5>1
            <6>2. j \in Nat
              BY <6>1
            <6>3. SubSeq(o, j, Len(o)) \in Seq([transport : STRING, text : BOOLEAN])
              BY <5>1, <6>2, SuffixIs
            <6> QED BY <4>2, <6>3
          <5> HIDE DEF left
          <5> QED BY <5>2
        <4> HIDE DEF left
        <4>3. left = << >> => DOMAIN left \subseteq Nat
          OBVIOUS
        <4> QED BY <4>1, <4>2, <4>3
      <3>2. usable \subseteq Nat
        BY <3>1
      <3> HIDE DEF usable
      <3>3. \E j \in usable : \A k \in usable : j <= k
        BY <1>3, <3>2, NatLeast
      <3> QED BY <3>3
    <2>2. t \in Transports /\ i \in DOMAIN left
      <3> HIDE DEF i
      <3> QED BY <2>1 DEF Usable
    <2>3. e \in Endpoints
      <3> HIDE DEF i, left
      <3> QED BY <1>1, <2>2, EndpointsLeft
    <2>4. NextEndpoint(w, start) =
              [w EXCEPT !.conn.transport = t, !.conn.start = start, !.conn.endpoints = e,
                        !.conn.running = FALSE, !.conn.aborted = FALSE, !.conn.poll = Idle]
      BY <1>3, ZenonT(40) DEF NextEndpoint
    <2> HIDE DEF t, e, i, usable, left
    <2>5. Trying(w.conn, start, t, e) \in Conns
      BY <2>2, <2>3, RequestTypes, ZenonT(40) DEF Trying, Conns, IsClient
    <2>6. /\ DOMAIN NextEndpoint(w, start) = {"conn", "hub"}
          /\ NextEndpoint(w, start).conn = Trying(w.conn, start, t, e)
          /\ NextEndpoint(w, start).hub = w.hub
      BY <2>4 DEF IsClient, Trying
    <2> QED BY <2>2, <2>3, <2>5, <2>6 DEF IsClient, Tries
  <1> QED BY <1>2, <1>3

\* The answer of a negotiation takes c to d.
Negotiates(c, endpoints, d) ==
    \/ c.start = "renegotiating" /\ d = [c EXCEPT !.start = "connecting"]
    \/ d = StartCaught(c)
    \/ /\ c.start # "renegotiating" /\ c.state = "Connecting"
       /\ \E n \in 0..MAX_REDIRECTS - 1 : d = [c EXCEPT !.redirects = n]
    \/ /\ c.start # "renegotiating" /\ c.state = "Connecting"
       /\ Tries([c EXCEPT !.endpoints = endpoints], "connecting", d)

\* The answer of a negotiation: an endpoint is tried, or the client is redirected.
LEMMA NegotiatedCall ==
    ASSUME NEW w, IsClient(w), NEW kind, NEW endpoints \in Endpoints
    PROVE  /\ IsClient(Negotiated(w, kind, endpoints))
           /\ Negotiated(w, kind, endpoints).hub = w.hub
           /\ Negotiates(w.conn, endpoints, Negotiated(w, kind, endpoints).conn)
  <1> DEFINE v == Negotiated(w, kind, endpoints)
             more == [w EXCEPT !.conn.endpoints = endpoints]
             Goal == IsClient(v) /\ v.hub = w.hub /\ Negotiates(w.conn, endpoints, v.conn)
  <1> SUFFICES Goal
    OBVIOUS
  <1>1. /\ w.conn.redirects \in 0..MAX_REDIRECTS - 1 /\ MAX_REDIRECTS \in Nat
        /\ [w.conn EXCEPT !.start = "connecting"] \in Conns
        /\ [w.conn EXCEPT !.endpoints = endpoints] \in Conns
        /\ \A n \in 0..MAX_REDIRECTS - 1 : [w.conn EXCEPT !.redirects = n] \in Conns
    <2>1. w.conn.redirects \in 0..MAX_REDIRECTS - 1 /\ MAX_REDIRECTS \in Nat
      BY RedirectsAssumption DEF IsClient, Conns
    <2>2. [w.conn EXCEPT !.start = "connecting"] \in Conns
          /\ [w.conn EXCEPT !.endpoints = endpoints] \in Conns
      BY ZenonT(40) DEF IsClient, Conns
    <2>3. \A n \in 0..MAX_REDIRECTS - 1 : [w.conn EXCEPT !.redirects = n] \in Conns
      BY ZenonT(40) DEF IsClient, Conns
    <2> QED BY <2>1, <2>2, <2>3
  <1>2. ASSUME v = StartCatch(w) PROVE Goal
    <2> HIDE DEF v
    <2> QED BY <1>2, StartCatchCall DEF Negotiates
  <1>3. ASSUME w.conn.start = "renegotiating", v = [w EXCEPT !.conn.start = "connecting"]
        PROVE  Goal
    <2> HIDE DEF v
    <2> QED BY <1>1, <1>3 DEF IsClient, Negotiates
  <1>4. ASSUME w.conn.start # "renegotiating", w.conn.state = "Connecting",
               w.conn.redirects + 1 < MAX_REDIRECTS, v = [w EXCEPT !.conn.redirects = @ + 1]
        PROVE  Goal
    <2> HIDE DEF v
    <2>1. PICK n \in 0..MAX_REDIRECTS - 1 : n = w.conn.redirects + 1
      BY <1>1, <1>4
    <2>2. v = [w EXCEPT !.conn.redirects = n]
      BY <1>4, <2>1
    <2>3. /\ v.conn = [w.conn EXCEPT !.redirects = n]
          /\ v.hub = w.hub /\ DOMAIN v = {"conn", "hub"}
      BY <2>2 DEF IsClient
    <2>4. IsClient(v)
      BY <1>1, <2>3 DEF IsClient
    <2> QED BY <1>4, <2>3, <2>4 DEF Negotiates
  <1>5. ASSUME w.conn.start # "renegotiating", w.conn.state = "Connecting",
               v = NextEndpoint(more, "connecting")
        PROVE  Goal
    <2>1. /\ IsClient(more) /\ more.conn = [w.conn EXCEPT !.endpoints = endpoints]
          /\ more.hub = w.hub
      BY <1>1 DEF IsClient
    <2> HIDE DEF more, v
    <2>2. /\ IsClient(v) /\ v.hub = w.hub
          /\ Tries([w.conn EXCEPT !.endpoints = endpoints], "connecting", v.conn)
      BY <1>5, <2>1, NextEndpointCall
    <2> QED BY <1>5, <2>2 DEF Negotiates
  <1>6. CASE w.conn.start = "renegotiating"
    <2>1. v = IF kind = "fail" THEN StartCatch(w) ELSE [w EXCEPT !.conn.start = "connecting"]
      BY <1>6 DEF Negotiated
    <2> HIDE DEF v, Goal
    <2> QED BY <1>2, <1>3, <1>6, <2>1
  <1>7. CASE w.conn.start # "renegotiating"
    <2>1. v = IF kind \in {"fail", "error"} \/ w.conn.state # "Connecting"
                     \/ (kind = "redirect" /\ w.conn.redirects + 1 >= MAX_REDIRECTS)
              THEN StartCatch(w)
              ELSE IF kind = "redirect" THEN [w EXCEPT !.conn.redirects = @ + 1]
              ELSE NextEndpoint(more, "connecting")
      BY <1>7 DEF Negotiated
    <2>2. ~(w.conn.redirects + 1 >= MAX_REDIRECTS) => w.conn.redirects + 1 < MAX_REDIRECTS
      BY <1>1
    <2> HIDE DEF v, more, Goal
    <2> QED BY <1>2, <1>4, <1>5, <1>7, <2>1, <2>2
  <1> QED BY <1>6, <1>7

\* connect() was rejected.
LEMMA ConnectFailedCall ==
    ASSUME NEW w, IsClient(w)
    PROVE  /\ IsClient(ConnectFailed(w)) /\ ConnectFailed(w).hub = w.hub
           /\ \/ w.conn.state = "Connecting"
                 /\ Tries(w.conn, "renegotiating", ConnectFailed(w).conn)
              \/ ConnectFailed(w).conn = StartCaught(w.conn)
  <1>1. CASE w.conn.state = "Connecting"
    BY <1>1, NextEndpointCall DEF ConnectFailed
  <1>2. CASE w.conn.state # "Connecting"
    BY <1>2, StartCatchCall DEF ConnectFailed
  <1> QED BY <1>1, <1>2

\* connect() resolved: a connection with keep-alive `b'.
Opened(c, b) ==
    IF c.state = "Connecting"
    THEN [c EXCEPT !.inherentKeepAlive = b, !.state = "Connected", !.started = TRUE,
                   !.start = "none", !.result = "ok"]
    ELSE [c EXCEPT !.inherentKeepAlive = b, !.start = "awaitStop"]
Connects(c, d) ==
    \E b \in BOOLEAN : /\ b = (c.inherentKeepAlive \/ c.transport = "LongPolling")
                       /\ d = Opened(c, b)

\* The rest of _startInternal of the connection once connect() has resolved
LEMMA ConnectSucceededCall ==
    ASSUME NEW w, IsClient(w)
    PROVE  /\ IsClient(ConnectSucceeded(w)) /\ ConnectSucceeded(w).hub = w.hub
           /\ Connects(w.conn, ConnectSucceeded(w).conn)
  <1> DEFINE v == [w EXCEPT !.conn.inherentKeepAlive = @ \/ w.conn.transport = "LongPolling"]
  <1>1. PICK b \in BOOLEAN : b = (w.conn.inherentKeepAlive \/ w.conn.transport = "LongPolling")
    OBVIOUS
  <1>2. v.conn = [w.conn EXCEPT !.inherentKeepAlive = b] /\ v.hub = w.hub
        /\ DOMAIN v = {"conn", "hub"}
    BY <1>1 DEF IsClient
  <1>3. ConnectSucceeded(w) =
            IF w.conn.state = "Connecting"
            THEN [v EXCEPT !.conn.state = "Connected", !.conn.started = TRUE,
                           !.conn.start = "none", !.conn.result = "ok"]
            ELSE [v EXCEPT !.conn.start = "awaitStop"]
    BY DEF ConnectSucceeded
  <1> HIDE DEF v
  <1>4. Opened(w.conn, b) \in Conns
    <2>1. "Connected" \in HubStates \ {"Reconnecting"}
      BY DEF HubStates
    <2>2. /\ [w.conn EXCEPT !.inherentKeepAlive = b, !.state = "Connected", !.started = TRUE,
                            !.start = "none", !.result = "ok"] \in Conns
          /\ [w.conn EXCEPT !.inherentKeepAlive = b, !.start = "awaitStop"] \in Conns
      BY <2>1, ZenonT(40) DEF Conns, IsClient
    <2> QED BY <2>2 DEF Opened
  <1>5. /\ DOMAIN ConnectSucceeded(w) = {"conn", "hub"} /\ ConnectSucceeded(w).hub = w.hub
        /\ ConnectSucceeded(w).conn = Opened(w.conn, b)
    BY <1>2, <1>3 DEF Opened
  <1> QED BY <1>1, <1>4, <1>5 DEF IsClient, Connects

-----------------------------------------------------------------------------
(* The polling loop *)

Polling(c) == [c EXCEPT !.poll = Send(c.aborted)]
PollEnded(c) == [c EXCEPT !.running = FALSE, !.poll = Idle]

\* The finally of _poll takes <<c, h>> to <<d, k>>; so does what follows a response, where
\* the loop goes on if `more'.
PollStops(c, h, d, k) ==
    \/ c.aborted /\ d = PollEnded(c) /\ k = h
    \/ ~c.aborted /\ Stops(PollEnded(c), h, d, k)
PollGoesOn(more, c, h, d, k) ==
    \/ more /\ d = Polling(c) /\ k = h
    \/ ~more /\ PollStops(c, h, d, k)

\* A connection with another request, and with its loop running or not
LEMMA PollSet ==
    ASSUME NEW c \in Conns, NEW r \in Requests, NEW b \in BOOLEAN
    PROVE  /\ [c EXCEPT !.poll = r] \in Conns /\ [c EXCEPT !.running = b] \in Conns
           /\ [c EXCEPT !.running = b, !.poll = r] \in Conns
  BY ZenonT(40) DEF Conns

\* The types of the records that the loop makes
LEMMA PollTypes ==
    ASSUME NEW c \in Conns
    PROVE  Polling(c) \in Conns /\ PollEnded(c) \in Conns
  <1>1. c.aborted \in BOOLEAN
    BY DEF Conns
  <1>2. Send(c.aborted) \in Requests /\ Idle \in Requests
    BY <1>1, RequestTypes
  <1>3. Polling(c) \in Conns
    BY <1>2, PollSet, ZenonT(40) DEF Polling
  <1>4. PollEnded(c) \in Conns
    BY <1>2, PollSet, ZenonT(40) DEF PollEnded
  <1> QED BY <1>3, <1>4

\* `await this.httpClient.get' of the loop
LEMMA PollCall ==
    ASSUME NEW w, IsClient(w)
    PROVE  IsClient(Poll(w)) /\ Poll(w).conn = Polling(w.conn) /\ Poll(w).hub = w.hub
  <1>1. Polling(w.conn) \in Conns
    BY PollTypes DEF IsClient
  <1> QED BY <1>1 DEF IsClient, Poll, Polling

\* The loop has ended: it stops the connection unless stop() will.
LEMMA PollEndsCall ==
    ASSUME NEW w, IsClient(w)
    PROVE  /\ IsClient(PollEnds(w))
           /\ PollStops(w.conn, w.hub, PollEnds(w).conn, PollEnds(w).hub)
  <1> DEFINE v == [w EXCEPT !.conn.running = FALSE, !.conn.poll = Idle]
  <1>1. IsClient(v) /\ v.conn = PollEnded(w.conn) /\ v.hub = w.hub
    <2>1. PollEnded(w.conn) \in Conns
      BY PollTypes DEF IsClient
    <2> QED BY <2>1 DEF IsClient, PollEnded
  <1>2. PollEnds(w) = IF w.conn.aborted THEN v ELSE StopConnection(v)
    BY DEF PollEnds
  <1> HIDE DEF v
  <1>3. CASE w.conn.aborted
    BY <1>1, <1>2, <1>3 DEF PollStops
  <1>4. CASE ~w.conn.aborted
    <2>1. PollEnds(w) = StopConnection(v)
      BY <1>2, <1>4
    <2> QED BY <1>1, <1>4, <2>1, StopConnectionCall DEF PollStops
  <1> QED BY <1>3, <1>4

\* The loop polls again or ends.
LEMMA PollContinuesCall ==
    ASSUME NEW w, IsClient(w), NEW more
    PROVE  /\ IsClient(PollContinues(w, more))
           /\ PollGoesOn(more, w.conn, w.hub,
                         PollContinues(w, more).conn, PollContinues(w, more).hub)
  BY PollCall, PollEndsCall DEF PollContinues, PollGoesOn

\* connect() of the long-polling transport resolves, whatever the first poll was answered with.
LongPolls(c, h, status, d, k) ==
    \/ status = 200 /\ Connects(Polling([c EXCEPT !.running = TRUE]), d) /\ k = h
    \/ status # 200 /\ \E e \in Conns : PollStops(c, h, e, k) /\ Connects(e, d)

\* connect() of the long-polling transport
LEMMA LongPollingCall ==
    ASSUME NEW w, IsClient(w), NEW status
    PROVE  /\ IsClient(LongPollingConnects(w, status))
           /\ LongPolls(w.conn, w.hub, status, LongPollingConnects(w, status).conn,
                        LongPollingConnects(w, status).hub)
  <1> DEFINE u == [w EXCEPT !.conn.running = TRUE]
             v == Poll(u)
             x == PollEnds(w)
  <1>1. CASE status = 200
    <2>1. [w.conn EXCEPT !.running = TRUE] \in Conns
      BY ZenonT(40) DEF Conns, IsClient
    <2>2. IsClient(u) /\ u.conn = [w.conn EXCEPT !.running = TRUE] /\ u.hub = w.hub
      BY <2>1 DEF IsClient
    <2>3. LongPollingConnects(w, status) = ConnectSucceeded(v)
      BY <1>1 DEF LongPollingConnects
    <2> HIDE DEF u
    <2>4. IsClient(v) /\ v.conn = Polling([w.conn EXCEPT !.running = TRUE]) /\ v.hub = w.hub
      BY <2>2, PollCall
    <2> HIDE DEF v
    <2> QED BY <1>1, <2>3, <2>4, ConnectSucceededCall DEF LongPolls
  <1>2. CASE status # 200
    <2>1. IsClient(x) /\ PollStops(w.conn, w.hub, x.conn, x.hub) /\ x.conn \in Conns
      BY PollEndsCall DEF IsClient
    <2>2. LongPollingConnects(w, status) = ConnectSucceeded(x)
      BY <1>2 DEF LongPollingConnects
    <2> HIDE DEF x
    <2>3. /\ IsClient(ConnectSucceeded(x)) /\ ConnectSucceeded(x).hub = x.hub
          /\ Connects(x.conn, ConnectSucceeded(x).conn)
      BY <2>1, ConnectSucceededCall
    <2> QED BY <1>2, <2>1, <2>2, <2>3 DEF LongPolls
  <1> QED BY <1>1, <1>2

-----------------------------------------------------------------------------
(* Records that arrive *)

\* The messages of a chunk take <<c, h>> to <<d, k>>: nothing happens to the client, the
\* connection is stopped, or the hub is.
Halted(h) == [NoTimers([h EXCEPT !.state = "Disconnecting"]) EXCEPT !.stopError = TRUE]
Handles(c, h, d, k) ==
    \/ d = c /\ k = h
    \/ d = Stopping(c) /\ k = h
    \/ h.state \notin {"Disconnected", "Disconnecting"} /\ d = Stopping(c) /\ k = Halted(h)

\* The hub that a close message has stopped
LEMMA HaltedIs ==
    ASSUME NEW h \in Hubs
    PROVE  Halted(h) \in Hubs /\ Halted(h).state = "Disconnecting" /\ Halted(h).delay = h.delay
  <1>1. "Disconnecting" \in HubStates
    BY DEF HubStates
  <1>2. Halted(h) \in Hubs
    BY <1>1, ZenonT(40) DEF Halted, NoTimers, Hubs
  <1> QED BY <1>2 DEF Halted, NoTimers, Hubs

\* A connection is stopped once.
LEMMA StoppingTwice ==
    ASSUME NEW c \in Conns
    PROVE  Stopping(Stopping(c)) = Stopping(c)
  <1>1. CASE c.state \in {"Disconnected", "Disconnecting"}
    BY <1>1 DEF Stopping
  <1>2. CASE c.state \notin {"Disconnected", "Disconnecting"}
    <2>1. Stopping(c).state = "Disconnecting"
      BY <1>2 DEF Stopping, Conns
    <2> QED BY <2>1 DEF Stopping
  <1> QED BY <1>1, <1>2

\* One message
LEMMA DispatchCall ==
    ASSUME NEW c \in Conns, NEW h \in Hubs, ~h.delay, NEW message,
           NEW w, IsClient(w), Handles(c, h, w.conn, w.hub)
    PROVE  /\ IsClient(Dispatch(w, message))
           /\ Handles(c, h, Dispatch(w, message).conn, Dispatch(w, message).hub)
  <1>1. w.hub.delay = FALSE /\ (w.hub = h \/ w.hub.state = "Disconnecting")
    <2>1. h.delay = FALSE
      BY DEF Hubs
    <2> QED BY <2>1, HaltedIs DEF Handles
  <1>2. CASE message = "close"
    <2>1. Dispatch(w, message) = HubStop(w)
      BY <1>2 DEF Dispatch
    <2>2. /\ IsClient(HubStop(w))
          /\ HubStops(w.conn, w.hub, HubStop(w).conn, HubStop(w).hub)
      BY HubStopCall
    <2>3. CASE w.hub.state \in {"Disconnected", "Disconnecting"}
      BY <2>1, <2>2, <2>3 DEF HubStops
    <2>4. CASE w.hub.state \notin {"Disconnected", "Disconnecting"}
      <3>1. w.hub = h /\ (w.conn = c \/ w.conn = Stopping(c))
        BY <1>1, <2>4 DEF Handles
      <3>2. HubStop(w).conn = Stopping(w.conn) /\ HubStop(w).hub = Halted(h)
        BY <1>1, <2>2, <2>4, <3>1 DEF HubStops, Halted
      <3>3. HubStop(w).conn = Stopping(c)
        BY <3>1, <3>2, StoppingTwice
      <3> QED BY <2>1, <2>2, <2>4, <3>1, <3>2, <3>3 DEF Handles
    <2> QED BY <2>3, <2>4
  <1>3. CASE message = "closeAllowReconnect"
    <2>1. Dispatch(w, message) = HttpStop(w)
      BY <1>3 DEF Dispatch
    <2>2. /\ IsClient(HttpStop(w)) /\ HttpStop(w).conn = Stopping(w.conn)
          /\ HttpStop(w).hub = w.hub
      BY HttpStopCall
    <2>3. HttpStop(w).conn = Stopping(c)
      BY <2>2, StoppingTwice DEF Handles
    <2> QED BY <2>1, <2>2, <2>3 DEF Handles
  <1>4. CASE message \notin {"close", "closeAllowReconnect"}
    BY <1>4 DEF Dispatch
  <1> QED BY <1>2, <1>3, <1>4

\* The function of DispatchAll exists: DispatchAll is its last value.
LEMMA DispatchAllUnfolds ==
    ASSUME NEW w, NEW messages, Len(messages) \in Nat
    PROVE  \E f : /\ f[0] = w
                  /\ \A n \in 1..Len(messages) : f[n] = Dispatch(f[n - 1], messages[n])
                  /\ DispatchAll(w, messages) = f[Len(messages)]
  <1> DEFINE P(k) == \E f : f = [n \in 0..k |-> IF n = 0 THEN w
                                                ELSE Dispatch(f[n - 1], messages[n])]
             T == {k \in Nat : P(k)}
  <1>1. P(0)
    <2> DEFINE f == [n \in 0..0 |-> w]
    <2>1. f = [n \in 0..0 |-> IF n = 0 THEN w ELSE Dispatch(f[n - 1], messages[n])]
      OBVIOUS
    <2> QED BY <2>1
  <1>2. ASSUME NEW k \in Nat, P(k) PROVE P(k + 1)
    <2>1. PICK f : f = [n \in 0..k |-> IF n = 0 THEN w ELSE Dispatch(f[n - 1], messages[n])]
      BY <1>2
    <2> DEFINE g == [n \in 0..(k + 1) |->
                        IF n = k + 1 THEN Dispatch(f[k], messages[n]) ELSE f[n]]
    <2>2. ASSUME NEW n \in 0..(k + 1)
          PROVE  g[n] = IF n = 0 THEN w ELSE Dispatch(g[n - 1], messages[n])
      <3>1. CASE n = k + 1
        <4>1. n # 0 /\ n - 1 = k /\ k \in 0..(k + 1) /\ k # k + 1
          BY <3>1
        <4>2. g[n] = Dispatch(f[k], messages[n]) /\ g[n - 1] = f[k]
          BY <3>1, <4>1
        <4> HIDE DEF g
        <4> QED BY <4>1, <4>2
      <3>2. CASE n \in 0..k /\ n = 0
        BY <2>1, <3>2
      <3>3. CASE n \in 0..k /\ n # 0
        <4>1. g[n] = f[n] /\ g[n - 1] = f[n - 1]
          BY <3>3
        <4>2. f[n] = Dispatch(f[n - 1], messages[n])
          BY <2>1, <3>3
        <4> HIDE DEF g
        <4> QED BY <3>3, <4>1, <4>2
      <3> QED BY <3>1, <3>2, <3>3
    <2>3. g = [n \in 0..(k + 1) |-> g[n]]
      OBVIOUS
    <2> HIDE DEF g
    <2>4. g = [n \in 0..(k + 1) |-> IF n = 0 THEN w ELSE Dispatch(g[n - 1], messages[n])]
      BY <2>2, <2>3
    <2> QED BY <2>4
  <1>3. P(Len(messages))
    <2>1. 0 \in T /\ T \subseteq Nat /\ \A n \in T : n + 1 \in T
      <3> HIDE DEF P
      <3> QED BY <1>1, <1>2
    <2>2. T = Nat
      <3> HIDE DEF T
      <3> QED BY <2>1, NatSetInduction
    <2> QED BY <2>2
  <1> DEFINE after == CHOOSE f : f = [n \in 0..Len(messages) |->
                         IF n = 0 THEN w ELSE Dispatch(f[n - 1], messages[n])]
  <1>4. after = [n \in 0..Len(messages) |->
                    IF n = 0 THEN w ELSE Dispatch(after[n - 1], messages[n])]
    BY <1>3
  <1>5. DispatchAll(w, messages) = after[Len(messages)]
    BY DEF DispatchAll
  <1> HIDE DEF after
  <1>6. after[0] = w /\ \A n \in 1..Len(messages) :
                            after[n] = Dispatch(after[n - 1], messages[n])
    BY <1>4
  <1> QED BY <1>5, <1>6

\* The switch of _processIncomingData over all messages of a chunk
LEMMA DispatchAllCall ==
    ASSUME NEW w, IsClient(w), ~w.hub.delay, NEW messages, Len(messages) \in Nat
    PROVE  /\ IsClient(DispatchAll(w, messages))
           /\ Handles(w.conn, w.hub, DispatchAll(w, messages).conn, DispatchAll(w, messages).hub)
  <1> DEFINE Holds(x) == IsClient(x) /\ Handles(w.conn, w.hub, x.conn, x.hub)
  <1>1. PICK f : /\ f[0] = w
                 /\ \A n \in 1..Len(messages) : f[n] = Dispatch(f[n - 1], messages[n])
                 /\ DispatchAll(w, messages) = f[Len(messages)]
    BY DispatchAllUnfolds
  <1>2. Holds(w)
    BY DEF Handles
  <1>3. \A x, message : Holds(x) => Holds(Dispatch(x, message))
    <2> TAKE x, message
    <2> HAVE Holds(x)
    <2>1. w.conn \in Conns /\ w.hub \in Hubs
      BY DEF IsClient
    <2> QED BY <2>1, DispatchCall
  <1> HIDE DEF Holds
  <1> DEFINE T == {n \in Nat : n <= Len(messages) => Holds(f[n])}
  <1>4. 0 \in T
    BY <1>1, <1>2
  <1>5. ASSUME NEW n \in T PROVE n + 1 \in T
    <2>1. CASE n + 1 <= Len(messages)
      <3>1. n + 1 \in 1..Len(messages) /\ n <= Len(messages) /\ (n + 1) - 1 = n
        BY <2>1
      <3>2. f[n + 1] = Dispatch(f[n], messages[n + 1])
        BY <1>1, <3>1
      <3>3. Holds(f[n])
        BY <3>1
      <3> QED BY <1>3, <3>2, <3>3
    <2>2. CASE ~(n + 1 <= Len(messages))
      BY <2>2
    <2> QED BY <2>1, <2>2
  <1>6. T = Nat
    <2> T \in SUBSET Nat
      OBVIOUS
    <2> HIDE DEF T
    <2> QED BY <1>4, <1>5, NatSetInduction
  <1>7. Holds(f[Len(messages)])
    BY <1>6
  <1> QED BY <1>1, <1>7 DEF Holds

\* _processIncomingData takes <<c, h>> to <<d, k>>, and `threw' says whether it throws.
Greeted(h, answer) ==
    [h EXCEPT !.timer = FALSE, !.handshake = IF @ = "pending" THEN answer ELSE @]
First(h) ==
    IF h.received THEN [h EXCEPT !.timer = FALSE]
    ELSE [Greeted(h, "resolved") EXCEPT !.received = TRUE]
Processes(c, h, threw, d, k) ==
    \/ threw /\ ~h.received /\ d = c /\ k = Greeted(h, "rejected")
    \/ threw /\ d = c /\ k = First(h)
    \/ ~threw /\ \E g \in Hubs : Handles(c, First(h), d, g) /\ k = TimeoutReset(d, g)

\* The types of the records that the first message makes
LEMMA FirstTypes ==
    ASSUME NEW h \in Hubs
    PROVE  /\ Greeted(h, "rejected") \in Hubs /\ First(h) \in Hubs
           /\ First(h).delay = h.delay /\ [h EXCEPT !.timer = FALSE] \in Hubs
  <1>1. ASSUME NEW answer \in {"resolved", "rejected"} PROVE Greeted(h, answer) \in Hubs
    <2>1. PICK x \in {"pending", "resolved", "rejected"} :
              x = IF h.handshake = "pending" THEN answer ELSE h.handshake
      BY DEF Hubs
    <2>2. [h EXCEPT !.timer = FALSE, !.handshake = x] \in Hubs
      BY ZenonT(40) DEF Hubs
    <2>3. Greeted(h, answer) = [h EXCEPT !.timer = FALSE, !.handshake = x]
      <3>1. [h EXCEPT !.timer = FALSE].handshake = h.handshake
        BY DEF Hubs
      <3> QED BY <2>1, <3>1 DEF Greeted
    <2> QED BY <2>2, <2>3
  <1>2. Greeted(h, "resolved") \in Hubs /\ Greeted(h, "rejected") \in Hubs
    BY <1>1
  <1>3. [Greeted(h, "resolved") EXCEPT !.received = TRUE] \in Hubs
        /\ [h EXCEPT !.timer = FALSE] \in Hubs
    BY <1>2, ZenonT(40) DEF Hubs
  <1>4. First(h).delay = h.delay
    BY DEF First, Greeted, Hubs
  <1> QED BY <1>2, <1>3, <1>4 DEF First

\* _processIncomingData
LEMMA ProcessCall ==
    ASSUME NEW w, IsClient(w), ~w.hub.delay, NEW records \in Chunks
    PROVE  LET p == ProcessIncomingData(w, records) IN
           /\ IsClient(p.w)
           /\ Processes(w.conn, w.hub, p.threw, p.w.conn, p.w.hub)
  <1> DEFINE v == CleanupTimeout(w)
             greeted == records[1] = "handshake"
             first == IF w.hub.received THEN v
                      ELSE [v EXCEPT !.hub.received = TRUE,
                                     !.hub.handshake = IF @ = "pending" THEN "resolved" ELSE @]
             bad == [v EXCEPT !.hub.handshake = IF @ = "pending" THEN "rejected" ELSE @]
             rest == IF w.hub.received THEN records ELSE Tail(records)
             p == ProcessIncomingData(w, records)
             Goal == IsClient(p.w) /\ Processes(w.conn, w.hub, p.threw, p.w.conn, p.w.hub)
  <1> SUFFICES Goal
    OBVIOUS
  <1>1. IsClient(v) /\ v.conn = w.conn /\ v.hub = [w.hub EXCEPT !.timer = FALSE]
    BY CleanupTimeoutCall
  <1>2. Len(rest) \in Nat
    <2>1. records \in Seq(STRING) /\ records # << >>
      BY ChunksAssumption
    <2> QED BY <2>1
  <1>3. p = CASE ~w.hub.received /\ ~greeted -> [threw |-> TRUE, w |-> bad]
              [] (w.hub.received \/ greeted) /\ ~Readable(rest) -> [threw |-> TRUE, w |-> first]
              [] OTHER -> [threw |-> FALSE, w |-> ResetTimeoutPeriod(DispatchAll(first, rest))]
    BY ZenonT(40) DEF ProcessIncomingData
  <1> HIDE DEF v, p, rest, greeted
  <1>4. IsClient(first) /\ first.conn = w.conn /\ first.hub = First(w.hub)
    <2>1. First(w.hub) \in Hubs
      BY FirstTypes DEF IsClient
    <2>2. CASE w.hub.received
      BY <1>1, <2>2 DEF First
    <2>3. CASE ~w.hub.received
      <3>1. first.conn = w.conn /\ DOMAIN first = {"conn", "hub"}
        BY <1>1, <2>3 DEF IsClient
      <3> DEFINE g == [w.hub EXCEPT !.timer = FALSE]
      <3>2. first.hub = [g EXCEPT !.received = TRUE,
                                  !.handshake = IF @ = "pending" THEN "resolved" ELSE @]
        BY <1>1, <2>3 DEF IsClient
      <3>3. first.hub = First(w.hub)
        <4> HIDE DEF first
        <4> QED BY <2>3, <3>2 DEF First, Greeted, IsClient, Hubs
      <3> QED BY <2>1, <3>1, <3>3 DEF IsClient
    <2> QED BY <2>2, <2>3
  <1>5. IsClient(bad) /\ bad.conn = w.conn /\ bad.hub = Greeted(w.hub, "rejected")
    <2>1. Greeted(w.hub, "rejected") \in Hubs
      BY FirstTypes DEF IsClient
    <2>2. bad.conn = w.conn /\ DOMAIN bad = {"conn", "hub"}
      BY <1>1 DEF IsClient
    <2>3. bad.hub = Greeted(w.hub, "rejected")
      BY <1>1 DEF IsClient, Greeted
    <2> QED BY <2>1, <2>2, <2>3 DEF IsClient
  <1> HIDE DEF first, bad
  <1>6. CASE ~w.hub.received /\ ~greeted
    <2>1. p = [threw |-> TRUE, w |-> bad]
      BY <1>3, <1>6
    <2>2. p.threw = TRUE /\ p.w = bad
      BY <2>1
    <2> QED BY <1>5, <1>6, <2>2 DEF Processes
  <1>7. CASE (w.hub.received \/ greeted) /\ ~Readable(rest)
    <2>1. p = [threw |-> TRUE, w |-> first]
      BY <1>3, <1>7
    <2>2. p.threw = TRUE /\ p.w = first
      BY <2>1
    <2> QED BY <1>4, <2>2 DEF Processes
  <1>8. CASE (w.hub.received \/ greeted) /\ Readable(rest)
    <2> DEFINE x == DispatchAll(first, rest)
               y == ResetTimeoutPeriod(x)
    <2>1. p = [threw |-> FALSE, w |-> y]
      BY <1>3, <1>8
    <2>2. ~first.hub.delay
      BY <1>4, FirstTypes DEF IsClient
    <2>3. IsClient(x) /\ Handles(w.conn, First(w.hub), x.conn, x.hub) /\ x.hub \in Hubs
      BY <1>2, <1>4, <2>2, DispatchAllCall DEF IsClient
    <2> HIDE DEF x
    <2>4. IsClient(y) /\ y.conn = x.conn /\ y.hub = TimeoutReset(x.conn, x.hub)
      BY <2>3, TimeoutCall
    <2> HIDE DEF y
    <2>5. p.threw = FALSE /\ p.w = y
      BY <2>1
    <2> QED BY <2>3, <2>4, <2>5 DEF Processes
  <1> HIDE DEF Goal
  <1> QED BY <1>6, <1>7, <1>8

\* A message of a streaming transport, and a poll with content, take <<c, h>> to <<d, k>>.
Arrives(c, h, d, k) ==
    \/ Processes(c, h, FALSE, d, k)
    \/ \E e \in Conns, g \in Hubs : Processes(c, h, TRUE, e, g) /\ Stops(e, g, d, k)
PollDelivers(c, h, d, k) ==
    \E e \in Conns, g \in Hubs, threw \in BOOLEAN :
        /\ Processes(c, h, threw, e, g)
        /\ PollGoesOn(e.running /\ ~threw, [e EXCEPT !.poll = Idle], g, d, k)

\* _processIncomingData throws or returns.
LEMMA ThrewIsBoolean ==
    ASSUME NEW w, NEW records
    PROVE  ProcessIncomingData(w, records).threw \in BOOLEAN
  <1> DEFINE p == ProcessIncomingData(w, records)
             rest == IF w.hub.received THEN records ELSE Tail(records)
             a == ~w.hub.received /\ ~(records[1] = "handshake")
             b == (w.hub.received \/ records[1] = "handshake") /\ ~Readable(rest)
  <1>1. \E x, y, z : p = CASE a -> [threw |-> TRUE, w |-> x]
                           [] b -> [threw |-> TRUE, w |-> y]
                           [] OTHER -> [threw |-> FALSE, w |-> z]
    BY ZenonT(40) DEF ProcessIncomingData
  <1>2. ~(a /\ b)
    OBVIOUS
  <1> HIDE DEF p, a, b
  <1>3. p.threw \in BOOLEAN
    BY <1>1, <1>2
  <1> QED BY <1>3 DEF p

\* onmessage of a streaming transport, which closes when the callback throws
LEMMA MessageCall ==
    ASSUME NEW w, IsClient(w), ~w.hub.delay, NEW records \in Chunks
    PROVE  /\ IsClient(MessageArrives(w, records))
           /\ Arrives(w.conn, w.hub, MessageArrives(w, records).conn,
                      MessageArrives(w, records).hub)
  <1> DEFINE p == ProcessIncomingData(w, records)
             v == p.w
  <1>1. IsClient(v) /\ Processes(w.conn, w.hub, p.threw, v.conn, v.hub)
    BY ProcessCall
  <1>2. p.threw \in BOOLEAN
    BY ThrewIsBoolean
  <1>3. MessageArrives(w, records) = IF p.threw THEN StopConnection(v) ELSE v
    BY ZenonT(40) DEF MessageArrives
  <1> HIDE DEF p
  <1>4. CASE p.threw = FALSE
    BY <1>1, <1>3, <1>4 DEF Arrives
  <1>5. CASE p.threw = TRUE
    <2>1. MessageArrives(w, records) = StopConnection(v)
      BY <1>3, <1>5
    <2>2. v.conn \in Conns /\ v.hub \in Hubs
      BY <1>1 DEF IsClient
    <2> HIDE DEF v
    <2>3. Processes(w.conn, w.hub, TRUE, v.conn, v.hub)
      BY <1>1, <1>5
    <2> QED BY <1>1, <2>1, <2>2, <2>3, StopConnectionCall DEF Arrives
  <1> QED BY <1>2, <1>4, <1>5

\* A poll with content: a callback that throws is caught by the loop and ends it.
LEMMA PollReceivesCall ==
    ASSUME NEW w, IsClient(w), ~w.hub.delay, NEW records \in Chunks
    PROVE  /\ IsClient(PollReceives(w, records))
           /\ PollDelivers(w.conn, w.hub, PollReceives(w, records).conn,
                           PollReceives(w, records).hub)
  <1> DEFINE p == ProcessIncomingData(w, records)
             v == p.w
             u == [v EXCEPT !.conn.poll = Idle]
             more == v.conn.running /\ ~p.threw
  <1>1. IsClient(v) /\ Processes(w.conn, w.hub, p.threw, v.conn, v.hub)
    BY ProcessCall
  <1>2. p.threw \in BOOLEAN
    BY ThrewIsBoolean
  <1>3. PollReceives(w, records) = PollContinues(u, more)
    BY ZenonT(40) DEF PollReceives
  <1> HIDE DEF p, v
  <1>4. [v.conn EXCEPT !.poll = Idle] \in Conns
    <2>1. Idle \in Requests
      BY RequestTypes
    <2> QED BY <1>1, <2>1, ZenonT(40) DEF Conns, IsClient
  <1>5. IsClient(u) /\ u.conn = [v.conn EXCEPT !.poll = Idle] /\ u.hub = v.hub
    BY <1>1, <1>4 DEF IsClient
  <1> DEFINE x == PollReceives(w, records)
  <1> HIDE DEF u
  <1>6. /\ IsClient(PollContinues(u, more))
        /\ PollGoesOn(more, u.conn, u.hub,
                      PollContinues(u, more).conn, PollContinues(u, more).hub)
    BY <1>5, PollContinuesCall
  <1>7. IsClient(x) /\ PollGoesOn(more, u.conn, u.hub, x.conn, x.hub)
    BY <1>3, <1>6
  <1> HIDE DEF x
  <1>8. v.conn \in Conns /\ v.hub \in Hubs
    BY <1>1 DEF IsClient
  <1>9. PollDelivers(w.conn, w.hub, x.conn, x.hub)
    BY <1>1, <1>2, <1>5, <1>7, <1>8 DEF PollDelivers
  <1> QED BY <1>7, <1>9 DEF x

\* The timer of the keep-alive pings fires.
Pinged(c, h) ==
    IF h.state = "Connected" /\ c.state = "Connected"
    THEN [KeptAlive(c, h) EXCEPT !.pinging = TRUE]
    ELSE IF h.state = "Connected" THEN [h EXCEPT !.ping = "none"] ELSE [h EXCEPT !.ping = "fired"]

\* The callback of the ping timer
LEMMA PingCall ==
    ASSUME NEW w, IsClient(w)
    PROVE  /\ IsClient(PingFires(w)) /\ PingFires(w).conn = w.conn
           /\ PingFires(w).hub = Pinged(w.conn, w.hub)
  <1> DEFINE v == ResetKeepAliveInterval(w)
  <1>1. IsClient(v) /\ v.conn = w.conn /\ v.hub = KeptAlive(w.conn, w.hub)
    BY KeepAliveCall
  <1>2. Pinged(w.conn, w.hub) \in Hubs
    <2>1. KeptAlive(w.conn, w.hub) \in Hubs
      BY TimerTypes DEF IsClient
    <2>2. [KeptAlive(w.conn, w.hub) EXCEPT !.pinging = TRUE] \in Hubs
      BY <2>1, ZenonT(40) DEF Hubs
    <2>3. [w.hub EXCEPT !.ping = "none"] \in Hubs /\ [w.hub EXCEPT !.ping = "fired"] \in Hubs
      BY ZenonT(40) DEF Hubs, IsClient
    <2> QED BY <2>2, <2>3 DEF Pinged
  <1>3. PingFires(w) = IF w.hub.state = "Connected" /\ w.conn.state = "Connected"
                       THEN [v EXCEPT !.hub.pinging = TRUE]
                       ELSE IF w.hub.state = "Connected" THEN [w EXCEPT !.hub.ping = "none"]
                       ELSE [w EXCEPT !.hub.ping = "fired"]
    BY DEF PingFires, CleanupPingTimer
  <1> HIDE DEF v
  <1>4. /\ DOMAIN PingFires(w) = {"conn", "hub"} /\ PingFires(w).conn = w.conn
        /\ PingFires(w).hub = Pinged(w.conn, w.hub)
    BY <1>1, <1>3 DEF IsClient, Pinged
  <1> QED BY <1>2, <1>4 DEF IsClient

-----------------------------------------------------------------------------
(* What every step keeps *)

\* The session a page sees, of a hub h
Status(h) ==
    IF h.session = "open" THEN "open" ELSE IF h.state = "Disconnected" THEN "idle" ELSE "starting"
Told(h) == h.session # "open" /\ h.session # "spurious"
SessionStep(h, k) ==
    \/ Status(k) = Status(h) /\ Told(k) = Told(h)
    \/ Status(h) = "idle" /\ Status(k) = "starting" /\ Told(k) = Told(h)
    \/ Status(h) = "starting" /\ Status(k) = "idle" /\ Told(k) = Told(h)
    \/ Status(h) = "starting" /\ Status(k) = "open" /\ ~Told(k)
    \/ Status(h) = "open" /\ Told(k) /\ Status(k) \in {"idle", "starting"}

Safe(c, h, d, k) ==
    /\ ClientInv(d, k)
    /\ h.state = "Disconnecting" /\ h.start # "ping" => k.state # "Connected"
    /\ SessionStep(h, k)

\* How _stopConnection can come out, over a hub that does not wait for a reconnect attempt
StopOutcomes(c, h, d, k) ==
    \/ c.state \in {"Disconnected", "Connecting"} /\ d = NoTransport(c) /\ k = h
    \/ c.state \notin {"Disconnected", "Connecting"} /\ ~c.started /\ d = Ended(c) /\ k = h
    \/ /\ c.state \notin {"Disconnected", "Connecting"} /\ c.started
       /\ \/ /\ h.state \in {"Connected", "Disconnecting"} => ~h.started
             /\ d = Ended(c) /\ k = Dropped(h)
          \/ /\ h.state \in {"Connected", "Disconnecting"} /\ h.started /\ ~h.restart
             /\ d = Ended(c) /\ k = Closed(Dropped(h))
          \/ /\ h.state \in {"Connected", "Disconnecting"} /\ h.started /\ h.restart
             /\ d = Negotiating(Ended(c)) /\ k = Restarted(Dropped(h))
          \/ /\ h.state = "Connected" /\ h.retries > 0
             /\ d = Ended(c) /\ k = [Reconnecting(Dropped(h)) EXCEPT !.delay = TRUE]
          \/ /\ h.state = "Connected" /\ h.retries > 0
             /\ d = Ended(c) /\ k = Halted(Reconnecting(Dropped(h)))

\* _stopConnection has no other outcome.
LEMMA StopsComeOut ==
    ASSUME NEW c \in Conns, NEW h \in Hubs, ~h.delay, NEW d, NEW k, Stops(c, h, d, k)
    PROVE  StopOutcomes(c, h, d, k)
  <1> DEFINE e == Ended(c)
             g == Dropped(h)
             r == Reconnecting(g)
  <1>1. e.state = "Disconnected"
    BY DEF Ended, NoTransport, Conns
  <1>2. Stopping(e) = e
    BY <1>1 DEF Stopping
  <1>3. g.started = h.started /\ g.restart = h.restart /\ g.retries = h.retries
    BY DEF Dropped, NoTimers, Hubs
  <1>4. ~r.delay /\ r.state = "Reconnecting"
    BY DEF Dropped, NoTimers, Hubs, Reconnecting
  <1> HIDE DEF e, g, r
  <1>5. CASE c.state \in {"Disconnected", "Connecting"}
    BY <1>5 DEF Stops, StopOutcomes
  <1>6. CASE c.state \notin {"Disconnected", "Connecting"} /\ ~c.started
    BY <1>6 DEF Stops, StopOutcomes
  <1>7. CASE c.state \notin {"Disconnected", "Connecting"} /\ c.started
    <2>1. Closes(e, h, d, k)
      BY <1>7 DEF Stops, e
    <2>2. ASSUME Completes(e, g, d, k), h.state \in {"Connected", "Disconnecting"}
          PROVE  StopOutcomes(c, h, d, k)
      BY <1>3, <1>7, <2>2 DEF Completes, StopOutcomes, e, g
    <2>3. ASSUME h.state = "Connected", Reconnects(e, g, d, k)
          PROVE  StopOutcomes(c, h, d, k)
      <3>1. h.retries \in Int /\ (~(h.retries > 0) <=> h.retries <= 0)
        BY DEF Hubs
      <3>2. CASE h.retries <= 0
        <4>1. Completes(e, g, d, k)
          BY <1>3, <2>3, <3>1, <3>2 DEF Reconnects
        <4> QED BY <2>2, <2>3, <4>1
      <3>3. CASE h.retries > 0 /\ d = e /\ k = [r EXCEPT !.delay = TRUE]
        BY <1>7, <2>3, <3>3 DEF StopOutcomes, e, g, r
      <3>4. CASE h.retries > 0 /\ HubStops(e, r, d, k)
        <4>1. d = e /\ k = Halted(r)
          BY <1>2, <1>4, <3>4 DEF HubStops, Halted
        <4> QED BY <1>7, <2>3, <3>4, <4>1 DEF StopOutcomes, e, g, r
      <3> QED BY <1>3, <2>3, <3>1, <3>2, <3>3, <3>4 DEF Reconnects, r
    <2>4. \/ h.state = "Disconnecting" /\ Completes(e, g, d, k)
          \/ h.state = "Connected" /\ Reconnects(e, g, d, k)
          \/ h.state = "Connected" /\ Completes(e, g, d, k)
          \/ h.state \notin {"Disconnecting", "Connected"} /\ d = e /\ k = g
      BY <2>1 DEF Closes, g
    <2>5. CASE h.state \notin {"Disconnecting", "Connected"} /\ d = e /\ k = g
      BY <1>7, <2>5 DEF StopOutcomes, e, g
    <2> QED BY <2>2, <2>3, <2>4, <2>5
  <1> QED BY <1>5, <1>6, <1>7

-----------------------------------------------------------------------------
(* What each action does to the two records *)

\* The connection has started: the handshake request goes out.
LEMMA HttpStartedDoes ==
    ASSUME TypeOK, HttpStarted
    PROVE  /\ conn' \in Conns /\ hub' \in Hubs
           /\ conn' = Sending([conn EXCEPT !.result = "none"])
           /\ hub' = KeptAlive([conn EXCEPT !.result = "none"], [hub EXCEPT !.start = "sent"])
  <1> DEFINE v == SendHandshake(Client)
  <1>1. conn' = v.conn /\ hub' = v.hub
    BY DEF HttpStarted, Become
  <1>2. /\ IsClient(v) /\ v.conn = Sending([conn EXCEPT !.result = "none"])
        /\ v.hub = KeptAlive([conn EXCEPT !.result = "none"], [hub EXCEPT !.start = "sent"])
    BY ClientIs, SendHandshakeCall, Zenon
  <1> HIDE DEF v
  <1> QED BY <1>1, <1>2 DEF IsClient

\* A start of the hub throws.
LEMMA StartFailedDoes ==
    ASSUME TypeOK, HttpStartFailed \/ StartStopped
    PROVE  conn' \in Conns /\ hub' \in Hubs /\ StartFails(conn, hub, conn', hub')
  <1> DEFINE v == StartFailed(Client)
  <1>1. conn' = v.conn /\ hub' = v.hub
    BY DEF HttpStartFailed, StartStopped, Become
  <1>2. IsClient(v) /\ StartFails(conn, hub, v.conn, v.hub)
    BY ClientIs, StartFailedCall
  <1> HIDE DEF v
  <1> QED BY <1>1, <1>2 DEF IsClient

\* The handshake request is sent.
LEMMA HandshakeSentDoes ==
    ASSUME TypeOK, HandshakeSent
    PROVE  LET c == [conn EXCEPT !.post = "none"]
               h == [hub EXCEPT !.start = "handshake", !.timer = FALSE]
           IN  /\ conn' \in Conns /\ hub' \in Hubs
               /\ conn' = c /\ hub' = KeptAlive(c, TimeoutReset(c, h))
  <1> DEFINE v == AwaitHandshake(Client)
             c == [conn EXCEPT !.post = "none"]
             h == [hub EXCEPT !.start = "handshake", !.timer = FALSE]
  <1>1. conn' = v.conn /\ hub' = v.hub
    BY DEF HandshakeSent, Become
  <1>2. IsClient(v) /\ v.conn = c /\ v.hub = KeptAlive(c, TimeoutReset(c, h))
    BY ClientIs, AwaitHandshakeCall, Zenon
  <1> HIDE DEF v
  <1> QED BY <1>1, <1>2 DEF IsClient

\* The handshake promise is settled.
LEMMA HandshakeAnsweredDoes ==
    ASSUME TypeOK, HandshakeAnswered
    PROVE  conn' \in Conns /\ hub' \in Hubs /\ HandshakeSettles(conn, hub, conn', hub')
  <1> DEFINE v == HandshakeSettled(Client)
  <1>1. conn' = v.conn /\ hub' = v.hub
    BY DEF HandshakeAnswered, Become
  <1>2. IsClient(v) /\ HandshakeSettles(conn, hub, v.conn, v.hub)
    BY ClientIs, HandshakeSettledCall
  <1> HIDE DEF v
  <1> QED BY <1>1, <1>2 DEF IsClient

\* The ping that ends a start is sent.
LEMMA PingSentDoes ==
    ASSUME TypeOK, PingSent
    PROVE  conn' \in Conns /\ hub' \in Hubs /\ StartSucceeds(conn, hub, conn', hub')
  <1> DEFINE v == StartSucceeded(Client)
  <1>1. conn' = v.conn /\ hub' = v.hub
    BY DEF PingSent, Become
  <1>2. IsClient(v) /\ StartSucceeds(conn, hub, v.conn, v.hub)
    BY ClientIs, StartSucceededCall
  <1> HIDE DEF v
  <1> QED BY <1>1, <1>2 DEF IsClient

\* The handshake request or the ping of a start is not sent.
LEMMA SendFailedDoes ==
    ASSUME TypeOK, SendFailed
    PROVE  conn' \in Conns /\ hub' \in Hubs /\ HandshakeFails(conn, hub, conn', hub')
  <1> DEFINE v == HandshakeFailed(Client)
  <1>1. conn' = v.conn /\ hub' = v.hub
    BY DEF SendFailed, Become
  <1>2. IsClient(v) /\ HandshakeFails(conn, hub, v.conn, v.hub)
    BY ClientIs, HandshakeFailedCall
  <1> HIDE DEF v
  <1> QED BY <1>1, <1>2 DEF IsClient

\* The two starts that are called from outside: by the page and by the delay of _reconnect
LEMMA PageStartsDoes ==
    ASSUME TypeOK, PageStarts
    PROVE  /\ conn' \in Conns /\ hub' \in Hubs /\ conn' = Negotiating(conn)
           /\ hub' = Attempting([hub EXCEPT !.state = "Connecting", !.reconnecting = FALSE])
  <1> DEFINE v == HubStart(Client)
  <1>1. conn' = v.conn /\ hub' = v.hub
    BY DEF PageStarts, Become
  <1>2. hub.state = "Disconnected"
    BY DEF PageStarts
  <1>3. /\ IsClient(v) /\ v.conn = Negotiating(conn)
        /\ v.hub = Attempting([hub EXCEPT !.state = "Connecting", !.reconnecting = FALSE])
    BY <1>2, ClientIs, HubStartCall, Zenon
  <1> HIDE DEF v
  <1> QED BY <1>1, <1>3 DEF IsClient

\* The delay of a reconnect attempt is over.
LEMMA DelayElapsesDoes ==
    ASSUME TypeOK, hub.state = "Reconnecting", DelayElapses
    PROVE  /\ conn' \in Conns /\ hub' \in Hubs /\ conn' = Negotiating(conn)
           /\ hub' = Attempting([hub EXCEPT !.delay = FALSE, !.reconnecting = TRUE])
  <1> DEFINE v == ReconnectAttempt(Client)
  <1>1. conn' = v.conn /\ hub' = v.hub
    BY DEF DelayElapses, Become
  <1>2. /\ IsClient(v) /\ v.conn = Negotiating(conn)
        /\ v.hub = Attempting([hub EXCEPT !.delay = FALSE, !.reconnecting = TRUE])
    BY ClientIs, ReconnectAttemptCall, Zenon
  <1> HIDE DEF v
  <1> QED BY <1>1, <1>2 DEF IsClient

\* The page calls stop().
LEMMA PageStopsDoes ==
    ASSUME TypeOK, PageStops
    PROVE  conn' \in Conns /\ hub' \in Hubs /\ HubStops(conn, hub, conn', hub')
  <1> DEFINE v == HubStop(Client)
  <1>1. conn' = v.conn /\ hub' = v.hub
    BY DEF PageStops, Become
  <1>2. IsClient(v) /\ HubStops(conn, hub, v.conn, v.hub)
    BY ClientIs, HubStopCall
  <1> HIDE DEF v
  <1> QED BY <1>1, <1>2 DEF IsClient

\* The server timeout fires.
LEMMA ServerTimeoutDoes ==
    ASSUME TypeOK, ServerTimeout
    PROVE  /\ conn' \in Conns /\ hub' \in Hubs
           /\ conn' = Stopping(conn) /\ hub' = [hub EXCEPT !.timer = FALSE]
  <1> DEFINE u == CleanupTimeout(Client)
             v == HttpStop(u)
  <1>1. conn' = v.conn /\ hub' = v.hub
    BY DEF ServerTimeout, Become, CleanupTimeout
  <1>2. IsClient(u) /\ u.conn = conn /\ u.hub = [hub EXCEPT !.timer = FALSE]
    BY ClientIs, CleanupTimeoutCall, Zenon
  <1> HIDE DEF u
  <1>3. IsClient(v) /\ v.conn = Stopping(conn) /\ v.hub = [hub EXCEPT !.timer = FALSE]
    BY <1>2, HttpStopCall
  <1> HIDE DEF v
  <1> QED BY <1>1, <1>3 DEF IsClient

\* The ping timer fires.
LEMMA PingTimerDoes ==
    ASSUME TypeOK, PingTimer
    PROVE  conn' \in Conns /\ hub' \in Hubs /\ conn' = conn /\ hub' = Pinged(conn, hub)
  <1> DEFINE v == PingFires(Client)
  <1>1. conn' = v.conn /\ hub' = v.hub
    BY DEF PingTimer, Become
  <1>2. IsClient(v) /\ v.conn = conn /\ v.hub = Pinged(conn, hub)
    BY ClientIs, PingCall
  <1> HIDE DEF v
  <1> QED BY <1>1, <1>2 DEF IsClient

\* The send of a ping returns or throws.
LEMMA PingEndsDoes ==
    ASSUME TypeOK, PingEnds
    PROVE  /\ conn' \in Conns /\ hub' \in Hubs /\ conn' = conn
           /\ \/ hub' = [hub EXCEPT !.pinging = FALSE]
              \/ hub' = [hub EXCEPT !.ping = "none", !.pinging = FALSE]
  <1>1. /\ [hub EXCEPT !.pinging = FALSE] \in Hubs
        /\ [hub EXCEPT !.ping = "none", !.pinging = FALSE] \in Hubs
    BY ZenonT(40) DEF TypeOK, Hubs
  <1>2. CASE Become([Client EXCEPT !.hub.pinging = FALSE])
    <2>1. conn' = conn /\ hub' = [hub EXCEPT !.pinging = FALSE]
      BY <1>2 DEF Become, Client
    <2> QED BY <1>1, <2>1 DEF TypeOK
  <1>3. CASE Become([CleanupPingTimer(Client) EXCEPT !.hub.pinging = FALSE])
    <2>1. conn' = conn /\ hub' = [hub EXCEPT !.ping = "none", !.pinging = FALSE]
      BY <1>3 DEF Become, Client, CleanupPingTimer
    <2> QED BY <1>1, <2>1 DEF TypeOK
  <1> QED BY <1>2, <1>3 DEF PingEnds

\* The negotiation is answered, fails or times out.
LEMMA NegotiateEndsDoes ==
    ASSUME TypeOK, NegotiateEnds
    PROVE  /\ conn' \in Conns /\ hub' \in Hubs /\ hub' = hub
           /\ \E endpoints \in Endpoints : Negotiates(conn, endpoints, conn')
  <1>1. PICK kind \in {"fail", "error", "redirect", "ok"}, offer \in Offers :
            Become(Negotiated(Client, kind, offer))
    BY DEF NegotiateEnds
  <1> DEFINE v == Negotiated(Client, kind, offer)
  <1>2. conn' = v.conn /\ hub' = v.hub
    BY <1>1 DEF Become
  <1>3. offer \in Endpoints
    BY OfferWhole
  <1>4. IsClient(v) /\ v.hub = hub /\ Negotiates(conn, offer, v.conn)
    BY <1>3, ClientIs, NegotiatedCall
  <1> HIDE DEF v
  <1> QED BY <1>2, <1>3, <1>4 DEF IsClient

\* connect() of the transport resolves.
LEMMA TransportConnectsDoes ==
    ASSUME TypeOK, TransportConnects
    PROVE  /\ conn' \in Conns /\ hub' \in Hubs
           /\ \/ conn.transport # "LongPolling" /\ Connects(conn, conn') /\ hub' = hub
              \/ /\ conn.transport = "LongPolling"
                 /\ \E status \in FirstPoll : LongPolls(conn, hub, status, conn', hub')
  <1>1. CASE conn.transport = "LongPolling"
    <2>1. PICK status \in FirstPoll : Become(LongPollingConnects(Client, status))
      BY <1>1 DEF TransportConnects
    <2> DEFINE v == LongPollingConnects(Client, status)
    <2>2. conn' = v.conn /\ hub' = v.hub
      BY <2>1 DEF Become
    <2>3. IsClient(v) /\ LongPolls(conn, hub, status, v.conn, v.hub)
      BY ClientIs, LongPollingCall
    <2> HIDE DEF v
    <2> QED BY <1>1, <2>2, <2>3 DEF IsClient
  <1>2. CASE conn.transport # "LongPolling"
    <2> DEFINE v == ConnectSucceeded(Client)
    <2>1. conn' = v.conn /\ hub' = v.hub
      BY <1>2 DEF TransportConnects, Become
    <2>2. IsClient(v) /\ v.hub = hub /\ Connects(conn, v.conn)
      BY ClientIs, ConnectSucceededCall
    <2> HIDE DEF v
    <2> QED BY <1>2, <2>1, <2>2 DEF IsClient
  <1> QED BY <1>1, <1>2

\* connect() of the transport is rejected.
LEMMA TransportFailsDoes ==
    ASSUME TypeOK, TransportFailsToConnect
    PROVE  /\ conn' \in Conns /\ hub' \in Hubs /\ hub' = hub
           /\ \/ conn.state = "Connecting" /\ Tries(conn, "renegotiating", conn')
              \/ conn' = StartCaught(conn)
  <1> DEFINE v == ConnectFailed(Client)
  <1>1. conn' = v.conn /\ hub' = v.hub
    BY DEF TransportFailsToConnect, Become
  <1>2. /\ IsClient(v) /\ v.hub = hub
        /\ \/ conn.state = "Connecting" /\ Tries(conn, "renegotiating", v.conn)
           \/ v.conn = StartCaught(conn)
    BY ClientIs, ConnectFailedCall
  <1> HIDE DEF v
  <1> QED BY <1>1, <1>2 DEF IsClient

\* send() of the transport returns or throws.
LEMMA SendEndsDoes ==
    ASSUME TypeOK, SendEnds
    PROVE  /\ conn' \in Conns /\ hub' = hub
           /\ \E r \in {"ok", "fail"} : conn' = [conn EXCEPT !.post = r]
  <1>1. PICK r \in {"ok", "fail"} : Become([Client EXCEPT !.conn.post = r])
    BY DEF SendEnds
  <1>2. conn' = [conn EXCEPT !.post = r] /\ hub' = hub
    BY <1>1 DEF Become, Client
  <1>3. [conn EXCEPT !.post = r] \in Conns
    BY ZenonT(40) DEF TypeOK, Conns
  <1> QED BY <1>2, <1>3

\* The headers of a poll arrive.
LEMMA PollHeadersDoes ==
    ASSUME TypeOK, PollHeaders
    PROVE  /\ conn' \in Conns /\ hub' = hub
           /\ conn' = [conn EXCEPT !.poll = Headers(conn.poll)]
  <1>1. conn' = [conn EXCEPT !.poll = Headers(conn.poll)] /\ hub' = hub
    BY DEF PollHeaders, Become, Client
  <1>2. conn.poll \in Requests /\ conn \in Conns
    BY DEF TypeOK, Conns
  <1>3. Headers(conn.poll) \in Requests
    BY <1>2, RequestTypes
  <1> QED BY <1>1, <1>2, <1>3, PollSet, Zenon

\* A poll is answered.
LEMMA PollAnsweredDoes ==
    ASSUME TypeOK, PollAnswered, ~hub.delay
    PROVE  /\ conn' \in Conns /\ hub' \in Hubs
           /\ \/ PollDelivers(conn, hub, conn', hub')
              \/ PollGoesOn(conn.running, conn, hub, conn', hub')
              \/ PollStops(conn, hub, conn', hub')
  <1>1. CASE \E records \in Chunks : Become(PollReceives(Client, records))
    <2>1. PICK records \in Chunks : Become(PollReceives(Client, records))
      BY <1>1
    <2> DEFINE v == PollReceives(Client, records)
    <2>2. conn' = v.conn /\ hub' = v.hub
      BY <2>1 DEF Become
    <2>3. IsClient(v) /\ PollDelivers(conn, hub, v.conn, v.hub)
      BY ClientIs, PollReceivesCall
    <2> HIDE DEF v
    <2> QED BY <2>2, <2>3 DEF IsClient
  <1>2. CASE Become(PollContinues(Client, conn.running))
    <2> DEFINE v == PollContinues(Client, conn.running)
    <2>1. conn' = v.conn /\ hub' = v.hub
      BY <1>2 DEF Become
    <2>2. IsClient(v) /\ PollGoesOn(conn.running, conn, hub, v.conn, v.hub)
      BY ClientIs, PollContinuesCall
    <2> HIDE DEF v
    <2> QED BY <2>1, <2>2 DEF IsClient
  <1>3. CASE Become(PollEnds(Client))
    <2> DEFINE v == PollEnds(Client)
    <2>1. conn' = v.conn /\ hub' = v.hub
      BY <1>3 DEF Become
    <2>2. IsClient(v) /\ PollStops(conn, hub, v.conn, v.hub)
      BY ClientIs, PollEndsCall
    <2> HIDE DEF v
    <2> QED BY <2>1, <2>2 DEF IsClient
  <1> QED BY <1>1, <1>2, <1>3 DEF PollAnswered

\* A poll that ends without an answer
LEMMA PollUnansweredDoes ==
    ASSUME TypeOK, PollTimesOut \/ PollFails
    PROVE  \E r \in Requests :
              LET c == [conn EXCEPT !.poll = r]
              IN  /\ conn' \in Conns /\ hub' \in Hubs /\ c \in Conns
                  /\ \/ conn.poll.phase = "fetching"
                            /\ PollGoesOn(conn.running, c, hub, conn', hub')
                     \/ PollStops(c, hub, conn', hub')
  <1>1. conn.poll \in Requests /\ conn.fetch \in BOOLEAN /\ conn \in Conns
    BY DEF TypeOK, Conns
  <1> DEFINE more == conn.running
             c(r) == [conn EXCEPT !.poll = r]
             u(r) == [Client EXCEPT !.conn.poll = r]
  <1>2. ASSUME NEW r \in Requests PROVE IsClient(u(r)) /\ u(r).conn = c(r) /\ u(r).hub = hub
    <2>1. c(r) \in Conns
      BY <1>1, PollSet, Zenon
    <2> QED BY <2>1, ClientIs DEF IsClient
  <1>3. CASE PollTimesOut
    <2> DEFINE r == TimedOut(conn.poll, conn.fetch)
               x == u(r)
               v == PollContinues(x, more)
    <2>1. r \in Requests
      BY <1>1, RequestTypes
    <2>2. conn' = v.conn /\ hub' = v.hub /\ conn.poll.phase = "fetching"
      BY <1>3 DEF PollTimesOut, Become, Client
    <2> HIDE DEF r
    <2>3. IsClient(x) /\ x.conn = c(r) /\ x.hub = hub
      BY <1>2, <2>1
    <2> HIDE DEF x, c, u, more
    <2>4. IsClient(v) /\ PollGoesOn(more, x.conn, x.hub, v.conn, v.hub)
      BY <2>3, PollContinuesCall
    <2> HIDE DEF v
    <2>5. /\ conn' \in Conns /\ hub' \in Hubs /\ c(r) \in Conns
          /\ conn.poll.phase = "fetching" /\ PollGoesOn(more, c(r), hub, conn', hub')
      BY <2>2, <2>3, <2>4 DEF IsClient
    <2> QED BY <2>1, <2>5, ZenonT(40) DEF c, more
  <1>4. CASE PollFails
    <2> DEFINE r == Failed(conn.poll, conn.fetch)
               x == u(r)
               v == PollEnds(x)
    <2>1. r \in Requests
      BY <1>1, RequestTypes
    <2>2. conn' = v.conn /\ hub' = v.hub
      BY <1>4 DEF PollFails, Become, Client
    <2> HIDE DEF r
    <2>3. IsClient(x) /\ x.conn = c(r) /\ x.hub = hub
      BY <1>2, <2>1
    <2> HIDE DEF x, c, u
    <2>4. IsClient(v) /\ PollStops(x.conn, x.hub, v.conn, v.hub)
      BY <2>3, PollEndsCall
    <2> HIDE DEF v
    <2>5. /\ conn' \in Conns /\ hub' \in Hubs /\ c(r) \in Conns
          /\ PollStops(c(r), hub, conn', hub')
      BY <2>2, <2>3, <2>4 DEF IsClient
    <2> QED BY <2>1, <2>5, ZenonT(40) DEF c
  <1> QED BY <1>3, <1>4

\* stop(): the continuations after its awaits
LEMMA StopContinuesDoes ==
    ASSUME TypeOK, HttpStartStopped \/ SendDelete \/ TransportStopped \/ HttpStopped
    PROVE  /\ conn' \in Conns /\ hub' = hub
           /\ \/ HttpStartStopped /\ conn' = [conn EXCEPT !.start = "none", !.result = "fail"]
              \/ SendDelete /\ conn' = [conn EXCEPT !.stop = "deleting"]
              \/ TransportStopped
                     /\ conn' = [conn EXCEPT !.transport = "none", !.stop = "awaitPromise"]
              \/ HttpStopped /\ conn' = [conn EXCEPT !.stop = "none"]
  <1>1. "none" \in Transports \cup {"none"}
    OBVIOUS
  <1>2. /\ [conn EXCEPT !.start = "none", !.result = "fail"] \in Conns
        /\ [conn EXCEPT !.transport = "none", !.stop = "awaitPromise"] \in Conns
        /\ \A x \in {"deleting", "none"} : [conn EXCEPT !.stop = x] \in Conns
    <2>1. [conn EXCEPT !.start = "none", !.result = "fail"] \in Conns
      BY ZenonT(40) DEF TypeOK, Conns
    <2>2. [conn EXCEPT !.transport = "none", !.stop = "awaitPromise"] \in Conns
      BY <1>1, ZenonT(40) DEF TypeOK, Conns
    <2>3. \A x \in {"deleting", "none"} : [conn EXCEPT !.stop = x] \in Conns
      BY ZenonT(40) DEF TypeOK, Conns
    <2> QED BY <2>1, <2>2, <2>3, Zenon
  <1>3. CASE HttpStartStopped
    <2>1. conn' = [conn EXCEPT !.start = "none", !.result = "fail"] /\ hub' = hub
      BY <1>3 DEF HttpStartStopped, Become, Client
    <2> QED BY <1>2, <1>3, <2>1
  <1>4. CASE SendDelete
    <2>1. conn' = [conn EXCEPT !.stop = "deleting"] /\ hub' = hub
      BY <1>4 DEF SendDelete, Become, Client
    <2> QED BY <1>2, <1>4, <2>1
  <1>5. CASE TransportStopped
    <2>1. conn' = [conn EXCEPT !.transport = "none", !.stop = "awaitPromise"] /\ hub' = hub
      BY <1>5 DEF TransportStopped, Become, Client
    <2> QED BY <1>2, <1>5, <2>1
  <1>6. CASE HttpStopped
    <2>1. conn' = [conn EXCEPT !.stop = "none"] /\ hub' = hub
      BY <1>6 DEF HttpStopped, Become, Client
    <2> QED BY <1>2, <1>6, <2>1
  <1> QED BY <1>3, <1>4, <1>5, <1>6

\* stop() of the transport: nothing to stop, the abort of a polling loop, the close of a stream
Aborting(c) ==
    [c EXCEPT !.running = FALSE, !.aborted = TRUE,
              !.poll = IF Abort(c.poll).error = "AbortError" THEN Idle ELSE Abort(c.poll),
              !.stop = "awaitPoll"]

LEMMA HttpStopTransportDoes ==
    ASSUME TypeOK, HttpStopTransport
    PROVE  /\ conn' \in Conns /\ hub' \in Hubs
           /\ \/ conn.transport = "none" /\ conn' = [conn EXCEPT !.stop = "awaitPromise"]
                     /\ hub' = hub
              \/ conn.transport = "LongPolling" /\ conn' = Aborting(conn) /\ hub' = hub
              \/ /\ conn.transport \notin {"none", "LongPolling"}
                 /\ [conn EXCEPT !.stop = "stopped"] \in Conns
                 /\ Stops([conn EXCEPT !.stop = "stopped"], hub, conn', hub')
  <1>1. conn \in Conns /\ conn.poll \in Requests
    BY DEF TypeOK, Conns
  <1>2. /\ [conn EXCEPT !.stop = "awaitPromise"] \in Conns
        /\ [conn EXCEPT !.stop = "stopped"] \in Conns
    BY <1>1, ZenonT(40) DEF Conns
  <1>3. CASE conn.transport = "none"
    <2>1. Become([Client EXCEPT !.conn.stop = "awaitPromise"])
      BY <1>3 DEF HttpStopTransport
    <2>2. conn' = [conn EXCEPT !.stop = "awaitPromise"] /\ hub' = hub
      BY <2>1 DEF Become, Client
    <2> QED BY <1>2, <1>3, <2>2 DEF TypeOK
  <1>4. CASE conn.transport = "LongPolling"
    <2> DEFINE r == Abort(conn.poll)
               p == IF r.error = "AbortError" THEN Idle ELSE r
    <2>1. Become([Client EXCEPT !.conn.running = FALSE, !.conn.aborted = TRUE,
                                !.conn.poll = p, !.conn.stop = "awaitPoll"])
      BY <1>4 DEF HttpStopTransport
    <2>2. p \in Requests
      BY <1>1, RequestTypes
    <2>3. [conn EXCEPT !.running = FALSE, !.aborted = TRUE, !.poll = p, !.stop = "awaitPoll"]
              \in Conns
      <3> HIDE DEF p
      <3> QED BY <1>1, <2>2, ZenonT(40) DEF Conns
    <2>4. conn' = [conn EXCEPT !.running = FALSE, !.aborted = TRUE, !.poll = p,
                               !.stop = "awaitPoll"] /\ hub' = hub
      <3> HIDE DEF p
      <3> QED BY <2>1 DEF Become, Client
    <2>5. conn' = Aborting(conn)
      BY <2>4 DEF Aborting
    <2> QED BY <1>4, <2>3, <2>4, <2>5 DEF TypeOK
  <1>5. CASE conn.transport \notin {"none", "LongPolling"}
    <2> DEFINE u == [Client EXCEPT !.conn.stop = "stopped"]
               v == StopConnection(u)
    <2>1. Become(v)
      BY <1>5 DEF HttpStopTransport
    <2>2. conn' = v.conn /\ hub' = v.hub
      BY <2>1 DEF Become
    <2>3. IsClient(u) /\ u.conn = [conn EXCEPT !.stop = "stopped"] /\ u.hub = hub
      BY <1>2, ClientIs DEF IsClient
    <2> HIDE DEF u
    <2>4. IsClient(v) /\ Stops(u.conn, u.hub, v.conn, v.hub)
      BY <2>3, StopConnectionCall
    <2> HIDE DEF v
    <2> QED BY <1>2, <1>5, <2>2, <2>3, <2>4 DEF IsClient
  <1> QED BY <1>3, <1>4, <1>5

\* The DELETE of a polling transport ends; `s' is what stop() does next if it succeeded.
LEMMA DeleteEndsDoes ==
    ASSUME TypeOK, DeleteEnds
    PROVE  \E s \in {"stopped", "none"}, d \in Conns, k \in Hubs :
              /\ conn' \in Conns /\ hub' \in Hubs
              /\ [conn EXCEPT !.stop = s] \in Conns
              /\ Stops([conn EXCEPT !.stop = s], hub, d, k)
              /\ \/ s = "stopped" /\ conn' = d /\ hub' = k
                 \/ /\ s = "none"
                    /\ \E e \in Conns, g \in Hubs :
                          /\ Stops(d, k, e, g) /\ hub' = g
                          /\ \/ d.state = "Connecting" /\ conn' = [e EXCEPT !.stopThrew = TRUE]
                             \/ d.state # "Connecting" /\ conn' = [e EXCEPT !.stop = "stopped"]
  <1> DEFINE u(s) == [Client EXCEPT !.conn.stop = s]
  <1>1. ASSUME NEW s \in {"stopped", "none"}
        PROVE  /\ IsClient(u(s)) /\ u(s).conn = [conn EXCEPT !.stop = s] /\ u(s).hub = hub
               /\ [conn EXCEPT !.stop = s] \in Conns
    <2>1. [conn EXCEPT !.stop = s] \in Conns
      BY ZenonT(40) DEF TypeOK, Conns
    <2> QED BY <2>1, ClientIs DEF IsClient
  <1>2. CASE Become(StopConnection(u("stopped")))
    <2> DEFINE x == u("stopped")
               v == StopConnection(x)
    <2>1. conn' = v.conn /\ hub' = v.hub
      BY <1>2 DEF Become
    <2>2. /\ IsClient(x) /\ x.conn = [conn EXCEPT !.stop = "stopped"] /\ x.hub = hub
          /\ [conn EXCEPT !.stop = "stopped"] \in Conns
      BY <1>1
    <2> HIDE DEF x, u
    <2>3. IsClient(v) /\ Stops(x.conn, x.hub, v.conn, v.hub)
      BY <2>2, StopConnectionCall
    <2> HIDE DEF v
    <2>4. conn' \in Conns /\ hub' \in Hubs /\ Stops([conn EXCEPT !.stop = "stopped"], hub, conn', hub')
      BY <2>1, <2>2, <2>3 DEF IsClient
    <2> QED BY <2>2, <2>4
  <1> DEFINE y == u("none")
             v == StopConnection(y)
             z == StopConnection(v)
  <1>3. CASE IF Throws(v) THEN Become([z EXCEPT !.conn.stopThrew = TRUE])
                          ELSE Become([z EXCEPT !.conn.stop = "stopped"])
    <2>1. /\ IsClient(y) /\ y.conn = [conn EXCEPT !.stop = "none"] /\ y.hub = hub
          /\ [conn EXCEPT !.stop = "none"] \in Conns
      BY <1>1
    <2> HIDE DEF y, u
    <2>2. IsClient(v) /\ Stops(y.conn, y.hub, v.conn, v.hub)
      BY <2>1, StopConnectionCall
    <2>3. Throws(v) <=> v.conn.state = "Connecting"
      BY DEF Throws
    <2> HIDE DEF v
    <2>4. IsClient(z) /\ Stops(v.conn, v.hub, z.conn, z.hub)
      BY <2>2, StopConnectionCall
    <2> HIDE DEF z
    <2>5. /\ hub' = z.hub
          /\ \/ v.conn.state = "Connecting" /\ conn' = [z.conn EXCEPT !.stopThrew = TRUE]
             \/ v.conn.state # "Connecting" /\ conn' = [z.conn EXCEPT !.stop = "stopped"]
      BY <1>3, <2>3, <2>4 DEF Become, IsClient
    <2>6. /\ v.conn \in Conns /\ v.hub \in Hubs /\ z.conn \in Conns /\ z.hub \in Hubs
          /\ Stops([conn EXCEPT !.stop = "none"], hub, v.conn, v.hub)
      BY <2>1, <2>2, <2>4 DEF IsClient
    <2>7. /\ [z.conn EXCEPT !.stopThrew = TRUE] \in Conns
          /\ [z.conn EXCEPT !.stop = "stopped"] \in Conns
      BY <2>6, ZenonT(40) DEF Conns
    <2>8. conn' \in Conns /\ hub' \in Hubs
      BY <2>5, <2>6, <2>7
    <2> QED BY <2>1, <2>4, <2>5, <2>6, <2>8
  <1>4. \/ Become(StopConnection(u("stopped")))
        \/ IF Throws(v) THEN Become([z EXCEPT !.conn.stopThrew = TRUE])
                        ELSE Become([z EXCEPT !.conn.stop = "stopped"])
    BY ZenonT(40) DEF DeleteEnds
  <1> HIDE DEF u, y, v, z
  <1> QED BY <1>2, <1>3, <1>4

\* A text arrives over a WebSocket or an EventSource.
LEMMA ReceiveDoes ==
    ASSUME TypeOK, Receive, ~hub.delay
    PROVE  conn' \in Conns /\ hub' \in Hubs /\ Arrives(conn, hub, conn', hub')
  <1>1. PICK records \in Chunks : Become(MessageArrives(Client, records))
    BY DEF Receive
  <1> DEFINE v == MessageArrives(Client, records)
  <1>2. conn' = v.conn /\ hub' = v.hub
    BY <1>1 DEF Become
  <1>3. IsClient(v) /\ Arrives(conn, hub, v.conn, v.hub)
    BY ClientIs, MessageCall
  <1> HIDE DEF v
  <1> QED BY <1>2, <1>3 DEF IsClient

\* A WebSocket or an EventSource closes.
LEMMA TransportClosesDoes ==
    ASSUME TypeOK, TransportCloses
    PROVE  conn' \in Conns /\ hub' \in Hubs /\ Stops(conn, hub, conn', hub')
  <1> DEFINE v == StopConnection(Client)
  <1>1. conn' = v.conn /\ hub' = v.hub
    BY DEF TransportCloses, Become
  <1>2. IsClient(v) /\ Stops(conn, hub, v.conn, v.hub)
    BY ClientIs, StopConnectionCall
  <1> HIDE DEF v
  <1> QED BY <1>1, <1>2 DEF IsClient

-----------------------------------------------------------------------------
(* _stopConnection keeps the invariant *)

\* What _stopConnection finds, wherever it is called while the connection is open: the polling
\* loop is over, and neither a start of the connection nor its result is waited for.
Closable(c, h) ==
    /\ c.state \in {"Connected", "Disconnecting"} /\ (c.state = "Connected" => c.started)
    /\ c.start \in {"none", "awaitStop"} /\ c.stop \in {"none", "stopped"}
    /\ c.result # "ok" /\ (c.result = "fail" => c.start = "none")
    /\ c.poll.phase = "idle" /\ ~c.running /\ (c.state = "Connected" => ~c.aborted)
    /\ c.post = "ok" => c.stop = "none"
    /\ HubInv(h) /\ ~h.delay
    /\ h.state = "Connected" => h.started
    /\ ~c.started \/ c.start = "awaitStop" => h.start = "http"
    /\ h.start \notin {"sent", "ping"} => c.post = "none"
    /\ c.inherentKeepAlive \/ h.start = "http" => ~h.timer
    /\ c.transport \in {"none", "LongPolling"} \/ h.start = "http" => h.ping = "none"

USE DEF Conns, Hubs, Requests, HubStates, Transports, ClientInv, StateInv, TransportInv,
        PollInv, HubInv, StatesInv, StartInv, TimersInv, FirstPollInv,
        Safe, SessionStep, Status, Told

\* _stopConnection of a connection that may be closed keeps the invariant and leaves no transport.
LEMMA StopsSafely ==
    ASSUME NEW c \in Conns, NEW h \in Hubs, Closable(c, h), NEW d, NEW k, Stops(c, h, d, k)
    PROVE  /\ Safe(c, h, d, k)
           /\ d.state \in {"Disconnected", "Connecting"} /\ d.transport = "none"
           /\ d.stop = c.stop /\ d.post = c.post /\ k.state # "Connected"
  <1> DEFINE Goal == /\ Safe(c, h, d, k)
                     /\ d.state \in {"Disconnected", "Connecting"} /\ d.transport = "none"
                     /\ d.stop = c.stop /\ d.post = c.post /\ k.state # "Connected"
  <1>1. StopOutcomes(c, h, d, k)
    <2> HIDE DEF Conns, Hubs
    <2> QED BY StopsComeOut DEF Closable
  <1>2. ASSUME ~c.started, d = Ended(c), k = h
        PROVE  Goal
    BY <1>2, SMTT(30) DEF Closable, Ended, NoTransport
  <1>3. ASSUME c.started, h.state \in {"Connected", "Disconnecting"} => ~h.started,
               d = Ended(c), k = Dropped(h)
        PROVE  Goal
    BY <1>3, SMTT(30) DEF Closable, Ended, NoTransport, Dropped, NoTimers
  <1>4. ASSUME c.started, h.state \in {"Connected", "Disconnecting"}, h.started, ~h.restart,
               d = Ended(c), k = Closed(Dropped(h))
        PROVE  Goal
    BY <1>4, SMTT(30) DEF Closable, Ended, NoTransport, Dropped, NoTimers, Closed, Reported
  <1>5. ASSUME c.started, h.state \in {"Connected", "Disconnecting"}, h.started, h.restart,
               d = Negotiating(Ended(c)), k = Restarted(Dropped(h))
        PROVE  Goal
    BY <1>5, SMTT(30) DEF Closable, Ended, NoTransport, Dropped, NoTimers, Closed, Reported,
                          Negotiating, Restarted, Attempting
  <1>6. ASSUME c.started, h.state = "Connected", h.retries > 0, d = Ended(c),
               k = [Reconnecting(Dropped(h)) EXCEPT !.delay = TRUE]
        PROVE  Goal
    BY <1>6, SMTT(30) DEF Closable, Ended, NoTransport, Dropped, NoTimers, Reconnecting
  <1>7. ASSUME c.started, h.state = "Connected", h.retries > 0, d = Ended(c),
               k = Halted(Reconnecting(Dropped(h)))
        PROVE  Goal
    BY <1>7, SMTT(30) DEF Closable, Ended, NoTransport, Dropped, NoTimers, Reconnecting, Halted
  <1>8. c.state \notin {"Disconnected", "Connecting"}
    BY DEF Closable
  <1> HIDE DEF Goal
  <1> QED BY <1>1, <1>2, <1>3, <1>4, <1>5, <1>6, <1>7, <1>8 DEF StopOutcomes, Goal

-----------------------------------------------------------------------------
(* Every action keeps the invariant *)

USE DEF HubReady, StopReady, StartReady, SendReady, Quiet, StartSettled, PollIdle, Streaming

\* A step of the client, from a state of the invariant
StepIsSafe == conn' \in Conns /\ hub' \in Hubs /\ Safe(conn, hub, conn', hub')

\* The connection has started: the hub sends the handshake request.
LEMMA HttpStartedSafe == ASSUME Inv, HttpStarted PROVE StepIsSafe
  <1>1. /\ conn' \in Conns /\ hub' \in Hubs
        /\ conn' = Sending([conn EXCEPT !.result = "none"])
        /\ hub' = KeptAlive([conn EXCEPT !.result = "none"], [hub EXCEPT !.start = "sent"])
    BY HttpStartedDoes DEF Inv
  <1>2. Safe(conn, hub, conn', hub')
    BY <1>1, SMTT(30) DEF Inv, TypeOK, HttpStarted, Sending, KeptAlive
  <1> QED BY <1>1, <1>2 DEF StepIsSafe

\* A start fails while nothing of its connection is left.
LEMMA StartFailedSafe == ASSUME Inv, HttpStartFailed \/ StartStopped PROVE StepIsSafe
  <1>1. conn' \in Conns /\ hub' \in Hubs /\ StartFails(conn, hub, conn', hub')
    <2> HIDE DEF Conns, Hubs
    <2> QED BY StartFailedDoes DEF Inv
  <1> DEFINE Goal == Safe(conn, hub, conn', hub')
             g == [hub EXCEPT !.start = "none"]
  <1>2. conn \in Conns /\ hub \in Hubs /\ ClientInv(conn, hub)
    BY DEF Inv, TypeOK
  <1>3. \/ hub.start = "http" /\ conn.result = "fail"
        \/ hub.start = "stop" /\ conn.stopPromise = "resolved"
    BY DEF HttpStartFailed, StartStopped
  <1>4. ASSUME conn' = Over(conn), ~hub.reconnecting,
               hub' = [hub EXCEPT !.start = "none", !.state = "Disconnected"]
        PROVE  Goal
    BY <1>2, <1>3, <1>4, SMTT(30) DEF Over
  <1>5. ASSUME conn' = Over(conn), hub.reconnecting, hub' = g,
               hub.state \notin {"Disconnecting", "Reconnecting"}
        PROVE  Goal
    BY <1>2, <1>3, <1>5, SMTT(30) DEF Over
  <1>6. ASSUME conn' = Over(conn), hub.state = "Reconnecting",
               hub' = [hub EXCEPT !.start = "none", !.delay = TRUE, !.attempts = hub.attempts + 1]
        PROVE  Goal
    BY <1>2, <1>3, <1>6, SMTT(30) DEF Over
  <1>7. ASSUME hub.reconnecting, hub.state \in {"Disconnecting", "Reconnecting"},
               Completes(Over(conn), g, conn', hub')
        PROVE  Goal
    <2>1. g.started = hub.started /\ g.restart = hub.restart
      BY <1>2
    <2>2. CASE ~hub.started /\ conn' = Over(conn) /\ hub' = g
      BY <1>2, <1>3, <1>7, <2>2, SMTT(30) DEF Over
    <2>3. CASE hub.started /\ ~hub.restart /\ conn' = Over(conn) /\ hub' = Closed(g)
      BY <1>2, <1>3, <1>7, <2>3, SMTT(30) DEF Over, Closed, Reported
    <2>4. CASE hub.started /\ hub.restart
      BY <1>2, <1>7, <2>4
    <2> HIDE DEF g
    <2> QED BY <1>7, <2>1, <2>2, <2>3, <2>4 DEF Completes
  <1>8. Goal
    <2> HIDE DEF Goal, Conns, Hubs, g
    <2> QED BY <1>1, <1>4, <1>6, <1>7, <1>5 DEF StartFails, g
  <1> QED BY <1>1, <1>8 DEF StepIsSafe

\* The timers are set while the answer to the handshake may already be there.
LEMMA HandshakeSentSafe == ASSUME Inv, HandshakeSent PROVE StepIsSafe
  <1> DEFINE c == [conn EXCEPT !.post = "none"]
             h == [hub EXCEPT !.start = "handshake", !.timer = FALSE]
  <1>1. conn' \in Conns /\ hub' \in Hubs /\ conn' = c /\ hub' = KeptAlive(c, TimeoutReset(c, h))
    BY HandshakeSentDoes DEF Inv
  <1>2. Safe(conn, hub, conn', hub')
    BY <1>1, SMTT(30) DEF Inv, TypeOK, HandshakeSent, KeptAlive, TimeoutReset
  <1> QED BY <1>1, <1>2 DEF StepIsSafe

\* The handshake was answered, rejected or overtaken by a close.
LEMMA HandshakeAnsweredSafe == ASSUME Inv, HandshakeAnswered PROVE StepIsSafe
  <1>1. conn' \in Conns /\ hub' \in Hubs /\ HandshakeSettles(conn, hub, conn', hub')
    BY HandshakeAnsweredDoes DEF Inv
  <1> DEFINE Goal == Safe(conn, hub, conn', hub')
  <1>2. conn \in Conns /\ hub \in Hubs /\ ClientInv(conn, hub)
        /\ hub.start = "handshake" /\ hub.handshake # "pending"
    BY DEF Inv, TypeOK, HandshakeAnswered
  <1>3. ASSUME hub.handshake = "rejected" \/ hub.stopError,
               HandshakeFails(conn, hub, conn', hub')
        PROVE  Goal
    BY <1>2, <1>3, SMTT(30) DEF HandshakeFails, NoTimers, Stopping
  <1>4. ASSUME hub.handshake # "rejected", ~hub.stopError, conn.inherentKeepAlive,
               StartSucceeds(conn, hub, conn', hub')
        PROVE  Goal
    BY <1>2, <1>4, SMTT(30) DEF StartSucceeds, Over
  <1>5. ASSUME hub.handshake # "rejected", ~hub.stopError, ~conn.inherentKeepAlive,
               conn' = Sending(conn), hub' = KeptAlive(conn, [hub EXCEPT !.start = "ping"])
        PROVE  Goal
    BY <1>2, <1>5, SMTT(30) DEF Sending, KeptAlive
  <1>6. Goal
    <2> HIDE DEF Goal, Conns, Hubs
    <2> QED BY <1>1, <1>3, <1>4, <1>5 DEF HandshakeSettles
  <1> QED BY <1>1, <1>6 DEF StepIsSafe

\* The first ping is sent; a close may have overtaken it.
LEMMA PingSentSafe == ASSUME Inv, PingSent PROVE StepIsSafe
  <1>1. conn' \in Conns /\ hub' \in Hubs /\ StartSucceeds(conn, hub, conn', hub')
    BY PingSentDoes DEF Inv
  <1>2. Safe(conn, hub, conn', hub')
    BY <1>1, SMTT(60) DEF Inv, TypeOK, PingSent, StartSucceeds, Over
  <1> QED BY <1>1, <1>2 DEF StepIsSafe

\* The handshake request or the first ping fails.
LEMMA SendFailedSafe == ASSUME Inv, SendFailed PROVE StepIsSafe
  <1>1. conn' \in Conns /\ hub' \in Hubs /\ HandshakeFails(conn, hub, conn', hub')
    BY SendFailedDoes DEF Inv
  <1>2. Safe(conn, hub, conn', hub')
    BY <1>1, SMTT(60) DEF Inv, TypeOK, SendFailed, HandshakeFails, NoTimers, Stopping
  <1> QED BY <1>1, <1>2 DEF StepIsSafe

\* stop() goes on between its awaits, and may meet a start that began in an onclose callback.
LEMMA StopContinuesSafe ==
    ASSUME Inv, HttpStartStopped \/ SendDelete \/ TransportStopped \/ HttpStopped
    PROVE  StepIsSafe
  <1>1. /\ conn' \in Conns /\ hub' = hub
        /\ \/ HttpStartStopped /\ conn' = [conn EXCEPT !.start = "none", !.result = "fail"]
           \/ SendDelete /\ conn' = [conn EXCEPT !.stop = "deleting"]
           \/ TransportStopped
                  /\ conn' = [conn EXCEPT !.transport = "none", !.stop = "awaitPromise"]
           \/ HttpStopped /\ conn' = [conn EXCEPT !.stop = "none"]
    <2> HIDE DEF Conns
    <2> QED BY StopContinuesDoes DEF Inv
  <1> DEFINE Goal == Safe(conn, hub, conn', hub')
  <1>2. conn \in Conns /\ hub \in Hubs /\ ClientInv(conn, hub) /\ hub' = hub
    BY <1>1 DEF Inv, TypeOK
  <1>3. ASSUME HttpStartStopped, conn' = [conn EXCEPT !.start = "none", !.result = "fail"]
        PROVE  Goal
    BY <1>2, <1>3, SMTT(30) DEF HttpStartStopped
  <1>4. ASSUME SendDelete, conn' = [conn EXCEPT !.stop = "deleting"] PROVE Goal
    BY <1>2, <1>4, SMTT(30) DEF SendDelete
  <1>5. ASSUME TransportStopped, conn' = [conn EXCEPT !.transport = "none", !.stop = "awaitPromise"]
        PROVE  Goal
    BY <1>2, <1>5, SMTT(30) DEF TransportStopped
  <1>6. ASSUME HttpStopped, conn' = [conn EXCEPT !.stop = "none"] PROVE Goal
    BY <1>2, <1>6, SMTT(30) DEF HttpStopped
  <1>7. Goal
    <2> HIDE DEF Goal
    <2> QED BY <1>1, <1>3, <1>4, <1>5, <1>6
  <1> QED BY <1>1, <1>2, <1>7 DEF StepIsSafe

\* stop() stops the transport once the start it waited for has settled.
LEMMA HttpStopTransportSafe == ASSUME Inv, HttpStopTransport PROVE StepIsSafe
  <1> DEFINE c == [conn EXCEPT !.stop = "stopped"]
             Goal == Safe(conn, hub, conn', hub')
  <1>1. /\ conn' \in Conns /\ hub' \in Hubs
        /\ \/ conn.transport = "none" /\ conn' = [conn EXCEPT !.stop = "awaitPromise"]
                  /\ hub' = hub
           \/ conn.transport = "LongPolling" /\ conn' = Aborting(conn) /\ hub' = hub
           \/ /\ conn.transport \notin {"none", "LongPolling"} /\ c \in Conns
              /\ Stops(c, hub, conn', hub')
    <2> HIDE DEF Conns, Hubs
    <2> QED BY HttpStopTransportDoes DEF Inv
  <1>2. conn \in Conns /\ hub \in Hubs /\ ClientInv(conn, hub)
        /\ conn.stop = "awaitStart" /\ StartSettled
    BY DEF Inv, TypeOK, HttpStopTransport
  <1>3. ASSUME conn.transport = "none", conn' = [conn EXCEPT !.stop = "awaitPromise"], hub' = hub
        PROVE  Goal
    BY <1>2, <1>3, SMTT(30)
  <1>4. ASSUME conn.transport = "LongPolling", conn' = Aborting(conn), hub' = hub
        PROVE  Goal
    BY <1>2, <1>4, SMTT(30) DEF Aborting, Abort, Settled, Idle
  <1>5. ASSUME conn.transport \notin {"none", "LongPolling"}, c \in Conns,
               Stops(c, hub, conn', hub')
        PROVE  Goal
    <2>1. Closable(c, hub)
      BY <1>2, <1>5, SMTT(30) DEF Closable
    <2> HIDE DEF c, Conns, Hubs
    <2>2. Safe(c, hub, conn', hub')
      BY <1>2, <1>5, <2>1, StopsSafely
    <2> QED BY <2>2 DEF Safe
  <1>6. Goal
    <2> HIDE DEF Goal, Conns, Hubs, c
    <2> QED BY <1>1, <1>3, <1>4, <1>5
  <1> QED BY <1>1, <1>6 DEF StepIsSafe

\* The negotiation ends, perhaps after a stop().
LEMMA NegotiateEndsSafe == ASSUME Inv, NegotiateEnds PROVE StepIsSafe
  <1>1. conn' \in Conns /\ hub' \in Hubs /\ hub' = hub
    <2> HIDE DEF Conns, Hubs
    <2> QED BY NegotiateEndsDoes DEF Inv
  <1>2. PICK endpoints \in Endpoints : Negotiates(conn, endpoints, conn')
    <2> HIDE DEF Conns, Hubs
    <2> QED BY NegotiateEndsDoes DEF Inv
  <1> DEFINE Goal == Safe(conn, hub, conn', hub')
  <1>3. conn \in Conns /\ hub \in Hubs /\ ClientInv(conn, hub) /\ hub' = hub /\ Quiet
        /\ conn.start \in {"negotiating", "renegotiating"}
    BY <1>1 DEF Inv, TypeOK, NegotiateEnds
  <1>4. ASSUME conn.start = "renegotiating", conn' = [conn EXCEPT !.start = "connecting"]
        PROVE  Goal
    BY <1>3, <1>4, SMTT(30)
  <1>5. ASSUME conn' = StartCaught(conn) PROVE Goal
    BY <1>3, <1>5, SMTT(30) DEF StartCaught
  <1>6. ASSUME NEW n, conn' = [conn EXCEPT !.redirects = n] PROVE Goal
    BY <1>3, <1>6, SMTT(30)
  <1>7. ASSUME conn.start # "renegotiating", conn.state = "Connecting",
               Tries([conn EXCEPT !.endpoints = endpoints], "connecting", conn')
        PROVE  Goal
    <2> DEFINE c == [conn EXCEPT !.endpoints = endpoints]
    <2>1. CASE conn' = StartCaught(c)
      BY <1>3, <2>1, SMTT(30) DEF StartCaught
    <2>2. ASSUME NEW t \in Transports, NEW e \in Endpoints, conn' = Trying(c, "connecting", t, e)
          PROVE  Goal
      BY <1>3, <1>7, <2>2, SMTT(30) DEF Trying, Idle
    <2> HIDE DEF Goal, c, Transports
    <2> QED BY <1>7, <2>1, <2>2 DEF Tries, c
  <1>8. Goal
    <2> HIDE DEF Goal
    <2> QED BY <1>2, <1>4, <1>5, <1>6, <1>7 DEF Negotiates
  <1> QED BY <1>1, <1>8 DEF StepIsSafe

\* A transport fails to connect, and the next one is tried.
LEMMA TransportFailsSafe == ASSUME Inv, TransportFailsToConnect PROVE StepIsSafe
  <1>1. /\ conn' \in Conns /\ hub' \in Hubs /\ hub' = hub
        /\ \/ conn.state = "Connecting" /\ Tries(conn, "renegotiating", conn')
           \/ conn' = StartCaught(conn)
    <2> HIDE DEF Conns, Hubs
    <2> QED BY TransportFailsDoes DEF Inv
  <1> DEFINE Goal == Safe(conn, hub, conn', hub')
  <1>2. conn \in Conns /\ hub \in Hubs /\ ClientInv(conn, hub) /\ hub' = hub /\ Quiet
        /\ conn.start = "connecting"
    BY <1>1 DEF Inv, TypeOK, TransportFailsToConnect
  <1>3. ASSUME conn' = StartCaught(conn) PROVE Goal
    BY <1>2, <1>3, SMTT(30) DEF StartCaught
  <1>4. ASSUME conn.state = "Connecting", NEW t \in Transports, NEW e \in Endpoints,
               conn' = Trying(conn, "renegotiating", t, e)
        PROVE  Goal
    BY <1>2, <1>4, SMTT(30) DEF Trying, Idle
  <1>5. Goal
    <2> HIDE DEF Goal, Transports
    <2> QED BY <1>1, <1>3, <1>4 DEF Tries
  <1> QED BY <1>1, <1>5 DEF StepIsSafe

\* A send ends, perhaps over a connection that has closed.
LEMMA SendEndsSafe == ASSUME Inv, SendEnds PROVE StepIsSafe
  <1>1. /\ conn' \in Conns /\ hub' = hub
        /\ \/ conn' = [conn EXCEPT !.post = "ok"]
           \/ conn' = [conn EXCEPT !.post = "fail"]
    <2> HIDE DEF Conns, Hubs
    <2> QED BY SendEndsDoes DEF Inv
  <1> DEFINE Goal == Safe(conn, hub, conn', hub')
  <1>2. conn \in Conns /\ hub \in Hubs /\ ClientInv(conn, hub) /\ hub' = hub
        /\ conn.post = "pending" /\ (SendReady \/ Quiet)
    BY <1>1 DEF Inv, TypeOK, SendEnds
  <1>3. ASSUME SendReady, conn' = [conn EXCEPT !.post = "ok"] PROVE Goal
    BY <1>2, <1>3, SMTT(30)
  <1>4. ASSUME Quiet, conn' = [conn EXCEPT !.post = "ok"] PROVE Goal
    BY <1>2, <1>4, SMTT(30)
  <1>5. ASSUME conn' = [conn EXCEPT !.post = "fail"] PROVE Goal
    BY <1>2, <1>5, SMTT(30)
  <1>6. Goal
    <2> HIDE DEF Goal, Quiet, SendReady
    <2> QED BY <1>1, <1>2, <1>3, <1>4, <1>5
  <1> QED BY <1>1, <1>2, <1>6 DEF StepIsSafe

\* The headers of a poll arrive: abort() can no longer reach the request of `fetch'.
LEMMA PollHeadersSafe == ASSUME Inv, PollHeaders PROVE StepIsSafe
  <1>1. conn' \in Conns /\ hub' = hub /\ conn' = [conn EXCEPT !.poll = Headers(conn.poll)]
    BY PollHeadersDoes DEF Inv
  <1>2. conn \in Conns /\ hub \in Hubs /\ ClientInv(conn, hub) /\ hub' = hub /\ Quiet
    BY <1>1 DEF Inv, TypeOK, PollHeaders
  <1>3. conn.poll.phase = "fetching"
    BY DEF PollHeaders, AwaitsHeaders
  <1>4. hub.start # "http" /\ conn.transport = "LongPolling"
    BY <1>2, <1>3, SMTT(30)
  <1> DEFINE r == Headers(conn.poll)
             c == [conn EXCEPT !.poll = r]
  <1>5. r.phase = "body"
    BY <1>2 DEF Headers
  <1>6. r \in Requests
    BY <1>2, ZenonT(40) DEF Headers
  <1> HIDE DEF r
  <1>7. Safe(conn, hub, c, hub)
    BY <1>2, <1>3, <1>4, <1>5, <1>6, SMTT(30)
  <1>8. Safe(conn, hub, conn', hub')
    <2> HIDE DEF Conns, Hubs, Safe
    <2> QED BY <1>1, <1>2, <1>7 DEF r
  <1>9. hub' \in Hubs
    <2>1. hub \in Hubs /\ hub' = hub
      BY <1>1, ZenonT(40) DEF Inv, TypeOK
    <2> HIDE DEF Hubs
    <2> QED BY <2>1
  <1> QED BY <1>1, <1>8, <1>9 DEF StepIsSafe

\* A poll that ends the loop: stop() will close the connection, or the loop closes it.
LEMMA PollStopsSafe ==
    ASSUME Inv, Quiet, conn.poll.phase # "idle", NEW r \in Requests, NEW d, NEW k,
           PollStops([conn EXCEPT !.poll = r], hub, d, k)
    PROVE  Safe(conn, hub, d, k)
  <1> DEFINE c == [conn EXCEPT !.poll = r]
             e == PollEnded(c)
             Goal == Safe(conn, hub, d, k)
  <1>1. conn \in Conns /\ hub \in Hubs /\ ClientInv(conn, hub)
    BY DEF Inv, TypeOK
  <1>2. ASSUME conn.aborted, d = e, k = hub
        PROVE  Goal
    BY <1>1, <1>2, SMTT(30) DEF PollEnded, Idle
  <1>3. ASSUME ~conn.aborted, Stops(e, hub, d, k)
        PROVE  Goal
    <2>1. c \in Conns /\ e \in Conns
      <3>1. c \in Conns
        <4> HIDE DEF Conns, Requests
        <4> QED BY <1>1, PollSet, Zenon
      <3> HIDE DEF c, Conns
      <3> QED BY <3>1, PollTypes
    <2>2. Closable(e, hub)
      BY <1>1, <1>3, SMTT(30) DEF Closable, PollEnded, Idle
    <2> HIDE DEF e, Conns, Hubs
    <2>3. Safe(e, hub, d, k)
      BY <1>1, <1>3, <2>1, <2>2, StopsSafely
    <2> QED BY <2>3 DEF Safe
  <1>4. c.aborted = conn.aborted
    BY <1>1
  <1>5. \/ c.aborted /\ d = e /\ k = hub
        \/ ~c.aborted /\ Stops(e, hub, d, k)
    BY DEF PollStops
  <1> HIDE DEF Goal, e, c
  <1> QED BY <1>2, <1>3, <1>4, <1>5 DEF Goal

\* The loop goes on.
LEMMA PollingSafe ==
    ASSUME Inv, Quiet, conn.poll.phase # "idle", conn.running, NEW r \in Requests
    PROVE  Safe(conn, hub, Polling([conn EXCEPT !.poll = r]), hub)
  <1>1. conn \in Conns /\ hub \in Hubs /\ ClientInv(conn, hub)
    BY DEF Inv, TypeOK
  <1>2. ~conn.aborted
    BY <1>1, SMTT(30)
  <1> QED BY <1>1, <1>2, SMTT(30) DEF Polling, Send

\* A poll times out, fails or is aborted.
LEMMA PollUnansweredSafe == ASSUME Inv, PollTimesOut \/ PollFails PROVE StepIsSafe
  <1>1. PICK r \in Requests :
            LET c == [conn EXCEPT !.poll = r]
            IN  /\ conn' \in Conns /\ hub' \in Hubs /\ c \in Conns
                /\ \/ conn.poll.phase = "fetching"
                          /\ PollGoesOn(conn.running, c, hub, conn', hub')
                   \/ PollStops(c, hub, conn', hub')
    <2> HIDE DEF Conns, Hubs, Requests
    <2> QED BY PollUnansweredDoes DEF Inv
  <1> DEFINE Goal == Safe(conn, hub, conn', hub')
             c == [conn EXCEPT !.poll = r]
  <1>2. Quiet /\ conn.poll.phase # "idle"
    BY DEF PollTimesOut, PollFails
  <1> HIDE DEF Conns, Hubs, Requests, Quiet
  <1>3. ASSUME PollStops(c, hub, conn', hub') PROVE Goal
    BY <1>2, <1>3, PollStopsSafe
  <1>4. ASSUME conn.running, conn' = Polling(c), hub' = hub PROVE Goal
    BY <1>2, <1>4, PollingSafe
  <1> HIDE DEF Goal
  <1>5. Goal
    BY <1>1, <1>3, <1>4 DEF PollGoesOn
  <1> QED BY <1>1, <1>5 DEF StepIsSafe, Goal

\* What the records of one chunk leave of the connection and the hub, before the timers are set:
\* the callback threw on a bad handshake response or on a later record, or the records were
\* dispatched, among them perhaps a close.
Rejects(c, h, d, k) == ~h.received /\ d = c /\ k = Greeted(h, "rejected")
Passes(c, h, d, k) == d = c /\ k = First(h)
Breaks(c, h, d, k) == d = Stopping(c) /\ k = First(h)
Halts(c, h, d, k) ==
    h.state \notin {"Disconnected", "Disconnecting"} /\ d = Stopping(c) /\ k = Halted(First(h))
Takes(c, h, d, k) == Passes(c, h, d, k) \/ Breaks(c, h, d, k) \/ Halts(c, h, d, k)

SameSession(h, k) == Status(k) = Status(h) /\ Told(k) = Told(h)

\* The ways a chunk is processed, regrouped by what is left
LEMMA ProcessesIs ==
    ASSUME NEW c \in Conns, NEW h \in Hubs, NEW threw \in BOOLEAN, NEW d \in Conns, NEW k \in Hubs,
           Processes(c, h, threw, d, k)
    PROVE  \/ threw /\ (Rejects(c, h, d, k) \/ Passes(c, h, d, k))
           \/ ~threw /\ \E g \in Hubs : Takes(c, h, d, g) /\ k = TimeoutReset(d, g)
  <1>1. First(h).state = h.state
    BY DEF First, Greeted
  <1> HIDE DEF Conns, Hubs
  <1>2. CASE threw
    BY <1>2 DEF Processes, Rejects, Passes
  <1>3. CASE ~threw
    <2>1. PICK g \in Hubs : Handles(c, First(h), d, g) /\ k = TimeoutReset(d, g)
      BY <1>3 DEF Processes
    <2>2. Takes(c, h, d, g)
      BY <1>1, <2>1 DEF Handles, Takes, Passes, Breaks, Halts
    <2> QED BY <1>3, <2>1, <2>2
  <1> QED BY <1>2, <1>3

\* The page's view of the session does not depend on what is dispatched.
LEMMA ProcessesSameSession ==
    ASSUME NEW c, NEW h \in Hubs, NEW d, NEW k,
           Rejects(c, h, d, k) \/ Takes(c, h, d, k)
    PROVE  SameSession(h, k)
  <1>1. ASSUME k = Greeted(h, "rejected") PROVE SameSession(h, k)
    BY <1>1 DEF Greeted, SameSession
  <1>2. ASSUME k = First(h) PROVE SameSession(h, k)
    BY <1>2 DEF First, Greeted, SameSession
  <1>3. ASSUME h.state # "Disconnected", k = Halted(First(h)) PROVE SameSession(h, k)
    BY <1>3 DEF First, Greeted, Halted, NoTimers, SameSession
  <1> QED BY <1>1, <1>2, <1>3 DEF Rejects, Takes, Passes, Breaks, Halts

\* What is known when the answer to a poll arrives.
LEMMA PollAnsweredWhen ==
    ASSUME Inv, PollAnswered
    PROVE  /\ conn \in Conns /\ hub \in Hubs /\ ClientInv(conn, hub) /\ Quiet
           /\ conn.poll.phase # "idle" /\ conn.start = "none" /\ hub.start # "http"
           /\ conn.transport = "LongPolling" /\ conn.inherentKeepAlive
           /\ conn.state \in {"Connected", "Disconnecting"} /\ ~hub.delay
           /\ conn.result # "ok" /\ conn.post # "ok" /\ ~hub.timer /\ hub.ping = "none"
           /\ conn.started /\ hub.state # "Disconnected"
  <1>1. conn \in Conns /\ hub \in Hubs /\ ClientInv(conn, hub) /\ Quiet /\ StartSettled
        /\ conn.poll.phase # "idle"
    BY DEF Inv, TypeOK, PollAnswered, AwaitsResponse
  <1>2. conn.start = "none"
    BY <1>1, SMTT(30)
  <1>3. hub.start # "http"
    BY <1>1, <1>2, SMTT(30)
  <1>4. /\ conn.transport = "LongPolling" /\ conn.inherentKeepAlive
        /\ conn.state \in {"Connected", "Disconnecting"} /\ ~hub.delay
    BY <1>1, <1>2, SMTT(30)
  <1>5. conn.result # "ok" /\ conn.post # "ok" /\ ~hub.timer /\ hub.ping = "none"
    BY <1>1, <1>2, <1>3, <1>4, SMTT(30)
  <1>6. conn.started /\ hub.state # "Disconnected"
    BY <1>1, <1>2, <1>3, <1>4, SMTT(30)
  <1> QED BY <1>1, <1>2, <1>3, <1>4, <1>5, <1>6

\* The bad handshake response of a poll ends the loop.
LEMMA PollRejectedSafe ==
    ASSUME Inv, PollAnswered, NEW d, NEW k, Rejects(conn, hub, d, k)
    PROVE  /\ d.aborted => Safe(conn, hub, PollEnded(d), k)
           /\ ~d.aborted => Closable(PollEnded(d), k)
  <1>1. conn \in Conns /\ hub \in Hubs /\ ClientInv(conn, hub) /\ Quiet
        /\ conn.poll.phase # "idle" /\ conn.start = "none" /\ hub.start # "http"
        /\ conn.transport = "LongPolling" /\ conn.inherentKeepAlive
        /\ conn.state \in {"Connected", "Disconnecting"} /\ ~hub.delay
        /\ conn.result # "ok" /\ conn.post # "ok" /\ ~hub.timer /\ hub.ping = "none"
        /\ conn.started /\ hub.state # "Disconnected"
    BY PollAnsweredWhen
  <1>2. d = conn /\ k = Greeted(hub, "rejected") /\ ~hub.received
    BY DEF Rejects
  <1>3. ASSUME conn.aborted PROVE Safe(conn, hub, PollEnded(conn), k)
    BY <1>1, <1>2, <1>3, SMTT(30) DEF Greeted, PollEnded, Idle
  <1>4. ASSUME ~conn.aborted PROVE Closable(PollEnded(conn), k)
    BY <1>1, <1>2, <1>4, SMTT(30) DEF Greeted, PollEnded, Idle, Closable
  <1> QED BY <1>2, <1>3, <1>4

\* The dispatched records of a poll: the loop goes on, ends by itself or was aborted.
LEMMA PollTakesSafe ==
    ASSUME Inv, PollAnswered, NEW d, NEW k, Takes(conn, hub, d, k)
    PROVE  /\ d.aborted => Safe(conn, hub, PollEnded(d), k)
           /\ ~d.aborted /\ (d.running => d = conn) => Closable(PollEnded(d), k)
           /\ d.running => Safe(conn, hub, Polling(d), k)
  <1>1. conn \in Conns /\ hub \in Hubs /\ ClientInv(conn, hub) /\ Quiet
        /\ conn.poll.phase # "idle" /\ conn.start = "none" /\ hub.start # "http"
        /\ conn.transport = "LongPolling" /\ conn.inherentKeepAlive
        /\ conn.state \in {"Connected", "Disconnecting"} /\ ~hub.delay
        /\ conn.result # "ok" /\ conn.post # "ok" /\ ~hub.timer /\ hub.ping = "none"
        /\ conn.started /\ hub.state # "Disconnected"
    BY PollAnsweredWhen
  <1>2. ASSUME d = Stopping(conn), d.running => d = conn
        PROVE  conn.state = "Disconnecting" /\ d = conn
    <2>1. ASSUME conn.state = "Connected" PROVE FALSE
      <3>1. conn.running
        BY <1>1, <2>1, SMTT(30)
      <3>2. d.running = conn.running /\ d.state = "Disconnecting"
        BY <1>1, <1>2, <2>1 DEF Stopping
      <3> QED BY <1>2, <2>1, <3>1, <3>2
    <2>2. conn.state = "Disconnecting"
      BY <1>1, <2>1
    <2> QED BY <1>2, <2>2 DEF Stopping
  <1>3. CASE Passes(conn, hub, d, k)
    <2>1. d = conn /\ k = First(hub)
      BY <1>3 DEF Passes
    <2>2. ASSUME conn.aborted PROVE Safe(conn, hub, PollEnded(conn), k)
      BY <1>1, <2>1, <2>2, SMTT(30) DEF First, Greeted, PollEnded, Idle
    <2>3. ASSUME ~conn.aborted PROVE Closable(PollEnded(conn), k)
      BY <1>1, <2>1, <2>3, SMTT(30) DEF First, Greeted, PollEnded, Idle, Closable
    <2>4. ASSUME conn.running PROVE Safe(conn, hub, Polling(conn), k)
      BY <1>1, <2>1, <2>4, SMTT(30) DEF First, Greeted, Polling, Send
    <2> HIDE DEF Conns, Hubs, Safe
    <2> QED BY <2>1, <2>2, <2>3, <2>4
  <1>4. CASE Breaks(conn, hub, d, k)
    <2>1. d = Stopping(conn) /\ k = First(hub)
      BY <1>4 DEF Breaks
    <2>2. ASSUME d.aborted PROVE Safe(conn, hub, PollEnded(d), k)
      BY <1>1, <2>1, <2>2, SMTT(30) DEF First, Greeted, PollEnded, Idle, Stopping
    <2>3. ASSUME ~d.aborted, d.running => d = conn PROVE Closable(PollEnded(d), k)
      <3>1. conn.state = "Disconnecting" /\ d = conn
        BY <1>2, <2>1, <2>3
      <3> QED BY <1>1, <2>1, <2>3, <3>1, SMTT(30) DEF First, Greeted, PollEnded, Idle, Closable
    <2>4. ASSUME d.running PROVE Safe(conn, hub, Polling(d), k)
      BY <1>1, <2>1, <2>4, SMTT(30) DEF First, Greeted, Polling, Send, Stopping
    <2> QED BY <2>2, <2>3, <2>4
  <1>5. CASE Halts(conn, hub, d, k)
    <2>1. d = Stopping(conn) /\ k = Halted(First(hub)) /\ hub.state # "Disconnecting"
      BY <1>5 DEF Halts
    <2>2. ASSUME d.aborted PROVE Safe(conn, hub, PollEnded(d), k)
      BY <1>1, <2>1, <2>2, SMTT(30) DEF First, Greeted, PollEnded, Idle, Stopping, Halted, NoTimers
    <2>3. ASSUME ~d.aborted, d.running => d = conn PROVE Closable(PollEnded(d), k)
      <3>1. conn.state = "Disconnecting" /\ d = conn
        BY <1>2, <2>1, <2>3
      <3> QED BY <1>1, <2>1, <2>3, <3>1, SMTT(30) DEF First, Greeted, PollEnded, Idle, Closable,
                                                      Halted, NoTimers
    <2>4. ASSUME d.running PROVE Safe(conn, hub, Polling(d), k)
      BY <1>1, <2>1, <2>4, SMTT(30) DEF First, Greeted, Polling, Send, Stopping, Halted, NoTimers
    <2> QED BY <2>2, <2>3, <2>4
  <1> HIDE DEF Conns, Hubs, Safe
  <1> QED BY <1>3, <1>4, <1>5, ZenonT(40) DEF Takes

\* The loop replaces whatever request there was.
LEMMA PollReplaced ==
    ASSUME NEW c \in Conns, NEW r
    PROVE  LET u == [c EXCEPT !.poll = r]
           IN  /\ u.aborted = c.aborted /\ Polling(u) = Polling(c)
               /\ PollEnded(u) = PollEnded(c)
  <1>1. [c EXCEPT !.poll = r].aborted = c.aborted
    BY DEF Conns
  <1> QED BY <1>1 DEF Polling, PollEnded

\* A poll with content
LEMMA PollDeliversSafe ==
    ASSUME Inv, PollAnswered, NEW d, NEW k, PollDelivers(conn, hub, d, k)
    PROVE  Safe(conn, hub, d, k)
  <1>1. PICK e \in Conns, g \in Hubs, threw \in BOOLEAN :
            /\ Processes(conn, hub, threw, e, g)
            /\ PollGoesOn(e.running /\ ~threw, [e EXCEPT !.poll = Idle], g, d, k)
    <2> HIDE DEF Conns, Hubs
    <2> QED BY DEF PollDelivers
  <1>2. conn \in Conns /\ hub \in Hubs /\ conn.inherentKeepAlive
    BY PollAnsweredWhen
  <1> HIDE DEF Conns, Hubs
  <1>3. \/ threw /\ (Rejects(conn, hub, e, g) \/ Passes(conn, hub, e, g))
        \/ ~threw /\ Takes(conn, hub, e, g)
    <2>1. ASSUME NEW x \in Hubs, Takes(conn, hub, e, x), g = TimeoutReset(e, x)
          PROVE  Takes(conn, hub, e, g)
      <3>1. Stopping(conn).inherentKeepAlive
        BY <1>2 DEF Stopping, Conns
      <3>2. e.inherentKeepAlive
        BY <1>2, <2>1, <3>1 DEF Takes, Passes, Breaks, Halts
      <3> QED BY <2>1, <3>2 DEF TimeoutReset
    <2> QED BY <1>1, <1>2, <2>1, ProcessesIs
  <1>4. \/ e.running /\ ~threw /\ d = Polling(e) /\ k = g
        \/ ~(e.running /\ ~threw) /\ e.aborted /\ d = PollEnded(e) /\ k = g
        \/ ~(e.running /\ ~threw) /\ ~e.aborted /\ Stops(PollEnded(e), g, d, k)
    BY <1>1, PollReplaced DEF PollGoesOn, PollStops
  <1>5. CASE e.running /\ ~threw /\ d = Polling(e) /\ k = g
    <2> HIDE DEF Safe
    <2> QED BY <1>3, <1>5, PollTakesSafe
  <1>6. ASSUME ~(e.running /\ ~threw)
        PROVE  /\ e.aborted => Safe(conn, hub, PollEnded(e), g)
               /\ ~e.aborted => Closable(PollEnded(e), g)
    <2> HIDE DEF Safe
    <2>1. CASE Rejects(conn, hub, e, g)
      BY <2>1, PollRejectedSafe
    <2>2. CASE Takes(conn, hub, e, g) /\ (e.running => e = conn)
      BY <2>2, PollTakesSafe
    <2>3. CASE Passes(conn, hub, e, g)
      BY <2>2, <2>3 DEF Takes, Passes
    <2> QED BY <1>3, <1>6, <2>1, <2>2, <2>3
  <1>7. ASSUME ~(e.running /\ ~threw), ~e.aborted, Stops(PollEnded(e), g, d, k)
        PROVE  Safe(conn, hub, d, k)
    <2>1. /\ Safe(PollEnded(e), g, d, k) /\ k.state # "Connected"
      BY <1>1, <1>6, <1>7, PollTypes, StopsSafely
    <2>2. SameSession(hub, g)
      BY <1>2, <1>3, ProcessesSameSession DEF Takes
    <2> QED BY <2>1, <2>2 DEF Safe, SessionStep, SameSession
  <1> HIDE DEF Safe
  <1> QED BY <1>4, <1>5, <1>6, <1>7

\* Every answer to a poll
LEMMA PollAnsweredSafe == ASSUME Inv, PollAnswered PROVE StepIsSafe
  <1>1. conn \in Conns /\ hub \in Hubs /\ Quiet /\ ~hub.delay /\ conn.poll.phase # "idle"
        /\ conn.poll \in Requests
    BY PollAnsweredWhen DEF Conns
  <1> HIDE DEF Conns, Hubs, Quiet, Requests
  <1>2. /\ conn' \in Conns /\ hub' \in Hubs
        /\ \/ PollDelivers(conn, hub, conn', hub')
           \/ PollGoesOn(conn.running, conn, hub, conn', hub')
           \/ PollStops(conn, hub, conn', hub')
    BY <1>1, PollAnsweredDoes DEF Inv
  <1>3. conn = [conn EXCEPT !.poll = conn.poll]
    BY <1>1 DEF Conns
  <1> HIDE DEF Safe
  <1>4. CASE PollDelivers(conn, hub, conn', hub')
    BY <1>2, <1>4, PollDeliversSafe DEF StepIsSafe
  <1>5. CASE PollStops(conn, hub, conn', hub')
    BY <1>1, <1>2, <1>3, <1>5, PollStopsSafe DEF StepIsSafe
  <1>6. CASE conn.running /\ conn' = Polling(conn) /\ hub' = hub
    BY <1>1, <1>2, <1>3, <1>6, PollingSafe DEF StepIsSafe
  <1> QED BY <1>2, <1>4, <1>5, <1>6 DEF PollGoesOn

\* What is known when a message of a WebSocket or an EventSource, or its close, arrives.
LEMMA StreamingWhen ==
    ASSUME Inv, Quiet, Streaming
    PROVE  /\ conn \in Conns /\ hub \in Hubs /\ ClientInv(conn, hub)
           /\ conn.state = "Connected" /\ conn.started /\ conn.start = "none"
           /\ conn.transport \in {"WebSockets", "ServerSentEvents"} /\ conn.stop = "none"
           /\ hub.start # "http" /\ ~hub.delay /\ hub.state \notin {"Disconnected", "Disconnecting"}
           /\ Closable(conn, hub)
  <1>1. /\ conn \in Conns /\ hub \in Hubs /\ ClientInv(conn, hub) /\ StartSettled
        /\ conn.transport \in {"WebSockets", "ServerSentEvents"}
    BY DEF Inv, TypeOK
  <1>2. conn.state = "Connected"
    BY <1>1, SMTT(30)
  <1>3. conn.started /\ conn.start = "none" /\ conn.stop = "none"
    BY <1>1, <1>2, SMTT(30)
  <1>4. hub.start # "http"
    BY <1>1, <1>2, SMTT(30)
  <1>5. hub.state \notin {"Disconnected", "Disconnecting"} /\ ~hub.delay
    BY <1>1, <1>2, SMTT(30)
  <1>6. Closable(conn, hub)
    BY <1>1, <1>2, <1>3, <1>4, <1>5, SMTT(30) DEF Closable
  <1> QED BY <1>1, <1>2, <1>3, <1>4, <1>5, <1>6

\* A streaming transport closes under an open hub.
LEMMA TransportClosesSafe == ASSUME Inv, TransportCloses PROVE StepIsSafe
  <1>1. Quiet /\ Streaming
    BY DEF TransportCloses
  <1> HIDE DEF Conns, Hubs, Quiet, Streaming
  <1>2. conn' \in Conns /\ hub' \in Hubs /\ Stops(conn, hub, conn', hub')
    BY TransportClosesDoes DEF Inv
  <1>3. conn \in Conns /\ hub \in Hubs /\ Closable(conn, hub)
    BY <1>1, StreamingWhen
  <1> HIDE DEF Safe
  <1> QED BY <1>2, <1>3, StopsSafely DEF StepIsSafe

\* A callback that throws into the transport closes it.
LEMMA ThrowCloses ==
    ASSUME Inv, Quiet, Streaming, NEW g \in Hubs,
           Rejects(conn, hub, conn, g) \/ Passes(conn, hub, conn, g)
    PROVE  Closable(conn, g)
  <1>1. Closable(conn, hub) /\ hub \in Hubs /\ conn.state = "Connected" /\ hub.start # "http"
    BY StreamingWhen
  <1>2. ASSUME g = Greeted(hub, "rejected") PROVE Closable(conn, g)
    BY <1>1, <1>2, SMTT(30) DEF Closable, Greeted
  <1>3. ASSUME g = First(hub) PROVE Closable(conn, g)
    BY <1>1, <1>3, SMTT(30) DEF Closable, First, Greeted
  <1> QED BY <1>2, <1>3 DEF Rejects, Passes

\* The dispatched records, when the server timeout is set again
LEMMA TakesSafe ==
    ASSUME Inv, Quiet, Streaming, NEW d, NEW g \in Hubs, Takes(conn, hub, d, g)
    PROVE  Safe(conn, hub, d, TimeoutReset(d, g))
  <1>1. /\ conn \in Conns /\ hub \in Hubs /\ ClientInv(conn, hub)
        /\ conn.state = "Connected" /\ conn.started /\ conn.start = "none"
        /\ conn.transport \in {"WebSockets", "ServerSentEvents"} /\ conn.stop = "none"
        /\ hub.start # "http" /\ ~hub.delay /\ hub.state \notin {"Disconnected", "Disconnecting"}
    BY StreamingWhen
  <1>2. CASE Passes(conn, hub, d, g)
    BY <1>1, <1>2, SMTT(30) DEF Passes, First, Greeted, TimeoutReset
  <1>3. CASE Breaks(conn, hub, d, g)
    BY <1>1, <1>3, SMTT(30) DEF Breaks, First, Greeted, TimeoutReset, Stopping
  <1>4. CASE Halts(conn, hub, d, g)
    BY <1>1, <1>4, SMTT(30) DEF Halts, First, Greeted, TimeoutReset, Stopping, Halted, NoTimers
  <1> HIDE DEF Safe
  <1> QED BY <1>2, <1>3, <1>4 DEF Takes

\* A text arrives over a streaming transport.
LEMMA ReceiveSafe == ASSUME Inv, Receive PROVE StepIsSafe
  <1>1. Quiet /\ Streaming
    BY DEF Receive
  <1> HIDE DEF Conns, Hubs, Quiet, Streaming
  <1>2. conn \in Conns /\ hub \in Hubs /\ ~hub.delay
    BY <1>1, StreamingWhen
  <1>3. conn' \in Conns /\ hub' \in Hubs /\ Arrives(conn, hub, conn', hub')
    BY <1>2, ReceiveDoes DEF Inv
  <1>4. CASE Processes(conn, hub, FALSE, conn', hub')
    <2>1. PICK g \in Hubs : Takes(conn, hub, conn', g) /\ hub' = TimeoutReset(conn', g)
      BY <1>2, <1>3, <1>4, ProcessesIs
    <2> HIDE DEF Safe
    <2> QED BY <1>1, <1>3, <2>1, TakesSafe DEF StepIsSafe
  <1>5. ASSUME NEW e \in Conns, NEW g \in Hubs, Processes(conn, hub, TRUE, e, g),
               Stops(e, g, conn', hub')
        PROVE  StepIsSafe
    <2>1. e = conn /\ (Rejects(conn, hub, conn, g) \/ Passes(conn, hub, conn, g))
      BY <1>2, <1>5, ProcessesIs DEF Rejects, Passes
    <2>2. Closable(conn, g)
      BY <1>1, <2>1, ThrowCloses
    <2>3. Safe(conn, g, conn', hub') /\ hub'.state # "Connected"
      BY <1>2, <1>5, <2>1, <2>2, StopsSafely
    <2>4. SameSession(hub, g)
      BY <1>2, <2>1, ProcessesSameSession DEF Takes
    <2> QED BY <1>3, <2>3, <2>4 DEF StepIsSafe, Safe, SessionStep, SameSession
  <1> QED BY <1>3, <1>4, <1>5 DEF Arrives

\* serverTimeout() stops the connection.
LEMMA ServerTimeoutSafe == ASSUME Inv, ServerTimeout PROVE StepIsSafe
  <1>1. /\ conn' \in Conns /\ hub' \in Hubs
        /\ conn' = Stopping(conn) /\ hub' = [hub EXCEPT !.timer = FALSE]
    <2> HIDE DEF Conns, Hubs
    <2> QED BY ServerTimeoutDoes DEF Inv
  <1>2. conn \in Conns /\ hub \in Hubs /\ ClientInv(conn, hub) /\ Quiet /\ hub.timer
    BY DEF Inv, TypeOK, ServerTimeout
  <1>3. hub.start # "http"
    BY <1>2, SMTT(30)
  <1>4. CASE conn.state \in {"Disconnected", "Disconnecting"}
    BY <1>1, <1>2, <1>3, <1>4, SMTT(30) DEF Stopping, StepIsSafe
  <1>5. CASE conn.state \notin {"Disconnected", "Disconnecting"}
    <2>1. Safe(conn, hub, conn', hub')
      BY <1>1, <1>2, <1>3, <1>5, SMTT(30) DEF Stopping
    <2> QED BY <1>1, <2>1 DEF StepIsSafe
  <1> QED BY <1>4, <1>5

\* The ping timer fires, and a ping is sent only over an open connection.
LEMMA PingTimerSafe == ASSUME Inv, PingTimer PROVE StepIsSafe
  <1>1. conn' \in Conns /\ hub' \in Hubs /\ conn' = conn /\ hub' = Pinged(conn, hub)
    <2> HIDE DEF Conns, Hubs
    <2> QED BY PingTimerDoes DEF Inv
  <1>2. conn \in Conns /\ hub \in Hubs /\ ClientInv(conn, hub) /\ hub.ping = "armed"
    BY DEF Inv, TypeOK, PingTimer
  <1>3. Safe(conn, hub, conn', hub')
    BY <1>1, <1>2, SMTT(30) DEF Pinged, KeptAlive
  <1> QED BY <1>1, <1>3 DEF StepIsSafe

\* The promise of a ping is settled, perhaps after the connection has closed.
LEMMA PingEndsSafe == ASSUME Inv, PingEnds PROVE StepIsSafe
  <1>1. /\ conn' \in Conns /\ hub' \in Hubs /\ conn' = conn
        /\ \/ hub' = [hub EXCEPT !.pinging = FALSE]
           \/ hub' = [hub EXCEPT !.ping = "none", !.pinging = FALSE]
    <2> HIDE DEF Conns, Hubs
    <2> QED BY PingEndsDoes DEF Inv
  <1>2. conn \in Conns /\ hub \in Hubs /\ ClientInv(conn, hub)
    BY DEF Inv, TypeOK
  <1>3. CASE hub' = [hub EXCEPT !.pinging = FALSE]
    BY <1>1, <1>2, <1>3, SMTT(30) DEF StepIsSafe
  <1>4. CASE hub' = [hub EXCEPT !.ping = "none", !.pinging = FALSE]
    BY <1>1, <1>2, <1>4, SMTT(30) DEF StepIsSafe
  <1> QED BY <1>1, <1>3, <1>4

\* A reconnect attempt begins.
LEMMA DelayElapsesSafe == ASSUME Inv, DelayElapses PROVE StepIsSafe
  <1>1. conn \in Conns /\ hub \in Hubs /\ ClientInv(conn, hub) /\ Quiet /\ hub.delay
    BY DEF Inv, TypeOK, DelayElapses
  <1>2. hub.state = "Reconnecting" /\ conn.state = "Disconnected"
    BY <1>1
  <1>3. /\ conn' \in Conns /\ hub' \in Hubs /\ conn' = Negotiating(conn)
        /\ hub' = Attempting([hub EXCEPT !.delay = FALSE, !.reconnecting = TRUE])
    <2> HIDE DEF Conns, Hubs
    <2> QED BY <1>2, DelayElapsesDoes DEF Inv
  <1>4. Safe(conn, hub, conn', hub')
    BY <1>3, <1>1, <1>2, SMTT(30) DEF Negotiating, Attempting
  <1> QED BY <1>3, <1>4 DEF StepIsSafe

\* start() by the page, of a hub that is Disconnected
LEMMA PageStartsSafe == ASSUME Inv, PageStarts PROVE StepIsSafe
  <1>1. /\ conn' \in Conns /\ hub' \in Hubs /\ conn' = Negotiating(conn)
        /\ hub' = Attempting([hub EXCEPT !.state = "Connecting", !.reconnecting = FALSE])
    <2> HIDE DEF Conns, Hubs
    <2> QED BY PageStartsDoes DEF Inv
  <1>2. conn \in Conns /\ hub \in Hubs /\ ClientInv(conn, hub) /\ Quiet
        /\ hub.state = "Disconnected" /\ hub.start = "none"
    BY DEF Inv, TypeOK, PageStarts
  <1>3. conn.state = "Disconnected"
    BY <1>2
  <1>4. Safe(conn, hub, conn', hub')
    BY <1>1, <1>2, <1>3, SMTT(30) DEF Negotiating, Attempting
  <1> QED BY <1>1, <1>4 DEF StepIsSafe

\* stop() of the page, at any await of a start, of a reconnect attempt or of another stop()
LEMMA PageStopsSafe == ASSUME Inv, PageStops PROVE StepIsSafe
  <1>1. conn' \in Conns /\ hub' \in Hubs /\ HubStops(conn, hub, conn', hub')
    <2> HIDE DEF Conns, Hubs
    <2> QED BY PageStopsDoes DEF Inv
  <1> DEFINE Goal == Safe(conn, hub, conn', hub')
             g == [hub EXCEPT !.state = "Disconnecting", !.delay = FALSE]
  <1>2. conn \in Conns /\ hub \in Hubs /\ ClientInv(conn, hub) /\ Quiet
        /\ hub.state \notin {"Disconnected", "Disconnecting"}
    BY DEF Inv, TypeOK, PageStops
  <1>3. ASSUME ~hub.delay, conn' = Stopping(conn), hub' = Halted(hub) PROVE Goal
    BY <1>2, <1>3, SMTT(30) DEF Stopping, Halted, NoTimers
  <1>4. ASSUME hub.delay, ~hub.restart, conn' = conn, hub' = Closed(g) PROVE Goal
    BY <1>2, <1>4, SMTT(30) DEF Closed, Reported
  <1>5. hub.delay => hub.started /\ ~hub.restart
    BY <1>2
  <1>6. g.started = hub.started /\ g.restart = hub.restart
    BY <1>2
  <1>7. Goal
    <2> HIDE DEF Goal, g, Conns, Hubs
    <2> QED BY <1>1, <1>2, <1>3, <1>4, <1>5, <1>6 DEF HubStops, Completes, Halted, g
  <1> QED BY <1>1, <1>7 DEF StepIsSafe

\* The second _stopConnection of a stop() whose DELETE failed finds the connection closed, or in
\* the start that an onclose callback began.
LEMMA StoppedAgainSafe ==
    ASSUME NEW h, NEW d \in Conns, NEW k \in Hubs, Safe(conn, h, d, k),
           d.state \in {"Disconnected", "Connecting"}, d.transport = "none", d.post # "ok",
           d.stop = "none", k.state # "Connected", NEW e, NEW g, Stops(d, k, e, g)
    PROVE  /\ g = k
           /\ d.state = "Connecting" => Safe(conn, h, [e EXCEPT !.stopThrew = TRUE], g)
           /\ d.state # "Connecting" => Safe(conn, h, [e EXCEPT !.stop = "stopped"], g)
  <1>1. e = d /\ g = k
    <2>1. e = NoTransport(d) /\ g = k
      BY DEF Stops
    <2>2. NoTransport(d) = d
      BY DEF NoTransport
    <2> QED BY <2>1, <2>2
  <1>2. ASSUME d.state = "Connecting"
        PROVE  Safe(conn, h, [e EXCEPT !.stopThrew = TRUE], g)
    BY <1>1, <1>2, SMTT(30)
  <1>3. ASSUME d.state = "Disconnected"
        PROVE  Safe(conn, h, [e EXCEPT !.stop = "stopped"], g)
    BY <1>1, <1>3, SMTT(30)
  <1> HIDE DEF Safe
  <1> QED BY <1>1, <1>2, <1>3

\* The DELETE of a polling transport ends after the loop has ended.
LEMMA DeleteEndsSafe == ASSUME Inv, DeleteEnds PROVE StepIsSafe
  <1>1. conn \in Conns /\ hub \in Hubs /\ ClientInv(conn, hub) /\ Quiet /\ conn.stop = "deleting"
    BY DEF Inv, TypeOK, DeleteEnds
  <1>2. conn.state = "Disconnecting" /\ conn.transport = "LongPolling" /\ conn.post # "ok"
    BY <1>1, SMTT(30)
  <1>3. ASSUME NEW s \in {"stopped", "none"}
        PROVE  Closable([conn EXCEPT !.stop = s], hub)
    BY <1>1, <1>2, SMTT(30) DEF Closable
  <1>4. ASSUME NEW s \in {"stopped", "none"}
        PROVE  [conn EXCEPT !.stop = s].stop = s /\ [conn EXCEPT !.stop = s].post = conn.post
    BY <1>1
  <1> HIDE DEF Conns, Hubs, Quiet
  <1>5. PICK s \in {"stopped", "none"}, d \in Conns, k \in Hubs :
            /\ conn' \in Conns /\ hub' \in Hubs
            /\ [conn EXCEPT !.stop = s] \in Conns
            /\ Stops([conn EXCEPT !.stop = s], hub, d, k)
            /\ \/ s = "stopped" /\ conn' = d /\ hub' = k
               \/ /\ s = "none"
                  /\ \E e \in Conns, g \in Hubs :
                        /\ Stops(d, k, e, g) /\ hub' = g
                        /\ \/ d.state = "Connecting" /\ conn' = [e EXCEPT !.stopThrew = TRUE]
                           \/ d.state # "Connecting" /\ conn' = [e EXCEPT !.stop = "stopped"]
    BY DeleteEndsDoes DEF Inv
  <1> DEFINE c == [conn EXCEPT !.stop = s]
  <1>6. Closable(c, hub) /\ c \in Conns /\ c.stop = s /\ c.post # "ok"
    BY <1>2, <1>3, <1>4, <1>5
  <1>7. Stops(c, hub, d, k)
    BY <1>5
  <1> HIDE DEF c
  <1>8. /\ Safe(c, hub, d, k)
        /\ d.state \in {"Disconnected", "Connecting"} /\ d.transport = "none"
        /\ d.stop = s /\ d.post # "ok" /\ k.state # "Connected"
    <2> HIDE DEF Safe
    <2> QED BY <1>1, <1>6, <1>7, StopsSafely
  <1>9. Safe(conn, hub, d, k)
    BY <1>8 DEF Safe
  <1> HIDE DEF Safe
  <1>10. CASE s = "stopped" /\ conn' = d /\ hub' = k
    BY <1>5, <1>9, <1>10 DEF StepIsSafe
  <1>11. ASSUME s = "none", NEW e \in Conns, NEW g \in Hubs, Stops(d, k, e, g), hub' = g,
                \/ d.state = "Connecting" /\ conn' = [e EXCEPT !.stopThrew = TRUE]
                \/ d.state # "Connecting" /\ conn' = [e EXCEPT !.stop = "stopped"]
         PROVE  StepIsSafe
    <2>1. d.stop = "none"
      BY <1>8, <1>11
    <2>2. /\ d.state = "Connecting" => Safe(conn, hub, [e EXCEPT !.stopThrew = TRUE], g)
          /\ d.state # "Connecting" => Safe(conn, hub, [e EXCEPT !.stop = "stopped"], g)
      BY <1>8, <1>9, <1>11, <2>1, StoppedAgainSafe
    <2> QED BY <1>5, <1>11, <2>2 DEF StepIsSafe
  <1> QED BY <1>5, <1>10, <1>11

\* connect() of a WebSocket or an EventSource, or of a poll that was answered with 200, resolves.
LEMMA OpenedSafe ==
    ASSUME Inv, Quiet, conn.start = "connecting", NEW b \in BOOLEAN,
           b = (conn.inherentKeepAlive \/ conn.transport = "LongPolling")
    PROVE  /\ conn.transport # "LongPolling" => Safe(conn, hub, Opened(conn, b), hub)
           /\ conn.transport = "LongPolling" =>
                  Safe(conn, hub, Opened(Polling([conn EXCEPT !.running = TRUE]), b), hub)
  <1>1. /\ conn \in Conns /\ hub \in Hubs /\ ClientInv(conn, hub) /\ Quiet
        /\ conn.start = "connecting" /\ ~conn.started /\ ~conn.aborted
    BY DEF Inv, TypeOK
  <1>2. hub.start = "http" /\ conn.state \in {"Connecting", "Disconnecting"}
        /\ conn.transport # "none"
    BY <1>1, SMTT(30)
  <1>3. CASE conn.transport # "LongPolling" /\ conn.state = "Connecting"
    BY <1>1, <1>2, <1>3, SMTT(30) DEF Opened
  <1>4. CASE conn.transport # "LongPolling" /\ conn.state # "Connecting"
    BY <1>1, <1>2, <1>4, SMTT(30) DEF Opened
  <1> DEFINE r == Send(FALSE)
             c == Polling([conn EXCEPT !.running = TRUE])
  <1>5. c = [conn EXCEPT !.running = TRUE, !.poll = r] /\ c.state = conn.state
    BY <1>1 DEF Polling
  <1>6. r \in Requests /\ r.phase = "fetching" /\ r.onabort
    BY ZenonT(40) DEF Send, ErrorKinds
  <1>7. conn \in Conns
    BY <1>1
  <1> HIDE DEF r, c
  <1>8. CASE conn.transport = "LongPolling" /\ conn.state = "Connecting"
    <2>1. Opened(c, b) = [conn EXCEPT !.running = TRUE, !.poll = r, !.inherentKeepAlive = TRUE,
                              !.state = "Connected", !.started = TRUE, !.start = "none",
                              !.result = "ok"]
      BY <1>8, <1>5, <1>7 DEF Opened
    <2> DEFINE o == Opened(c, b)
    <2> HIDE DEF Opened
    <2>3. o.started /\ o.inherentKeepAlive /\ o.running
      BY <1>7, <2>1
    <2>4. o.state = "Connected" /\ o.start = "none" /\ o.result = "ok" /\ o.poll = r
      BY <1>7, <2>1
    <2>5. /\ o.transport = conn.transport /\ o.stop = conn.stop
          /\ o.stopPromise = conn.stopPromise /\ o.post = conn.post
          /\ o.aborted = conn.aborted
      BY <1>7, <2>1, ZenonT(40)
    <2> HIDE DEF o
    <2>6. Safe(conn, hub, o, hub)
      BY <1>1, <1>2, <1>8, <1>6, <2>3, <2>4, <2>5, SMTT(30)
    <2> HIDE DEF Safe
    <2> QED BY <1>8, <2>6 DEF c, o
  <1>9. CASE conn.transport = "LongPolling" /\ conn.state # "Connecting"
    <2>1. Opened(c, b) = [conn EXCEPT !.running = TRUE, !.poll = r, !.inherentKeepAlive = TRUE,
                              !.start = "awaitStop"]
      BY <1>9, <1>5, <1>7 DEF Opened
    <2> DEFINE o == Opened(c, b)
    <2>2. /\ o.state = conn.state /\ o.started = conn.started
          /\ o.transport = conn.transport /\ o.inherentKeepAlive = TRUE
          /\ o.start = "awaitStop" /\ o.result = conn.result
          /\ o.stop = conn.stop /\ o.stopPromise = conn.stopPromise
          /\ o.post = conn.post /\ o.running = TRUE /\ o.aborted = conn.aborted
          /\ o.poll = r
      BY <1>7, <2>1, ZenonT(40)
    <2> HIDE DEF o
    <2>3. Safe(conn, hub, o, hub)
      BY <1>1, <1>2, <1>9, <1>6, <2>2, SMTT(30)
    <2> HIDE DEF Safe
    <2> QED BY <1>9, <2>3 DEF c, o
  <1> HIDE DEF Safe
  <1> QED BY <1>3, <1>4, <1>8, <1>9

\* connect() resolves all the same when the first poll was answered with another status: the
\* connection is Connected, and its transport is gone.
LEMMA OpenedWithoutTransportSafe ==
    ASSUME Inv, Quiet, conn.start = "connecting", conn.transport = "LongPolling",
           ~(FirstPoll \subseteq {200}), NEW e, NEW k, PollStops(conn, hub, e, k),
           NEW b \in BOOLEAN, b = (e.inherentKeepAlive \/ e.transport = "LongPolling")
    PROVE  Safe(conn, hub, Opened(e, b), k)
  <1>1. /\ conn \in Conns /\ hub \in Hubs /\ ClientInv(conn, hub) /\ Quiet
        /\ conn.start = "connecting" /\ ~conn.started /\ ~conn.aborted
    BY DEF Inv, TypeOK
  <1>2. hub.start = "http" /\ conn.state \in {"Connecting", "Disconnecting"}
        /\ conn.transport # "none"
    BY <1>1, SMTT(30)
  <1> DEFINE c == PollEnded(conn)
  <1>3. Stops(c, hub, e, k)
    BY <1>1 DEF PollStops
  <1>4. c.state = conn.state /\ c.started = conn.started
    BY <1>1 DEF PollEnded
  <1> HIDE DEF c
  <1>5. \/ conn.state = "Connecting" /\ e = NoTransport(c) /\ k = hub
        \/ conn.state = "Disconnecting" /\ e = Ended(c) /\ k = hub
    BY <1>1, <1>2, <1>3, <1>4 DEF Stops
  <1>6. CASE conn.state = "Connecting" /\ e = NoTransport(c) /\ k = hub
    <2>1. /\ e.state = conn.state /\ e.started = conn.started
          /\ e.transport = "none" /\ e.inherentKeepAlive = conn.inherentKeepAlive
          /\ e.start = conn.start /\ e.result = conn.result /\ e.stop = conn.stop
          /\ e.stopPromise = conn.stopPromise /\ e.post = conn.post
          /\ e.running = FALSE /\ e.aborted = conn.aborted /\ e.poll = Idle
      BY <1>1, <1>6 DEF NoTransport, c, PollEnded
    <2>2. e \in Conns
      BY <1>1, <1>6, ConnTypes, PollTypes DEF c
    <2> DEFINE o == Opened(e, b)
    <2>3. /\ o.state = "Connected" /\ o.started = TRUE /\ o.transport = "none"
          /\ o.inherentKeepAlive = conn.inherentKeepAlive /\ o.start = "none"
          /\ o.result = "ok" /\ o.stop = conn.stop
          /\ o.stopPromise = conn.stopPromise /\ o.post = conn.post
          /\ o.running = FALSE /\ o.aborted = conn.aborted /\ o.poll = Idle
      BY <1>6, <2>1, <2>2 DEF Opened
    <2> HIDE DEF o
    <2>4. Safe(conn, hub, o, hub)
      BY <1>1, <1>2, <1>6, <2>3, SMTT(30) DEF Idle
    <2> HIDE DEF Safe
    <2> QED BY <1>6, <2>4 DEF o
  <1>7. CASE conn.state = "Disconnecting" /\ e = Ended(c) /\ k = hub
    <2>1. /\ e.state = "Disconnected" /\ e.started = FALSE
          /\ e.transport = "none" /\ e.inherentKeepAlive = conn.inherentKeepAlive
          /\ e.start = conn.start /\ e.result = conn.result /\ e.stop = conn.stop
          /\ e.stopPromise = "resolved" /\ e.post = conn.post
          /\ e.running = FALSE /\ e.aborted = conn.aborted /\ e.poll = Idle
      BY <1>1, <1>7 DEF NoTransport, Ended, c, PollEnded
    <2>2. e \in Conns
      BY <1>1, <1>7, ConnTypes, PollTypes DEF c
    <2> DEFINE o == Opened(e, b)
    <2>3. /\ o.state = "Disconnected" /\ o.started = FALSE
          /\ o.transport = "none" /\ o.inherentKeepAlive = conn.inherentKeepAlive
          /\ o.start = "awaitStop" /\ o.result = conn.result
          /\ o.stop = conn.stop /\ o.stopPromise = "resolved"
          /\ o.post = conn.post /\ o.running = FALSE /\ o.aborted = conn.aborted
          /\ o.poll = Idle
      BY <1>7, <2>1, <2>2 DEF Opened
    <2> HIDE DEF o
    <2>4. Safe(conn, hub, o, hub)
      BY <1>1, <1>2, <1>7, <2>3, SMTT(30) DEF Idle
    <2> HIDE DEF Safe
    <2> QED BY <1>7, <2>4 DEF o
  <1> QED BY <1>5, <1>6, <1>7

\* connect() resolves, of a stream or of a polling transport whatever its first poll brought.
LEMMA TransportConnectsSafe == ASSUME Inv, TransportConnects PROVE StepIsSafe
  <1>1. /\ conn' \in Conns /\ hub' \in Hubs
        /\ \/ conn.transport # "LongPolling" /\ Connects(conn, conn') /\ hub' = hub
           \/ /\ conn.transport = "LongPolling"
              /\ \E status \in FirstPoll : LongPolls(conn, hub, status, conn', hub')
    <2> HIDE DEF Conns, Hubs
    <2> QED BY TransportConnectsDoes DEF Inv
  <1>2. Quiet /\ conn.start = "connecting" /\ conn \in Conns
    BY DEF TransportConnects, Inv, TypeOK
  <1> DEFINE c == Polling([conn EXCEPT !.running = TRUE])
  <1>3. c.inherentKeepAlive = conn.inherentKeepAlive /\ c.transport = conn.transport
    BY <1>2 DEF Polling
  <1> HIDE DEF c, Conns, Hubs, Quiet, Safe
  <1>4. CASE conn.transport # "LongPolling" /\ Connects(conn, conn') /\ hub' = hub
    BY <1>1, <1>2, <1>4, OpenedSafe DEF Connects, StepIsSafe
  <1>5. ASSUME conn.transport = "LongPolling", Connects(c, conn'), hub' = hub
        PROVE  StepIsSafe
    BY <1>1, <1>2, <1>3, <1>5, OpenedSafe DEF Connects, StepIsSafe, c
  <1>6. ASSUME conn.transport = "LongPolling", NEW status \in FirstPoll, status # 200,
               NEW e \in Conns, PollStops(conn, hub, e, hub'), Connects(e, conn')
        PROVE  StepIsSafe
    BY <1>1, <1>2, <1>6, OpenedWithoutTransportSafe DEF Connects, StepIsSafe
  <1> QED BY <1>1, <1>4, <1>5, <1>6 DEF LongPolls, c

-----------------------------------------------------------------------------
(* The theorems *)

\* The client a page creates.
LEMMA InitInv == Init => Inv
  <1> SUFFICES ASSUME Init PROVE Inv
    OBVIOUS
  <1>1. PICK fetch \in Fetches : conn = NewConnection(fetch)
    BY DEF Init
  <1>2. PICK page \in Pages : hub = NewHub(page)
    BY DEF Init
  <1>3. fetch \in BOOLEAN /\ << >> \in Endpoints /\ 0 \in 0..MAX_REDIRECTS - 1
    BY FetchesAssumption, RedirectsAssumption DEF Endpoints
  <1>4. /\ page \in [retries : -1..10, restart : BOOLEAN, stopper : BOOLEAN]
        /\ page.restart => page.retries = -1
    BY PagesAssumption
  <1>5. conn \in Conns
    <2>1. Idle \in Requests
      BY RequestTypes
    <2> HIDE DEF Requests
    <2> QED BY <1>1, <1>3, <2>1 DEF NewConnection
  <1>6. hub \in Hubs
    BY <1>2, <1>4 DEF NewHub
  <1>7. ClientInv(conn, hub)
    BY <1>1, <1>2, <1>4, SMTT(30) DEF NewConnection, NewHub, Idle
  <1> QED BY <1>5, <1>6, <1>7 DEF Inv, TypeOK

\* A step that changes nothing
LEMMA StutterSafe == ASSUME Inv, UNCHANGED vars PROVE StepIsSafe
  <1>1. conn' = conn /\ hub' = hub /\ conn \in Conns /\ hub \in Hubs /\ ClientInv(conn, hub)
    BY DEF vars, Inv, TypeOK
  <1>2. SessionStep(hub, hub) /\ (hub.state = "Disconnecting" => hub.state # "Connected")
    BY <1>1
  <1>3. Safe(conn, hub, conn, hub)
    <2> HIDE DEF ClientInv, SessionStep, Conns, Hubs
    <2> QED BY <1>1, <1>2
  <1> HIDE DEF Safe, Conns, Hubs, ClientInv
  <1> QED BY <1>1, <1>3 DEF StepIsSafe

HIDE DEF Conns, Hubs, Requests, HubStates, Transports, ClientInv, StateInv, TransportInv,
         PollInv, HubInv, StatesInv, StartInv, TimersInv, FirstPollInv,
         Safe, SessionStep, Status, Told
HIDE DEF HubReady, StopReady, StartReady, SendReady, Quiet, StartSettled, PollIdle, Streaming

\* Every step of the client keeps the invariant, leaves a stopped hub stopped and is a step of
\* the session the page sees.
LEMMA NextSafe == ASSUME Inv, [Next]_vars PROVE StepIsSafe
  <1>1. CASE Continuation
    BY <1>1, HttpStartedSafe, StartFailedSafe, HandshakeSentSafe, HandshakeAnsweredSafe,
       PingSentSafe, SendFailedSafe, StopContinuesSafe, HttpStopTransportSafe DEF Continuation
  <1>2. CASE RequestEnds
    BY <1>2, NegotiateEndsSafe, TransportConnectsSafe, TransportFailsSafe, SendEndsSafe,
       PollHeadersSafe, PollAnsweredSafe, PollUnansweredSafe, DeleteEndsSafe DEF RequestEnds
  <1>3. CASE Receive \/ TransportCloses \/ ServerTimeout \/ PingTimer \/ PingEnds
    BY <1>3, ReceiveSafe, TransportClosesSafe, ServerTimeoutSafe, PingTimerSafe, PingEndsSafe
  <1>4. CASE DelayElapses \/ PageStarts \/ PageStops
    BY <1>4, DelayElapsesSafe, PageStartsSafe, PageStopsSafe
  <1>5. CASE UNCHANGED vars
    BY <1>5, StutterSafe
  <1> QED BY <1>1, <1>2, <1>3, <1>4, <1>5 DEF Next

\* The invariant is inductive.
LEMMA StepKeepsInv == ASSUME Inv, [Next]_vars PROVE Inv'
  BY NextSafe DEF StepIsSafe, Safe, Inv, TypeOK, ClientInv, Conns, Hubs

\* HttpConnection and HubConnection against each other at every await: the invariant the
\* theorems below rest on.
THEOREM ClientInvHolds == Spec => []Inv
  <1>1. Inv /\ [Next]_vars => Inv'
    BY StepKeepsInv
  <1> QED BY InitInv, <1>1, PTL DEF Spec

\* Every field of the two classes, their requests and the endpoints that are left keeps its
\* type, and redirections are not followed past the limit, for any offers of the server.
THEOREM TypeCorrect == Spec => []TypeOK
  <1>1. Inv => TypeOK
    BY DEF Inv
  <1> QED BY <1>1, ClientInvHolds, PTL

\* _resetTimeoutPeriod never overwrites the handle of a running timer, and serverTimeout() can
\* only stop the connection its timer was set for.
THEOREM TimerBelongsToLiveConnectionHolds == Spec => []TimerBelongsToLiveConnection
  <1>1. ASSUME Inv PROVE TimerBelongsToLiveConnection
    <2>1. conn \in Conns /\ hub \in Hubs /\ ClientInv(conn, hub)
      BY <1>1 DEF Inv, TypeOK
    <2>2. hub.leaked = 0
      BY <2>1 DEF ClientInv, HubInv
    <2>3. ASSUME Quiet, hub.timer PROVE conn.state \in {"Connected", "Disconnecting"}
      BY <2>1, <2>3, SMTT(30) DEF ClientInv, StateInv, TransportInv, PollInv, HubInv, StatesInv,
                                  StartInv, TimersInv, Conns, Hubs, HubStates, Transports,
                                  Quiet, HubReady, StopReady, StartReady, SendReady
    <2> QED BY <2>2, <2>3 DEF TimerBelongsToLiveConnection
  <1> QED BY <1>1, ClientInvHolds, PTL

\* A server that falls silent under an open hub is noticed: _resetTimeoutPeriod has set a timer
\* whenever the transport has no keep-alive of its own.
THEOREM DeadServerNoticedHolds == Spec => []DeadServerNoticed
  <1>1. ASSUME Inv PROVE DeadServerNoticed
    <2>1. conn \in Conns /\ hub \in Hubs /\ ClientInv(conn, hub)
      BY <1>1 DEF Inv, TypeOK
    <2> QED BY <2>1, SMTT(30) DEF DeadServerNoticed, ClientInv, StateInv, TransportInv, PollInv,
                HubInv, StatesInv, StartInv, TimersInv, Conns, Hubs, HubStates, Transports,
                Quiet, HubReady, StopReady, StartReady, SendReady
  <1> QED BY <1>1, ClientInvHolds, PTL

\* A hub that is Disconnected left no connection open, and a hub that is Connected has one unless
\* its start was overtaken by a close during its first ping.
THEOREM StatesAgreeHolds == Spec => []StatesAgree
  <1>1. ASSUME Inv PROVE StatesAgree
    <2>1. conn \in Conns /\ hub \in Hubs /\ ClientInv(conn, hub)
      BY <1>1 DEF Inv, TypeOK
    <2> QED BY <2>1, SMTT(30) DEF StatesAgree, ClientInv, StateInv, TransportInv, PollInv,
                HubInv, StatesInv, StartInv, TimersInv, Conns, Hubs, HubStates, Transports,
                Quiet, HubReady, StopReady, StartReady, SendReady
  <1> QED BY <1>1, ClientInvHolds, PTL

\* send() of a connection that is Connected has a transport, for every server that answers the
\* poll that opens long polling with 200.
THEOREM ConnectedHasTransportHolds ==
    ASSUME FirstPoll \subseteq {200}
    PROVE  Spec => []ConnectedHasTransport
  <1>1. Inv => ConnectedHasTransport
    BY DEF Inv, ClientInv, FirstPollInv, ConnectedHasTransport
  <1> QED BY <1>1, ClientInvHolds, PTL

\* A stop() or a close message during a start or a reconnect attempt is not undone by what was
\* still under way, unless only the first ping was left to send.
THEOREM StoppedStaysStoppedHolds == Spec => StoppedStaysStopped
  <1>1. ASSUME Inv, [Next]_vars
        PROVE  [hub.state = "Disconnecting" /\ hub.start # "ping" => hub'.state # "Connected"]_vars
    BY <1>1, NextSafe DEF StepIsSafe, Safe
  <1> QED BY <1>1, ClientInvHolds, PTL DEF Spec, StoppedStaysStopped

\* The client implements HubSession: _completeClose reports a session once, and only a session
\* that start() had opened.
THEOREM SessionImplemented == Spec => ImplementsSession
  <1>1. Init => Session!SessionInit
    BY DEF Init, NewHub, Session!SessionInit
  <1>2. ASSUME Inv, [Next]_vars
        PROVE  [Session!SessionNext]_(Session!svars)
    <2>1. SessionStep(hub, hub')
      BY <1>2, NextSafe DEF StepIsSafe, Safe
    <2> QED BY <2>1 DEF SessionStep, Status, Told, Session!SessionNext, Session!Start,
                Session!StartFails, Session!Opens, Session!Closes, Session!svars
  <1> QED BY <1>1, <1>2, ClientInvHolds, PTL DEF Spec, ImplementsSession, Session!SessionSpec
=============================================================================

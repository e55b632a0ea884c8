--------------------------- MODULE HubConnection ---------------------------
(***************************************************************************)
(* The SignalR client's HubConnection (signalr.js): connecting, the hub         *)
(* handshake, the keep-alive and server-timeout timers, stopping, closing and   *)
(* reconnecting.  What it sends and receives besides the handshake is in        *)
(* HubMessages.  As in HttpConnection an operator maps the client to the client  *)
(* after a synchronous call, and hub.start says at which await of               *)
(* _startInternal the start or the reconnect attempt is:                         *)
(*   "http"  connection.start()          "handshake"  the handshake promise      *)
(*   "sent"  the handshake request       "ping"       the first ping             *)
(*   "stop"  connection.stop(e) of the catch                                     *)
(***************************************************************************)
EXTENDS HttpConnection

\* The constructor, with what the page configures: `retries' delays of a reconnect policy
\* (-1: no policy), an onclose callback that calls start() again, and an onreconnecting
\* callback that calls stop().  Three fields are history: `leaked' counts running server
\* timers whose handle is lost, `session' says what the page knows of what start() opened,
\* `overtaken' that a start succeeded on a connection that had closed meanwhile.
NewHub(page) ==
    [state |-> "Disconnected", started |-> FALSE, start |-> "none", reconnecting |-> FALSE,
     received |-> FALSE, handshake |-> "resolved", stopError |-> FALSE,
     attempts |-> 0, delay |-> FALSE,
     timer |-> FALSE, leaked |-> 0, ping |-> "none", pinging |-> FALSE,
     session |-> "none", overtaken |-> FALSE,
     retries |-> page.retries, restart |-> page.restart, stopper |-> page.stopper]

-----------------------------------------------------------------------------
(* Timers *)

CleanupTimeout(w) == [w EXCEPT !.hub.timer = FALSE]
CleanupPingTimer(w) == [w EXCEPT !.hub.ping = "none"]
CleanupTimers(w) == CleanupPingTimer(CleanupTimeout(w))

ResetKeepAliveInterval(w) == IF w.conn.inherentKeepAlive THEN w ELSE CleanupPingTimer(w)

ResetTimeoutPeriod(w) ==
    IF w.conn.inherentKeepAlive THEN w
    ELSE [w EXCEPT !.hub.leaked = IF w.hub.timer THEN @ + 1 ELSE @,
                   !.hub.timer = TRUE,
                   !.hub.ping = IF @ = "none" THEN "armed" ELSE @]

-----------------------------------------------------------------------------
(* Starting *)

StartInternal(w) ==
    HttpStart([w EXCEPT !.hub.stopError = FALSE, !.hub.received = FALSE,
                        !.hub.handshake = "pending", !.hub.start = "http"])

\* start() of a connection that is not Disconnected is rejected and changes nothing.
HubStart(w) ==
    IF w.hub.state # "Disconnected" THEN w
    ELSE StartInternal([w EXCEPT !.hub.state = "Connecting", !.hub.reconnecting = FALSE])

Reported(session) == IF session = "open" THEN "closed" ELSE "spurious"

\* Mutant: the onclose callbacks run even if they were told already.
CompleteCloseAlways(w) ==
    LET v == [w EXCEPT !.hub.state = "Disconnected", !.hub.started = FALSE,
                       !.hub.session = Reported(@)]
    IN  IF v.hub.restart THEN HubStart(v) ELSE v

\* _completeClose: only a connection that start() has opened tells the onclose callbacks.
CompleteClose(w) ==
    IF ~w.hub.started THEN w
    ELSE LET v == [w EXCEPT !.hub.state = "Disconnected", !.hub.started = FALSE,
                            !.hub.session = Reported(@)]
         IN  IF v.hub.restart THEN HubStart(v) ELSE v

\* _getNextRetryDelay: DefaultReconnectPolicy has a delay for the first `retries' attempts.
NextRetryDelay(w) == w.hub.attempts < w.hub.retries

HubStop(w) ==
    LET v == [w EXCEPT !.hub.state = "Disconnecting"] IN
    CASE w.hub.state \in {"Disconnected", "Disconnecting"} -> w
      [] w.hub.state \notin {"Disconnected", "Disconnecting"} /\ w.hub.delay ->
             CompleteClose([v EXCEPT !.hub.delay = FALSE])
      [] OTHER -> HttpStop([CleanupTimers(v) EXCEPT !.hub.stopError = TRUE])

\* _reconnect up to its first await
Reconnect(w) ==
    LET first == [w EXCEPT !.hub.attempts = 0]
        v == [first EXCEPT !.hub.state = "Reconnecting", !.hub.attempts = 1]
        told == IF v.hub.stopper THEN HubStop(v) ELSE v
    IN  CASE ~NextRetryDelay(first) -> CompleteClose(w)
          [] NextRetryDelay(first) /\ told.hub.state # "Reconnecting" -> told
          [] OTHER -> [told EXCEPT !.hub.delay = TRUE]

\* The delay is over: the next attempt, unless the connection was stopped meanwhile.
ReconnectAttempt(w) ==
    LET v == [w EXCEPT !.hub.delay = FALSE]
    IN  IF w.hub.state # "Reconnecting" THEN v
        ELSE StartInternal([v EXCEPT !.hub.reconnecting = TRUE])

\* The catch of _startWithStateTransitions, or of an attempt of _reconnect
StartFailed(w) ==
    LET v == [w EXCEPT !.hub.start = "none", !.conn.result = "none", !.conn.post = "none"] IN
    CASE ~w.hub.reconnecting -> [v EXCEPT !.hub.state = "Disconnected"]
      [] w.hub.reconnecting /\ w.hub.state = "Reconnecting" ->
             IF NextRetryDelay(w)
             THEN [v EXCEPT !.hub.delay = TRUE, !.hub.attempts = @ + 1]
             ELSE CompleteClose(v)
      [] w.hub.reconnecting /\ w.hub.state = "Disconnecting" -> CompleteClose(v)
      [] OTHER -> v

\* The end of a start: the state is set whatever it is by now.
StartSucceeded(w) ==
    LET v == [w EXCEPT !.hub.start = "none", !.conn.result = "none", !.conn.post = "none",
                       !.hub.state = "Connected",
                       !.hub.overtaken = @ \/ w.conn.state = "Disconnected"]
    IN  IF w.hub.reconnecting THEN v
        ELSE [v EXCEPT !.hub.started = TRUE, !.hub.session = "open"]

\* Mutant: the connection under the failed handshake is left open.
HandshakeFailedLeavesOpen(w) ==
    [CleanupTimers(w) EXCEPT !.hub.start = "stop", !.conn.post = "none"]

\* The catch of _startInternal
HandshakeFailed(w) ==
    HttpStop([CleanupTimers(w) EXCEPT !.hub.start = "stop", !.conn.post = "none"])

\* connection.start() resolved: send the handshake request.
SendHandshake(w) ==
    HttpSend(ResetKeepAliveInterval([w EXCEPT !.hub.start = "sent", !.conn.result = "none"]))

\* The handshake request was sent.
AwaitHandshake(w) ==
    ResetKeepAliveInterval(ResetTimeoutPeriod(CleanupTimeout(
        [w EXCEPT !.hub.start = "handshake", !.conn.post = "none"])))

\* Mutant: a resolved handshake promise is trusted.
HandshakeSettledUnchecked(w) ==
    CASE w.hub.handshake = "rejected" -> HandshakeFailed(w)
      [] w.hub.handshake # "rejected" /\ w.conn.inherentKeepAlive -> StartSucceeded(w)
      [] OTHER -> HttpSend(ResetKeepAliveInterval([w EXCEPT !.hub.start = "ping"]))

\* The handshake promise is settled: its resolution may come from the close of the connection.
HandshakeSettled(w) ==
    CASE w.hub.handshake = "rejected" \/ w.hub.stopError -> HandshakeFailed(w)
      [] w.hub.handshake # "rejected" /\ ~w.hub.stopError /\ w.conn.inherentKeepAlive ->
             StartSucceeded(w)
      [] OTHER -> HttpSend(ResetKeepAliveInterval([w EXCEPT !.hub.start = "ping"]))

-----------------------------------------------------------------------------
(* Closing and receiving *)

\* Mutant: the timers of the closed connection keep running.
ConnectionClosedKeepsTimers(w) ==
    LET v == [w EXCEPT !.hub.stopError = TRUE,
                       !.hub.handshake = IF @ = "pending" THEN "resolved" ELSE @]
    IN  CASE w.hub.state = "Disconnecting" -> CompleteClose(v)
          [] w.hub.state = "Connected" /\ w.hub.retries >= 0 -> Reconnect(v)
          [] w.hub.state = "Connected" /\ w.hub.retries < 0 -> CompleteClose(v)
          [] OTHER -> v

\* Mutant: a start that waits for the handshake is not told.
ConnectionClosedKeepsHandshake(w) ==
    LET v == CleanupTimers([w EXCEPT !.hub.stopError = TRUE])
    IN  CASE w.hub.state = "Disconnecting" -> CompleteClose(v)
          [] w.hub.state = "Connected" /\ w.hub.retries >= 0 -> Reconnect(v)
          [] w.hub.state = "Connected" /\ w.hub.retries < 0 -> CompleteClose(v)
          [] OTHER -> v

\* _connectionClosed, the onclose callback of the HttpConnection
ConnectionClosed(w) ==
    LET v == CleanupTimers([w EXCEPT !.hub.stopError = TRUE,
                                     !.hub.handshake = IF @ = "pending" THEN "resolved" ELSE @])
    IN  CASE w.hub.state = "Disconnecting" -> CompleteClose(v)
          [] w.hub.state = "Connected" /\ w.hub.retries >= 0 -> Reconnect(v)
          [] w.hub.state = "Connected" /\ w.hub.retries < 0 -> CompleteClose(v)
          [] OTHER -> v

\* What the switch of _processIncomingData does to the connection for one message
Dispatch(w, message) ==
    CASE message = "close" -> HubStop(w)
      [] message = "closeAllowReconnect" -> HttpStop(w)
      [] OTHER -> w

DispatchAll(w, messages) ==
    LET after[n \in 0..Len(messages)] ==
            IF n = 0 THEN w ELSE Dispatch(after[n - 1], messages[n])
    IN  after[Len(messages)]

\* A handshake response has no message type, so it is only readable as the first record.
Readable(records) == \A i \in DOMAIN records : records[i] \notin {"handshake", "handshakeError"}

\* Mutant: the server timeout is not set again after a message.
ProcessIncomingDataNoReset(w, records) ==
    LET v == CleanupTimeout(w)
        first == [v EXCEPT !.hub.received = TRUE, !.hub.handshake = "resolved"]
    IN  [threw |-> FALSE,
         w |-> DispatchAll(first, IF w.hub.received THEN records ELSE Tail(records))]

\* _processIncomingData of the records of one chunk: the client afterwards, and whether the
\* callback threw into the transport.
ProcessIncomingData(w, records) ==
    LET v == CleanupTimeout(w)
        greeted == records[1] = "handshake"
        first == IF w.hub.received THEN v
                 ELSE [v EXCEPT !.hub.received = TRUE,
                                !.hub.handshake = IF @ = "pending" THEN "resolved" ELSE @]
        rest == IF w.hub.received THEN records ELSE Tail(records)
    IN  CASE ~w.hub.received /\ ~greeted ->
                 [threw |-> TRUE,
                  w |-> [v EXCEPT !.hub.handshake = IF @ = "pending" THEN "rejected" ELSE @]]
          [] (w.hub.received \/ greeted) /\ ~Readable(rest) -> [threw |-> TRUE, w |-> first]
          [] OTHER -> [threw |-> FALSE, w |-> ResetTimeoutPeriod(DispatchAll(first, rest))]

\* The keep-alive timer fires; its handle stays until a message is sent.
PingFires(w) ==
    IF w.hub.state = "Connected" /\ w.conn.state = "Connected"
    THEN [ResetKeepAliveInterval(w) EXCEPT !.hub.pinging = TRUE]
    ELSE IF w.hub.state = "Connected" THEN CleanupPingTimer(w)
    ELSE [w EXCEPT !.hub.ping = "fired"]
=============================================================================

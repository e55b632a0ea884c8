------------------------- MODULE TransportSendQueue -------------------------
(***************************************************************************)
(* TransportSendQueue of the SignalR client (signalr.js): messages are          *)
(* buffered while the transport sends, and the loop then sends all of them as    *)
(* one.  The n-th call of send() has the ticket n; the calls whose data is sent  *)
(* together share one promise (_transportResult), so a ticket's promise is the   *)
(* state of the one it shares.                                                   *)
(***************************************************************************)
EXTENDS Integers, Sequences

VARIABLES transport,  \* "socket": WebSockets; "request": Server-Sent Events and long polling, which POST
          sent,       \* what send() was called with, in order
          promise,    \* the promise each call returned: "pending", "ok" or "fail"
          buffer,     \* _buffer, as tickets
          signalled,  \* _sendBufferedData is resolved
          executing,  \* _executing
          loop,       \* _sendLoop: "waiting" for data, or for transport.send(data), which took the
                      \* data ("sending") or did not ("refused"), or "ended"
          flying,     \* tickets of the data the loop waits for
          network,    \* tickets of the data the socket or a request has taken, not at the server
          wire        \* tickets of what reached the server, in order
qvars == <<transport, sent, promise, buffer, signalled, executing, loop, flying, network, wire>>

QueueInit ==
    /\ transport \in {"socket", "request"}
    /\ sent = << >> /\ promise = << >> /\ buffer = << >>
    /\ signalled = FALSE /\ executing = TRUE /\ loop = "waiting"
    /\ flying = << >> /\ network = << >> /\ wire = << >>

Tickets(s) == {s[i] : i \in DOMAIN s}

\* The promises of these tickets are settled.
Settle(tickets, result) ==
    promise' = [t \in DOMAIN promise |-> IF t \in tickets THEN result ELSE promise[t]]

\* Calls of send(): buffer the data and wake the loop.
SendAll(messages) ==
    /\ sent' = sent \o messages
    /\ promise' = promise \o [i \in DOMAIN messages |-> "pending"]
    /\ buffer' = buffer \o [i \in DOMAIN messages |-> Len(sent) + i]
    /\ signalled' = (signalled \/ messages # << >>)
    /\ UNCHANGED <<transport, executing, loop, flying, network, wire>>

\* stop() wakes the loop so that it ends.
StopQueue ==
    /\ executing' = FALSE /\ signalled' = TRUE
    /\ UNCHANGED <<transport, sent, promise, buffer, loop, flying, network, wire>>

\* A socket that is not OPEN any more takes nothing; it never opens again.
MaySend == transport = "socket" => \A t \in DOMAIN promise : promise[t] # "fail"

\* Mutant: the loop keeps the buffer it has handed to the transport.
LoopSendsKeepingBuffer ==
    /\ loop = "waiting" /\ signalled /\ executing /\ MaySend
    /\ signalled' = FALSE /\ loop' = "sending"
    /\ flying' = buffer /\ network' = network \o buffer
    /\ UNCHANGED <<transport, sent, promise, buffer, executing, wire>>

\* The loop takes everything that is buffered and hands it to the transport.
LoopSends ==
    /\ loop = "waiting" /\ signalled /\ executing /\ MaySend
    /\ signalled' = FALSE /\ loop' = "sending"
    /\ flying' = buffer /\ buffer' = << >> /\ network' = network \o buffer
    /\ UNCHANGED <<transport, sent, promise, executing, wire>>

\* "WebSocket is not in the OPEN state"
LoopRefused ==
    /\ loop = "waiting" /\ signalled /\ executing /\ transport = "socket"
    /\ signalled' = FALSE /\ loop' = "refused"
    /\ flying' = buffer /\ buffer' = << >>
    /\ UNCHANGED <<transport, sent, promise, executing, network, wire>>

\* Mutant: the loop ends without a word to the callers that wait.
LoopEndsSilently ==
    /\ loop = "waiting" /\ signalled /\ ~executing
    /\ loop' = "ended"
    /\ UNCHANGED <<transport, sent, promise, buffer, signalled, executing, flying, network, wire>>

\* The loop ends; who waits for the current promise is told "Connection stopped."
LoopEnds ==
    /\ loop = "waiting" /\ signalled /\ ~executing
    /\ loop' = "ended"
    /\ Settle(Tickets(buffer), "fail")
    /\ UNCHANGED <<transport, sent, buffer, signalled, executing, flying, network, wire>>

\* Mutant: the loop settles the promise that is current when the transport has ended, which the
\* callers that came meanwhile wait for.
TransportEndsCurrent(result) ==
    /\ loop \in {"sending", "refused"} /\ loop' = "waiting"
    /\ Settle(Tickets(buffer), result)
    /\ flying' = << >>
    /\ UNCHANGED <<transport, sent, buffer, signalled, executing, wire>>

\* The end of transport.send(data) settles the promise of the calls whose data it was.
TransportEnds(result) ==
    /\ loop \in {"sending", "refused"} /\ loop' = "waiting"
    /\ Settle(Tickets(flying), result)
    /\ flying' = << >>
    /\ UNCHANGED <<transport, sent, buffer, signalled, executing, wire>>

\* WebSocketTransport.send resolves once the socket has the data; a POST when the server has
\* answered it.
TransportSent ==
    /\ loop = "sending" /\ (transport = "request" => network = << >>)
    /\ TransportEnds("ok")
    /\ UNCHANGED network

\* A socket has refused the data; a POST failed, before or after the server had what it carries
\* (a request that was given up does not arrive any more).
TransportFailed ==
    /\ loop = "refused" \/ transport = "request"
    /\ TransportEnds("fail")
    /\ network' = IF transport = "request" THEN << >> ELSE network

\* What a socket or a request carries reaches the server (external), or never does: then it stays
\* in `network'.  Messages that leave together arrive together, and a server may take its time
\* to look at them, so that they need not arrive one by one.
Arrive ==
    /\ network # << >>
    /\ wire' = wire \o network /\ network' = << >>
    /\ UNCHANGED <<transport, sent, promise, buffer, signalled, executing, loop, flying>>

-----------------------------------------------------------------------------
(* The queue of one connection, for any messages *)

IsSequence(s) == s \in Seq(Tickets(s))

\* One turn of the event loop calls send() for any number of messages.
SendSome ==
    /\ executing /\ IsSequence(sent')
    /\ SendAll(SubSeq(sent', Len(sent) + 1, Len(sent')))

QueueNext ==
    \/ SendSome \/ StopQueue \/ LoopSends \/ LoopRefused \/ LoopEnds
    \/ TransportSent \/ TransportFailed \/ Arrive
QueueSpec == QueueInit /\ [][QueueNext]_qvars

Increasing(s) == \A i, j \in DOMAIN s : i < j => s[i] < s[j]

\* What reached the server, what the network carries and what is buffered are the calls of
\* send() in their order: no call overtakes another, is sent twice or is still buffered when
\* it has been sent.
SentInOrder == Increasing(wire \o network \o buffer)

\* What send() tells its caller is true of the caller's own data, also when calls came while the
\* transport was sending or stop() met it: with a transport that POSTs, success means that the
\* server has the data; with a socket, success only that the socket took them, and a failure
\* that they were never sent.
OutcomeIsTrue ==
    \A t \in DOMAIN promise :
        /\ promise[t] = "ok" =>
               t \in Tickets(wire) \/ (transport = "socket" /\ t \in Tickets(network))
        /\ promise[t] = "fail" /\ transport = "socket" =>
               t \notin Tickets(wire) \cup Tickets(network)

\* A promise is pending exactly while its data is buffered or in flight, so that no caller
\* waits for ever on a queue that has ended.
PendingIsHeld ==
    \A t \in DOMAIN promise :
        promise[t] = "pending" <=>
            loop # "ended" /\ (t \in Tickets(buffer) \/ t \in Tickets(flying))
=============================================================================

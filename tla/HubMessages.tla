----------------------------- MODULE HubMessages -----------------------------
(***************************************************************************)
(* What a SignalR HubConnection sends and receives over one connection           *)
(* (signalr.js): invoke(), send() and stream() with the streams they upload, the  *)
(* answers and invocations of the server, and the close that ends them all.  The  *)
(* sends go through TransportSendQueue, the received text through HubProtocol.    *)
(* Promise continuations may run at any time after they are ready.                *)
(***************************************************************************)
EXTENDS TransportSendQueue, HubProtocol, FiniteSets

CONSTANTS Pages,        \* what a page and its server use: [calls, most, handlers, replies]
          MaxItems, MaxReplies, MaxChunk    \* bounds of an instance, with page.most

\* A page calls invoke(), send() or stream(); some of the arguments are observables.
ASSUME PagesAssumption ==
    /\ \A p \in Pages :
           /\ \A call \in p.calls : /\ call.kind \in {"invoke", "send", "stream"}
                                    /\ call.args \in Seq({"observable", "value"})
           /\ p.replies \subseteq {"answer", "invoke", "other"}
    /\ MaxChunk \in Nat

VARIABLES page,         \* one of Pages: the kinds and arguments of its calls and how
                        \* many, the handlers of its client method, the kinds of messages its server sends
          open,         \* the HttpConnection is Connected
          nextId,       \* _invocationId
          callbacks,    \* the ids _callbacks has an entry for
          calls,        \* the calls of invoke(), send() and stream(), in order
          methods,      \* _methods of the one method the server calls, as a sequence
          invocations,  \* the runs of _invokeClientMethod, in order
          received,     \* _receivedHandshakeResponse
          served,       \* what the server has sent, in order (external)
          delivered,    \* how much of it the transport has passed on (external)
          dispatched    \* history: the messages that reached the switch
hvars == <<page, open, nextId, callbacks, calls, methods, invocations, received,
           served, delivered, dispatched>>
vars == <<qvars, hvars>>

Init ==
    /\ QueueInit
    /\ page \in Pages
    /\ open = TRUE /\ nextId = 0 /\ callbacks = {} /\ calls = << >>
    /\ methods = << >> /\ invocations = << >> /\ received = FALSE
    /\ served = <<Handshake>> /\ delivered = 0 /\ dispatched = << >>

-----------------------------------------------------------------------------
(* Calls *)

\* _replaceStreamingParams: after an observable is cut out of the arguments the loop goes on
\* behind the one that moved into its place, so the second of two neighbours stays.
Replaced(args) ==
    LET cut[p \in 0..Len(args)] ==
            p > 0 /\ args[p] = "observable" /\ ~cut[p - 1]
    IN  {p \in DOMAIN args : cut[p]}

\* invoke(), stream() and send(): ids for the uploaded streams, then for the invocation; the
\* message is sent and the streams are subscribed to.  A connection that is not open rejects
\* the send at once (ticket 0).
Call(kind, args) ==
    LET uploads == [i \in 1..Cardinality(Replaced(args)) |-> nextId + i - 1]
        id == IF kind = "send" THEN -1 ELSE nextId + Len(uploads)
        type == IF kind = "stream" THEN "StreamInvocation" ELSE "Invocation"
    IN  /\ Len(calls) < page.most
        /\ nextId' = nextId + Len(uploads) + (IF kind = "send" THEN 0 ELSE 1)
        /\ callbacks' = IF kind = "send" THEN callbacks ELSE callbacks \cup {id}
        /\ calls' = Append(calls,
               [kind |-> kind, id |-> id, uploads |-> uploads,
                ticket |-> IF open THEN Len(sent) + 1 ELSE 0,
                caught |-> FALSE, outcome |-> "pending",
                observed |-> kind = "stream", cancel |-> FALSE,
                waits |-> IF open THEN Len(sent) + 1 ELSE 0, tolerant |-> kind # "send",
                live |-> Tickets(uploads), items |-> 0, chain |-> << >>])
        /\ IF open THEN SendAll(<<Message(type, id, uploads)>>) ELSE UNCHANGED qvars
        /\ UNCHANGED <<page, open, methods, invocations, received, served, delivered, dispatched>>

Rejected(ticket) == IF ticket = 0 THEN TRUE ELSE promise[ticket] = "fail"
Resolved(ticket) == IF ticket = 0 THEN FALSE ELSE promise[ticket] = "ok"

\* What a callback does to its call: a promise keeps its first outcome, the observers of a
\* Subject are called every time.
Item(call) == [call EXCEPT !.outcome = IF call.kind = "invoke" /\ @ = "pending"
                                       THEN "rejected" ELSE @]
End(call, outcome) == [call EXCEPT !.outcome = IF @ = "pending" THEN outcome ELSE @]

UnchangedButCalls == UNCHANGED <<page, open, nextId, methods, invocations, received, served,
                                 delivered, dispatched>>

\* The catch of the send in invoke() and stream()
SendCaught(k) ==
    /\ ~calls[k].caught /\ calls[k].kind # "send" /\ Rejected(calls[k].ticket)
    /\ calls' = [calls EXCEPT ![k] = [End(@, "rejected") EXCEPT !.caught = TRUE]]
    /\ callbacks' = callbacks \ {calls[k].id}
    /\ UNCHANGED qvars /\ UnchangedButCalls

\* The promise of send() is the promise of the queue.
SendSettles(k) ==
    /\ calls[k].kind = "send" /\ calls[k].outcome = "pending"
    /\ Rejected(calls[k].ticket) \/ Resolved(calls[k].ticket)
    /\ calls' = [calls EXCEPT ![k] =
                     End(@, IF Resolved(calls[k].ticket) THEN "resolved" ELSE "rejected")]
    /\ UNCHANGED <<qvars, callbacks>> /\ UnchangedButCalls

\* dispose() of the only subscription: the callback goes, the server is told when the call has
\* been sent.
Dispose(k) ==
    /\ calls[k].kind = "stream" /\ calls[k].observed
    /\ calls' = [calls EXCEPT ![k].observed = FALSE, ![k].cancel = TRUE]
    /\ callbacks' = callbacks \ {calls[k].id}
    /\ UNCHANGED qvars /\ UnchangedButCalls

\* Mutant: the queue of a closed connection is used still.
TransmitAlways(message) == SendAll(<<message>>)

\* A send of a continuation, rejected at once when the connection is not open
Transmit(message) == IF open THEN SendAll(<<message>>) ELSE UNCHANGED qvars

SendCancel(k) ==
    /\ calls[k].cancel /\ (Resolved(calls[k].ticket) \/ calls[k].caught)
    /\ calls' = [calls EXCEPT ![k].cancel = FALSE]
    /\ Transmit(Message("CancelInvocation", calls[k].id, << >>))
    /\ UNCHANGED callbacks /\ UnchangedButCalls

-----------------------------------------------------------------------------
(* Uploads: _launchStreams chains every send behind the one before it *)

\* Mutant: the end of a stream does not wait for its items.
EmitUnchained(k, stream, type) ==
    /\ stream \in calls[k].live
    /\ type = "StreamItem" => calls[k].items < MaxItems
    /\ calls' = [calls EXCEPT
           ![k].chain = IF type = "StreamItem" THEN Append(@, Message(type, stream, << >>)) ELSE @,
           ![k].items = IF type = "StreamItem" THEN @ + 1 ELSE @,
           ![k].live = IF type = "Completion" THEN @ \ {stream} ELSE @]
    /\ IF type = "Completion" THEN Transmit(Message(type, stream, << >>)) ELSE UNCHANGED qvars
    /\ UNCHANGED callbacks /\ UnchangedButCalls

\* An uploaded stream emits an item, or completes or fails: one more link of the chain.
Emit(k, stream, type) ==
    /\ stream \in calls[k].live
    /\ type = "StreamItem" => calls[k].items < MaxItems
    /\ calls' = [calls EXCEPT
           ![k].chain = Append(@, Message(type, stream, << >>)),
           ![k].items = IF type = "StreamItem" THEN @ + 1 ELSE @,
           ![k].live = IF type = "Completion" THEN @ \ {stream} ELSE @]
    /\ UNCHANGED <<qvars, callbacks>> /\ UnchangedButCalls

\* The next link runs: it sends, or is skipped because a link before it was rejected.  The
\* first link of invoke() and stream() waits for a promise whose rejection was caught.
ChainRuns(k) ==
    LET call == calls[k]
        ready == call.tolerant /\ call.caught
    IN  /\ call.chain # << >>
        /\ ready \/ Rejected(call.waits) \/ Resolved(call.waits)
        /\ call.tolerant /\ Rejected(call.waits) => call.caught
        /\ IF ready \/ Resolved(call.waits)
           THEN /\ Transmit(Head(call.chain))
                /\ calls' = [calls EXCEPT
                       ![k].waits = IF open THEN Len(sent) + 1 ELSE 0,
                       ![k].tolerant = FALSE, ![k].chain = Tail(@)]
           ELSE calls' = [calls EXCEPT ![k].chain = << >>] /\ UNCHANGED qvars
        /\ UNCHANGED callbacks /\ UnchangedButCalls

-----------------------------------------------------------------------------
(* Client methods *)

\* on(): a handler is not added twice.
On(handler) ==
    /\ methods' = IF handler \in Tickets(methods) THEN methods ELSE Append(methods, handler)
    /\ UNCHANGED <<qvars, page, open, nextId, callbacks, calls, invocations, received, served,
                   delivered, dispatched>>

\* off(name, handler); off(name) is the removal of all of them.
Off(removed) ==
    /\ methods' = SelectSeq(methods, LAMBDA h : h \notin removed)
    /\ UNCHANGED <<qvars, page, open, nextId, callbacks, calls, invocations, received, served,
                   delivered, dispatched>>

Falsy == {"undefined", "falsy"}

\* Mutant: the error about several results is sent and then the result as well.
AnswersTwice(v) ==
    (IF v.several THEN <<"error">> ELSE << >>) \o
    (IF v.id # 0 THEN <<IF v.threw THEN "error" ELSE "result">> ELSE << >>)

\* What _invokeClientMethod answers after the last handler.
Answers(v) ==
    CASE v.several -> <<"error">>
      [] ~v.several /\ v.id # 0 ->
             <<IF v.threw \/ v.result = "undefined" THEN "error" ELSE "result">>
      [] OTHER -> << >>

\* A handler has returned or thrown; after the last one the server is answered.
HandlerReturns(i, result) ==
    LET v == invocations[i]
        u == IF result = "throw"
             THEN [v EXCEPT !.left = Tail(@), !.threw = TRUE]
             ELSE [v EXCEPT !.left = Tail(@), !.threw = FALSE, !.result = result,
                            !.several = @ \/ (v.id # 0 /\ {result, v.result} \cap Falsy = {})]
        answers == IF u.left = << >> THEN Answers(u) ELSE << >>
    IN  /\ v.left # << >>
        /\ invocations' = [invocations EXCEPT ![i] = [u EXCEPT !.answers = @ \o answers]]
        /\ IF open
           THEN SendAll([a \in DOMAIN answers |-> Message("Completion", v.id, << >>)])
           ELSE UNCHANGED qvars
        /\ UNCHANGED <<page, open, nextId, callbacks, calls, methods, received, served, delivered,
                       dispatched>>

-----------------------------------------------------------------------------
(* Receiving *)

\* The part of the connection that received messages change; `out' is what they send.
Inbox == [callbacks |-> callbacks, calls |-> calls, invocations |-> invocations, out |-> << >>]

\* _invokeClientMethod up to its first await: handlers are called on a copy of the list, and
\* without any the server is answered with an error at once.
InvokeClientMethod(w, message) ==
    LET v == [id |-> message.id, left |-> methods, result |-> "undefined", threw |-> FALSE,
              several |-> FALSE,
              answers |-> IF methods = << >> /\ message.id # 0 THEN <<"error">> ELSE << >>]
    IN  [w EXCEPT !.invocations = Append(@, v),
                  !.out = IF v.answers = << >> THEN @
                          ELSE Append(@, Message("Completion", message.id, << >>))]

\* The callback of the call the message names, if it is registered still
CallBack(w, message) ==
    IF message.id \notin w.callbacks THEN w
    ELSE [w EXCEPT
        !.callbacks = IF message.type = "Completion" THEN @ \ {message.id} ELSE @,
        !.calls = [k \in DOMAIN @ |->
            IF @[k].id # message.id THEN @[k]
            ELSE IF message.type = "Completion" THEN End(@[k], "answered") ELSE Item(@[k])]]

DispatchMessage(w, message) ==
    CASE message.type = "Invocation" -> InvokeClientMethod(w, message)
      [] message.type \in {"StreamItem", "Completion"} -> CallBack(w, message)
      [] OTHER -> w

DispatchAll(messages) ==
    LET after[n \in 0..Len(messages)] ==
            IF n = 0 THEN Inbox ELSE DispatchMessage(after[n - 1], messages[n])
    IN  after[Len(messages)]

\* The transport passes on n messages of the server as one text: _processIncomingData.
Receive(n) ==
    LET text == Join(SubSeq(served, delivered + 1, delivered + n))
        rest == IF received THEN text ELSE HandshakeRest(text)
        messages == IF rest = << >> THEN << >> ELSE ParseMessages(rest)
        w == DispatchAll(messages)
    IN  /\ open /\ n \in 1..Len(served) - delivered
        /\ received \/ IsHandshake(text)
        /\ rest # << >> => Readable(rest)
        /\ received' = TRUE /\ delivered' = delivered + n
        /\ dispatched' = dispatched \o messages
        /\ callbacks' = w.callbacks /\ calls' = w.calls /\ invocations' = w.invocations
        /\ SendAll(w.out)
        /\ UNCHANGED <<page, open, nextId, methods, served>>

\* Mutant: the calls that wait for an answer are forgotten.
CancelCallbacksLost(w) == callbacks' = {} /\ calls' = w

\* _cancelCallbacksWithError: every call that waits for an answer is told.
CancelCallbacks(w) ==
    /\ callbacks' = {}
    /\ calls' = [k \in DOMAIN w |->
                     IF w[k].id \in callbacks THEN End(w[k], "rejected") ELSE w[k]]

\* The end of the connection, _stopConnection and _connectionClosed.  One step stands for what
\* takes several when the page asks for it: from HttpConnection.stop() on, sends are rejected
\* already while a long poll may still pass on messages.
Close ==
    /\ open /\ open' = FALSE
    /\ CancelCallbacks(calls)
    /\ StopQueue
    /\ UNCHANGED <<page, nextId, methods, invocations, received, served, delivered, dispatched>>

-----------------------------------------------------------------------------
(* The server (external): it answers what reached it and calls the client's method. *)

Arrived(message) == \E i \in DOMAIN wire : sent[wire[i]] = message
Answered(id) ==
    \E i \in DOMAIN served : served[i].type = "Completion" /\ served[i].id = id

Reply(message) ==
    /\ open /\ Len(served) <= MaxReplies
    /\ served' = Append(served, message)
    /\ UNCHANGED <<qvars, page, open, nextId, callbacks, calls, methods, invocations, received,
                   delivered, dispatched>>

ServerAnswers ==
    /\ "answer" \in page.replies
    /\ \E k \in DOMAIN calls :
           /\ calls[k].ticket \in Tickets(wire) /\ calls[k].kind # "send"
           /\ ~Answered(calls[k].id)
           /\ \/ Reply(Message("Completion", calls[k].id, << >>))
              \/ calls[k].kind = "stream" /\ Reply(Message("StreamItem", calls[k].id, << >>))

\* Server ids are negative here, so that they differ from the client's; 0 wants no answer.
ServerInvokes ==
    /\ "invoke" \in page.replies
    /\ \E id \in {0, -1 - Len(served)} : Reply(Message("Invocation", id, << >>))

\* Pings, and a message type of a later protocol
ServerSendsOther ==
    /\ "other" \in page.replies
    /\ \E type \in {"Ping", "Later"} : Reply(Message(type, 0, << >>))

-----------------------------------------------------------------------------

LoopStep ==
    /\ LoopSends \/ LoopRefused \/ LoopEnds \/ TransportSent \/ TransportFailed
    /\ UNCHANGED hvars
QueueStep == LoopStep \/ (Arrive /\ UNCHANGED hvars)

Continuation ==
    \E k \in DOMAIN calls : SendCaught(k) \/ SendSettles(k) \/ SendCancel(k) \/ ChainRuns(k)

Page ==
    \/ \E call \in page.calls : Call(call.kind, call.args)
    \/ \E k \in DOMAIN calls :
           \/ Dispose(k)
           \/ \E s \in calls[k].live, type \in {"StreamItem", "Completion"} : Emit(k, s, type)
    \/ \E h \in page.handlers : On(h) \/ Off({h})
    \/ Off(page.handlers)

HandlerRuns ==
    \E i \in DOMAIN invocations, r \in {"undefined", "falsy", "truthy", "throw"} :
        HandlerReturns(i, r)

Next ==
    \/ QueueStep \/ Continuation \/ Page \/ HandlerRuns
    \/ \E n \in 1..MaxChunk : Receive(n)
    \/ Close
    \/ ServerAnswers \/ ServerInvokes \/ ServerSendsOther

\* The browser runs the loop of the queue and every continuation, and a send of the transport
\* ends: a socket takes or refuses the data at once, a POST is answered or times out.  What the
\* network carries need not arrive.
Fairness == WF_vars(LoopStep) /\ WF_vars(Continuation)

Spec == Init /\ [][Next]_vars /\ Fairness

-----------------------------------------------------------------------------
(* Properties *)

\* Every variable holds one of its values; an id is registered only for a call that exists.
TypeOK ==
    /\ open \in BOOLEAN /\ received \in BOOLEAN /\ nextId \in Nat
    /\ callbacks \subseteq {calls[k].id : k \in DOMAIN calls}
    /\ delivered \in 0..Len(served)
    /\ DOMAIN promise = DOMAIN sent
    /\ \A t \in DOMAIN promise : promise[t] \in {"pending", "ok", "fail"}
    /\ Tickets(buffer) \cup Tickets(flying) \cup Tickets(network) \cup Tickets(wire)
           \subseteq DOMAIN sent
    /\ \A k \in DOMAIN calls : calls[k].outcome \in {"pending", "answered", "resolved", "rejected"}

\* Somebody waits for this call's answer: the promise of invoke(), the observer of stream().
Awaited(call) == call.kind = "invoke" \/ (call.kind = "stream" /\ call.observed)

\* A call waits for its answer exactly as long as its callback is registered: a close, a failed
\* send and a completion, in whatever order they come, leave neither a call that nobody will
\* settle nor a callback of a call that is over (_callbacks), which would pass an item to the
\* observer of a stream that has ended.
CallbackPerCall ==
    \A k \in DOMAIN calls :
        calls[k].id \in callbacks <=> Awaited(calls[k]) /\ calls[k].outcome = "pending"

\* The server gets exactly one completion for an invocation that wants one and none for another,
\* whatever the handlers return and however on() and off() change their list meanwhile.
OneAnswer ==
    \A i \in DOMAIN invocations :
        LET v == invocations[i]
            completions == {t \in DOMAIN sent : sent[t] = Message("Completion", v.id, << >>)}
        IN  /\ Len(v.answers) = IF v.id # 0 /\ v.left = << >> THEN 1 ELSE 0
            /\ v.id # 0 => Cardinality(completions) <= Len(v.answers)

\* "Synchronize stream data so they arrive in-order on the server": no item or end of an upload
\* reaches the server before the invocation that announces the stream, and no item after its end.
UploadsInOrder ==
    \A i, j \in DOMAIN wire :
        LET m == sent[wire[i]]
            n == sent[wire[j]]
        IN  /\ n.type \in {"StreamItem", "Completion"} /\ n.id \in Tickets(m.streams) => i < j
            /\ m.type = "StreamItem" /\ n = Message("Completion", m.id, << >>) => i < j

\* Everything the server has sent reaches the switch once and in order, but for the types that
\* are skipped, also what comes in one text with the handshake response.
DispatchedInOrder ==
    dispatched = OfType(SubSeq(served, 2, delivered),
                        {"Invocation", "StreamItem", "Completion", "Ping", "Close"})

\* The sends of a hub connection use the queue as QueueSpec has it, so the theorems about
\* QueueSpec hold of them.
ImplementsSendQueue == QueueSpec

\* Every promise of send() is settled, also when the connection closes before or during it.
EverySendSettles ==
    \A t \in 1..2 :
        (t \in DOMAIN promise /\ promise[t] = "pending") ~>
            (t \in DOMAIN promise /\ promise[t] # "pending")
=============================================================================

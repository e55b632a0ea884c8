# Verification of DecodingProxy

DecodingProxy is a set of C# libraries and programs around an HTTP(S) proxy that decodes what it
relays, with two web pages that watch it over SignalR. This directory holds TLA+ models of the parts that carry its concurrent logic, TLC
configurations that check them on small instances, and TLAPS proofs of the properties that matter
most for every value of the constants. Definitions keep the names of the source; `PROJECT.json`
maps each of them to the lines it models.

## 1. Inventory

The code is a prototype: many handlers throw `NotImplementedException`, and there is no prose
documentation besides comments. The parts, what they keep and what makes them hard:

| Part | State | Operations | Interaction | Hard because |
|---|---|---|---|---|
| `AsyncAutoResetEvent` (Izhg.Lib.Threading) | `waits`, `signals`, `isCanceled`, `cancellationToken`, `cachedCanceled` | `WaitAsync`, `Set`, `Reset`, the cancellation callback | used by GrpcConnection and PipedHttpStream | part of `WaitAsync` and all of `Reset` run outside the lock; canceled sources stay queued |
| `AsyncAutoResetEvent<T>` (same file) | queued values, completion flag | `WaitAsync`, `Set`, `SetLast`, `Cancel`, `Complete`, `Reset` | used by HttpPipedIntermediary | two-step completion |
| `AsyncAutoResetCounter`, `AsyncCounter`, `Awaiting` | `counter`, `value`/`target`, a completion source | `Increment`, `Decrement`, `Await`, `InitReset` | servers await their clients with it | no lock at all |
| `GrpcConnection`, `GrpcProxyPublisherService` (ProxyForDecoding) | queue of connection data, event, dictionary of connections | `MaintainConnection`, `NotifyAll`, `Put`, `RunAsServerNotifier` | any thread notifies, one task writes | one signal per datum across threads |
| `PipedHttpStream` (Izhg.Lib.Http.Piped) | pipe, queue of messages, event | `ParseMessagesAsync` | three tasks per call; the same stream is parsed again later | cancellation at any point, state left over between calls |
| `ConnectionsToDomain`, `ManagerBase` (NetworkPipelines) | active connections, chain of stalled ones, usage counter | `GetOrCreateAsync`, `Return`, `Kill`, `CheckDispose`, watchdogs | `HttpPipedIntermediary.Run` of each client session | pooled list nodes, timeouts, lock-free lookups |
| `HttpPipedIntermediary` | counters and flags of an exchange | `Run`, `MaintainMessagingV2` | reads from one side and writes to the other | flags read after counters |
| `ServerBase` (Izhg.Lib.Networking) | dictionaries of clients and tasks, counter | `Run`, `Stop`, `AcceptClientAsync` | starts a handler per client | three tasks per client, shutdown at any moment |
| `QueueCircled`, `SubstringMatchQueue` (Izhg.Lib.Collections) | array and four indices | operations at both ends, by index, shifts, enumeration | `HttpObjectStream` finds the end of headers with it | wrap-around at every index |
| `SocketWrap`, modifiers, pools | socket, key, state | connect, `Dispose`, rent, return | hub and servers | objects are pooled before they are cleared |
| `NodeProxy`, `AsyncSignaler`, `IziSignaler` | graph of nodes with fragment queues | advancing of nodes | nodes pass fragments | different locks on one queue; mostly unfinished |
| SignalR client (`wwwroot/lib/signalr/signalr.js`, one copy per web application) | `HubConnection`, `HttpConnection`, transport, timers, callbacks, send queue | `start`, `stop`, `invoke`, `send`, `stream`, `on`, `off`, reconnecting | the pages call it; callbacks, promises and timers call back | every `await` lets a stop, a close, a timer or a message in; starts and stops wait for each other |
| Console page (`console.js`), `ConsoleHub`, `ConsoleService`, `ConsolesServer` | buttons, tabs, the dictionary of consoles and their logs | handlers of the page, `RequestInitilization`, `GetLogs` | consoles over TCP, pages over SignalR | announcements, snapshots and reconnections interleave; the queue of logs has no lock |
| Info page (`site.js`), `SignalRInfoService` | the rows of the table | `connectionAdd`, `connectionRemove`, `connectionUpdateAll` | the proxy broadcasts to all pages | what is sent while a page is away is lost |
| TLS parsing, frame readers, HTTP object model, SOCKS, streams, recording | data layouts | parsing, formatting, I/O | | data rather than control |

What makes the modelled parts correct: no waiter and no signal is lost (event); each datum is written
once, in order (publisher); messages are delivered whole and in order and the call returns (parser);
a connection has one user, is not closed under it and is found again (hub), though its object is reused; the ring is a queue and
the matcher finds the substring; the server's dictionaries and counter agree with its clients; the
SignalR client ends every start, stop, call and send and tells its page of it at most once; the pages show what
the server has.
`PROJECT.json` lists the hazards, each at the line where it bites.

## 2. Modules and the code

**AsyncAutoResetEvent.** A queued `TaskCompletionSource` is named by the caller that awaits it, or is
`Canceled`. The blocks under `lock (waits)` (`EnterWait`, `Set`, the callback, `ResetCheck`) are one
action each. The prelude of `WaitAsync` (`CheckToken`, `StoreToken`, `RegisterToken`, `VerifyToken`)
and the assignments of `Reset` are separate actions. The field `CancellationToken?` has two words, so
a reader may see it half-written (`Torn`). `SetCanceled` on a canceled source throws and ends the
callback's loop (`Reached`). A call of `Set` on a canceled source loses the signal in `exception2`.
`SetCanceled` and `SetResult` may run the caller's continuation in line; here a caller resumes in a step of its
own. The difference would show only for a caller that waits again after a canceled wait: its new source changes
the queue under the `foreach`, which then throws. No caller in the repository does so.

**GrpcConnection** instantiates the event with one waiter, the notifier, and no token. `Put` is two
steps, `Enqueue` and `AreSet`. `MaintainConnection` starts the notifier before it registers the
connection. The writer may throw, the token of the service may be canceled.

**PipedHttpStream** instantiates the event with the caller as its only waiter and one token per call.
`Fill`, `Produce` and `Main` are the three tasks. The source is a sequence of pieces: parts of lines, whole lines,
the empty line after the fields (with what `AnalyzBodyLength` makes of them), pieces of a body, and the size
lines, data, CRLFs and end of a chunked one. A read returns whatever pieces are in the pipe (`seen`), and `HttpObject.Push`
walks over them with one action per turn: `ParseLine` and `EndHead` for `ParseLines`, `FillBody`, and `FillChunk`,
`SkipLine`, `TakeChunk`, `BeginChunk`, `EndChunks` and `ChunksEnd` for `FillBodyChunked`. Nothing in `Push`
bounds what is taken by the end of the message, so this is what it does where a read does not end with one:
* `FillBody` (`HttpObject.cs`, 142-150) copies the whole buffer into the rest of the body. If the buffer holds the
  beginning of the next message as well, `CopyTo` throws, since the body was given room for its length only
  (`HttpBody.cs`, 231-235): the task ends, and the buffer is never given back (`reading`), so that the reader of the next
  call throws at once (`ReadThrows`).
* A size line that is the last thing in the buffer is taken for the end of the body (line 206, `length` is 0 then), and
  the closing CRLF is counted whether it is there or not (line 218): the message is queued without its end and
  `AdvanceTo` throws (`Overrun`, `Redirect`).
* A buffer that ends within a line of chunks leaves the loop at line 170 without progress (`producePc = "spin"`),
  whatever becomes of the token.
* A read of a message without a body, or a chunked one whose end is in the buffer, leaves what follows in the pipe.
Exceptions of the source, of the redirection and of `ParseLines` on what is no head end their task. An error in
the fields (a message that is no HTTP) is outside the instances of a first call: every message meets `IsMessage`. The
repository has no consumer of `ParseMessagesAsync`; the model's one keeps what it gets and throws nothing.

**ConnectionsToDomain** keeps the chain as the code does: `head` and the fields `next`, `previous`,
`client` of pooled `StalledData` nodes; `bound` says that `pool` and `ctd` are set. A node may be in
the pool more than once (`pooled` counts). `canceledCts` holds the nodes whose source is canceled: a
source is only replaced once it is canceled, and its cancellation ends the delays that are registered
with it, so a waiting watchdog waits on the present source of its node or, after `cts.TryReset()` has
dropped the registrations, on none that can stop it (`unregistered`). Sessions are calls of
`HttpPipedIntermediary.Run`; `watchdog` has a slot per call of `MoveToStalled`. `timedOut` and
`misused` are history variables: `misused` records that a node was rented while its `Dispose` had not
cleared it yet, or taken out of a chain it was not in (section 6). `Chain` is the smallest set that has
`head` and follows `next`. A null dereference is the exception of the code: the session goes to
`faulted`, the watchdog ends. `Socket.Connected` is asked in `CheckConnect` only, so the model decides
there whether the origin has closed the connection.
`killing` counts the calls of `Kill` that wait for `StopWriteLoop`.
The connections are objects of a pool. `SocketWrap.Dispose` sets `isDisposed` and returns the object (`DisposeSocket`, up to
line 130) and only then clears its fields `pool` and `Key` (`ClearKey`), so that `CreateAsync`, which rents any object
of the pool (`Rent`), may have given it to another session by then: `clearing` counts these disposals, and `robbed`
records the objects whose new key they cleared. `activeConnections` is kept by key; with a cleared key `Return` throws or
waits for ever and the entry stays, which is what the code does, and `ActiveIsHeld` says that nothing else makes an
entry unfindable. Lines 120 to 130 are one step: two disposals of one object that are both past the test of
`isDisposed` are not distinguished. That a late disposal also disposes of the modifiers and the reader of the new owner
(138-150) is not modelled.

**QueueCircled** has the operations of a double-ended queue; **BoundedQueue** is what it promises. A
`ref T` result is the slot the caller stores into, so the store is part of the action. `Dequeue` on an
empty queue is excluded: the code documents it as "Unsafe". `ExtendBeforeHead` on an empty queue is
excluded because the code leaves `last` where it was: `PeakFromEnd` then reads a slot that is not in the
queue (`CircledQueue.cs`, line 226). The DEBUG build is modelled (`Dequeue` clears its slot).
**SubstringMatchQueue** extends it with the comparison after each byte.

**AsyncAutoResetCounter** has no lock, so every read and write of a field is a step; `InitReset` is
three. Sources are numbered. **ServerBase** extends it: each connection is a sequence of stages that stand
for `AcceptClientAsync` and its tasks `run` and `remove`. `Task.Run` with a canceled token never
starts the handler (`RunCanceled`). The handler gets no token (`TcpServer.AdapterClientTcp`).
Its client is an object of the pool (`TcpServer.cs`, 51-62), pooled by `Dispose` before `Unbind` and `ClearKey` finish with
it. `remove` looks the client up by its field `Key`: if the disposal by an earlier connection cleared it (`robbed`),
the lookup throws, the client stays in the dictionary and is counted for ever. Other users of the same pool are not
modelled.

### The SignalR client and the pages

JavaScript runs one task at a time, up to the next `await`. In **HttpConnection** and **HubConnection**
an operator maps the client `w = [conn, hub]` to the client after a synchronous call, with every callback
the call makes; `conn.start`, `conn.stop` and `hub.start` say at which `await` the coroutines are.
**SignalRClient** has one action per continuation, timer and event; continuations that are ready run
before any event (`Quiet`), in any order among themselves, which allows more orders than the microtask
queue does. **HttpClient** is the life of one request, for `fetch` and for `XMLHttpRequest`. The page is a
parameter: how many delays its reconnect policy has, whether its `onclose` calls `start()`, whether its
`onreconnecting` calls `stop()`. `leaked`, `session` and `overtaken` in the hub are history variables.
A page with a policy and an `onclose` that starts is excluded (`PagesAssumption`): two starts could
overlap then, and no page of the repository is built so. **HubSession** is what a page may rely on;
`ImplementsSession` shows that the client keeps to it, and **PageSession** builds on it.

**HubMessages** is what goes over one connection: calls with their ids and callbacks, uploads with the chain
of promises of `_launchStreams`, client methods with handlers that return or throw later, and received text
read by **HubProtocol**. `network`, `wire`, `served` and `delivered` belong to the network and the server. A message is
a record, a text a sequence of records and separators. `Close` is one step: the interval of `HttpConnection.stop()`, in which
sends are rejected already and a long poll may still deliver, is merged with the final `_stopConnection`.
**TransportSendQueue** is the buffer below; a call of `send()` is its ticket. Its transport is a socket or POSTs
requests. `WebSocketTransport.send` resolves when the socket has taken the data and rejects when the socket is not open
(`LoopRefused`); what was taken is in `network` until the server has it (`Arrive`), or for ever. A POST resolves when
the server has answered it and may fail before or after the server had the data; it is assumed that a request the client
has given up does not reach the server later. `HubMessages` uses it through its actions, and `ImplementsSendQueue` says that it never
does anything `QueueSpec` does not allow, so that the theorems about `QueueSpec` apply.

**ConsolePage** and **InfoPage** are the two pages with the server code that feeds them, over `PageSession`;
**Pages** is a browser that shows one of them. `missed` and `failed` record what the server lost or could not
answer, `initialised` the session of the last snapshot. A handler that throws leaves the page as it is up to
the line that throws.

## 3. Runs

Every bound is a CONSTANT of the module.

| Run | Instance | What it shows |
|---|---|---|
| `event` | 2 waiters, 2 tokens, 2 `Set`, 1 `Reset` | `PendingIsQueued`, `SignalsAccounted`, `NoMissedWakeup` over 2.4 M states |
| `publisher` | 2 threads, 2 data, cancellation, failing writer | `WakeupFindsData`, `WrittenInOrder`, `EveryDatumWritten` |
| `parse` | 4 messages (2 without a body, one of length 2, one with a chunk of 3) in 16 pieces, the third closes, 2 calls, failures, outside cancellation | `SpinFindsMessage`, `DeliveredInOrder`, `CloseEndsParse` over 0.8 M states |
| `hub` | 2 sessions, 2 pooled connections, 2 nodes, 2 calls of `CreateAsync`, 2 stalls, timeouts, failures, the origin closes | `ExclusiveUse`, `KilledOnlyByTimeout`, `ActiveIsHeld`, `ChainEnds` over 0.5 M states |
| `hub_timeout` | 3 stalls, timeouts, no failures | violated `HeldNotKilled`: a watchdog kills a connection in use |
| `ring` | capacity 4, 2 items and the default; the matcher on CRLFCRLF, 3 kinds of byte, 9 bytes | `EndsAgree`, refinement of `BoundedQueue` (`ImplementsQueue`), `MatchIsSuffix` over every stream |
| `server` | 2 connections, 2 pooled clients, failing handlers, `Stop` | `RemoveFindsEntries`, `CounterCountsClients`, `EveryClientRemoved` |
| `server_await` | 2 clients, `Stop` | violated `AwaitFinishes`: `Await` misses the last `Decrement` |
| `connection` | 3 transports, `fetch` or not, 3 offers, 8 kinds of received text, 5 pages, 2 redirections, up to 2 retries | `TypeOK`, `TimerBelongsToLiveConnection`, `DeadServerNoticed`, `StatesAgree`, `ConnectedHasTransport`, `StoppedStaysStopped`, refinement of `HubSession`, `StopSettles`, `StartSettles` |
| `connection_close` | the pages of the repository | violated `ClosedStartFails`: a start succeeds over a connection that has closed |
| `messages` | a socket or POSTs; 3 pages (2 calls; an upload of 2 streams; 2 handlers), 2 replies, texts of up to 2 messages, refused and failing sends, close at any moment | `SentInOrder`, `OutcomeIsTrue`, `PendingIsHeld`, `CallbackPerCall`, `OneAnswer`, `UploadsInOrder`, `DispatchedInOrder`, refinement of `QueueSpec`, `EverySendSettles` over 0.46 M states |
| `pages` | 2 consoles, 1 line each, 2 clicks, 2 connections with 2 values, 4 broadcasts, 2 sessions | `TableMatches`, `EveryConsoleHasButton`, `EveryTabFilled` over 3 M states |

`TypeOK` of the other modules documents the variables; it holds in the same instances and, where a proof
needs it, is part of the inductive invariant.

Some properties say less than one would like, because the code does:
`EveryDatumWritten` allows for a notifier that was canceled or whose writer threw. `CloseEndsParse` is
stated for the first call on a stream: a callback of the first token that runs after the `Reset` of the
second call cancels its await, and its tasks never end; and a parser that spins never ends. `DeliveredInOrder` lets a
chunked message come without its end, as the last one. `KilledOnlyByTimeout` is what is left of
`HeldNotKilled` once watchdogs may start late, and `ExclusiveUse` and `ActiveIsHeld` leave out the connections so killed,
since the pool hands them out again while their session still has them. The four properties of `hub` hold
until a node is misused, and with three connections not longer (section 6). `RemoveFindsEntries` and
`EveryClientRemoved` except a client whose key was cleared, `EveryClientRemoved` also those a `Stop` or a throwing
handler left behind. `OutcomeIsTrue` promises no delivery over a socket, since nothing in the code knows of it.
`StatesAgree` and `StopSettles` leave out a start that a close
has overtaken (`connection_close`), and `StopSettles` a `stop()` inside `onreconnecting`. `StartSettles`
leaves out long polling, which runs no server timeout. `StopSettles`, `StartSettles` and `ConnectedHasTransport` are
checked with `FirstPoll` = {200}: after a first poll answered with another 2xx status `start()` and `stop()` hang.
`ImplementsSession` is a safety property: the end of a session is told at most once, and nothing says that it is told. `EveryConsoleHasButton` counts buttons without an id,
because an announcement makes such a button; nameless buttons of earlier sessions count as well, which weakens it. `TableMatches` and `EveryTabFilled` leave out what the server
never delivered: the pages ask for nothing again.

Why the bounds are enough: two actors meet every pairwise race of the code, and a second stall, a third one in
`hub_timeout`, or a second call is there where a recycled object (node, event) has to meet its former owner. In `hub` two
calls of `CreateAsync` let a connection be disposed of, pooled and rented by the other session while its key is still to be
cleared; in `server` two connections do that with one client. In `parse` every kind of piece occurs, followed and preceded by
another message, and every read may end at every piece.
In `connection` nothing is counted but retries and redirections: the client may start, close and
stop for ever, so its 57 000 states are all there are. In `messages` two calls, two streams and two messages
in one text are the least that can be reordered; the proofs hold for any number of sends. In `pages` a second session and a
second click let old messages meet a new connection and a reopened tab.
Nine bytes are more than two turns of a ring of four. Capacity 4 lets the items wrap with a gap on
either side. The violated runs state what a comment of the source says; `findings` in `PROJECT.json`
quotes it.

Deadlock checking is off where the system may stop: all sessions over, all signals, calls or bytes used, a
SignalR hub that stays in Disconnecting.

### Fairness

Weak fairness of each task: the .NET thread pool eventually runs a task that can run, and a task whose
await has completed can run. In `publisher` this includes `WriteAsync` completing for a client
that reads. In `parse` the source delivers what it has, or fails. In `server` handlers end.
In `connection` the browser runs every continuation and timer, and every request ends by an answer, its
timeout or the network; nothing is assumed of the server's messages, so that `StartSettles` rests on the
server timeout. In `messages` the loop of the queue, the continuations and the sends of the transport go on; what a
socket has taken need never arrive.
Nothing is assumed of callers: cancellation, `Stop`, new clients and new data may or may not come.

## 4. Proofs

All proofs are for any values of the constants that meet the named assumptions.

* `Synchronization_proofs`, first part, about the event: `TypeCorrect`; `PendingIsQueuedHolds`, where `PendingIsQueued` is
  inductive together with the type invariant, by lemmas on what appending, dequeuing and canceling do
  to the queue; `SignalsAccountedHolds` and `NoMissedWakeupHolds` from
  `SignalInv`. That invariant adds that before the first `Reset` a canceled source is in the queue only
  while `isCanceled` is set. Without it a signal could meet a canceled source and be lost.
* `Synchronization_proofs`, second part, about the server: `RemoveFindsEntriesHolds` and `ClientExclusiveHolds` from
  `DictInv`. Its part `PoolInv` says that a client is in the pool or with the one connection that owns it, from the `Rent`
  to the `Return`; `KeysDrawn` that keys are drawn in increasing order, `EntriesAt` which entries each stage of a connection has,
  and `KeyAt` that the field of an owned client is the key of its owner or was cleared. `KeyAt` needs `PoolInv`: only a
  disposal that is past its `Return` can clear a foreign key, and no such disposal can set one. `CounterCountsClientsHolds`
  from `CountInv`: the counter is the cardinality of the clients counted in and not out until a completion
  source is completed; only the caller that did so resets it.
* `GrpcConnection_proofs`: `SignalPerDatumHolds` and `WakeupFindsDataHolds` from `WakeupInv`: how this
  connection uses the event (`AreState`), the types of the queues and the count of signals, wake-ups
  and signaling threads, with cardinality facts about the set of signaling threads.
  `WrittenInOrderHolds` adds that a datum is in hand only while it is written or after the writer threw.
* `QueueCircled_proofs`: `IndicesAgreeHolds` from `IndexInv`; `EndsAgreeHolds`; `QueueImplemented`, the
  refinement of `BoundedQueue`: each operation changes the content read from the array as the abstract
  one changes the sequence. Lemmas of the form `Read...` state that for an array, a head and a count,
  after `Linear` has removed the modulus.
  `MatchIsSuffixHolds` builds on it: `MatchInv` says that the ring holds the last bytes of the stream
  (`IsWindow`), as many as fit.
* `PipedHttpStream_proofs`: `SpinFindsMessageHolds` from `SpinInv`. How the caller uses the event is
  stated once (`EventState`), with a lemma per operation of the event; `TaskState` says that only a
  running call waits and that `Reset` runs between two calls, when no producer runs. The count
  (`SignalPerMessage`) is an inequality: a canceled source swallows the signal of its message.
  `DeliveredInOrderHolds` from `OrderInv`: as long as the parser goes on (`Parsing`), it is within the message after
  those it has queued, in the mode and with the rest of a body or chunk that this piece of the message asks for (`AtPiece`).
  Each turn of `Push` keeps this, or queues exactly the message, or ends the parser for good; the lemmas `HeadLine` and
  `BodyLine` say which lines a message has at its head and between its chunks. It needs that a first call finds no message begun
  (`FirstStart`), and is false for a second call.
* `ConnectionsToDomain_proofs`: `ActiveIsHeldHolds`, `ExclusiveUseHolds`, `KilledOnlyByTimeoutHolds`,
  `ChainEndsHolds`, for any sessions, connections, nodes, stalls and failures, from `HubInv`. Its part `ListInv` is
  the shape of the list as long as no node was misused: a node is in the chain, with one session, with one
  watchdog that disposes of it or in the pool (`NodesOwned`, `PoolOwned`), and in the chain each node is the
  `previous` of its `next`, none is followed by the head, and the chain ends (`Linked`; `previous` of the head may be
  stale, since `RemoveFromChain` leaves the old value). `UseInv` says that a connection no watchdog has killed is with
  one session (`HeldOnce`), on one node of the chain or just popped (`ShelvedOnce`), or, once it is killed or in the pool, with
  none (`KilledFree`), and that what `TryGet` read first is what it will hand out (`FoundHeld`). `ActiveInv` ties
  the dictionary to the sessions (`EntryOwned`, `OwnerFinds`). No part is inductive alone: that a node is
  linked once is what keeps its connection from being popped twice, an owned connection is what a
  watchdog may kill, and only a connection nobody has may be rented again. The lemmas `Reachable...` say what popping, appending and unlinking do to the set
  reachable from `head`; they are proved from the definition of the smallest closed set, without induction.
* `HubMessages_proofs`, first part, about `TransportSendQueue`: `SentInOrderHolds`, `OutcomeIsTrueHolds` and
  `PendingIsHeldHolds` from `QueueInv`. `SentInOrder` speaks of one concatenation; `InOrder` in the invariant splits it: each of
  wire, network, flight and buffer is in order and before the next, and every ticket was issued. The lemmas on concatenation move
  between the two forms. `Carried` says where the data is that the loop waits for: taken by the socket or the request while it
  is `sending`, and left with nobody after it was `refused`. The outcomes are true of the caller's own data only because no ticket is in
  two places, which is what the order gives.
* `HubMessages_proofs`, second part: `SendQueueImplemented`, the refinement of `QueueSpec`, and with it `HubSendsHold`, the
  three properties above (`SentInOrder`, `OutcomeIsTrue`, `PendingIsHeld`) for the hub's sends. `CallbackPerCallHolds`, `OneAnswerHolds`, `UploadsInOrderHolds` and
  `DispatchedInOrderHolds` from four layers of an inductive invariant over the pages, calls, uploads and
  handlers: the types, which promise each call and upload waits for, which handler of an invocation runs, and
  which part of the server's messages is read.
* `Pages_proofs`: `TableMatchesHolds`, `EveryConsoleHasButtonHolds` and `EveryTabFilledHolds` from `PagesInv`. The
  properties speak of a page that has handled everything; the invariant says what the messages on their way will do.
  `InTransit`: the messages about one connection alternate as the table needs them (an add if and only if
  there is no row, the last one agrees with the proxy), so that each handler finds at most one row.
  `LogsComing`: a tab that is empty has its `GetLogs` or its `fill-console` on the way. `ButtonsComing` counts:
  from the snapshot of the session on, there are at most as many announced consoles without a name on the page, or
  in a snapshot on its way, as there are nameless buttons and announcements on their way. It holds only since
  nothing but logs is asked for before the connection opens (`ConsoleCalls`), so that no snapshot of an earlier
  session arrives in this one.
* `SignalRClient_proofs`: every safety property of `connection`, from `Inv` (`ClientInvHolds`), and `SessionImplemented`,
  the refinement of `HubSession`, for any offers, redirections, texts, retries up to ten and pages within
  `PagesAssumption`. `Inv` relates the two objects at every await, in parts: `StateInv`, `TransportInv` and `PollInv` of
  the connection (which awaits of `start()` and `stop()` go with which state, transport and request),
  `HubInv` (session, `start`, reconnecting), and `StatesInv`, `StartInv`, `TimersInv` of both. None of the properties is inductive:
  that no timer handle is leaked needs that a hub whose connection is not open yet has no timer, that
  needs that each close of the connection was told to the hub, and that needs which await of a start a close or a stop
  can meet. A `stop()` and a `start()` of the connection may be under way at once (an `onclose` callback starts before the
  stop has returned); `StateInv` says how far each can be, and that the old transport is gone by then.
  The proof has three layers. For each operator of the client a lemma `...Call` says what it does to the two records,
  as a disjunction of short cases (`Completes`, `Stops`, `Closes`, `Processes`...) instead of nested conditions. For each
  action a lemma `...Does` says the same of a step. For each action a lemma `...Safe` proves that it keeps the
  invariant, does not undo a stop and is a step of the session (`Safe`). `_stopConnection` of an open connection
  is treated once (`StopsSafely`), from what every action that reaches it has found (`Closable`). A text
  is a sequence of messages of any length: `DispatchAllCall` goes through it by induction, stated for a set of naturals.
  TLC found `Inv` to hold on the instance of `connection`, also with a first poll answered with 204, before it was proved.
  `ConnectedHasTransportHolds` has the hypothesis that the first poll is answered with 200; section 6 says
  what happens otherwise, and the other theorems hold without it.

Where a fact about all prefixes or all elements is needed, the proofs use that a set of naturals has a least
element instead of an induction scheme, which the installed provers cannot instantiate.

The assumptions on the constants of `SignalRClient`: the server offers transports it has names for and at least one record
arrives at a time (`OffersAssumption`, `ChunksAssumption`), the browser has `fetch` or not, `MAX_REDIRECTS` is positive, and
a page that restarts in `onclose` has no reconnect policy.

Only model-checked is liveness, since the prover does not handle fairness: `EveryDatumWritten`, `CloseEndsParse`,
`EveryClientRemoved`, `StopSettles`, `StartSettles` and `EverySendSettles`. Every other property of a passing run is
stated by a theorem. `ClientExclusive` is proved and in no run.

## 5. Not modelled

* What the fields of an HTTP message say, but for its length and the wish to close; the other readers of HTTP; TLS records,
  certificates, frame schemes: data layouts.
* Sockets, streams, console clients, data base: I/O.
* Of `signalr.js`: loggers, argument checks, URLs, headers, cookies, `AccessTokenHttpClient`, binary
  protocols (the pages use JSON). The copy under ProxyServerWebGUI is the same file.
* `compare_window.js` does not parse (`let` in a class body), `site.js` of DevConsole.Server is comments, and
  `jquery.validate.unobtrusive.js` is a vendored library of form rules without a protocol.
* `TcpServerSocketBased`: an older form of `ServerBase`.
* `RemoveAt`, `ShiftForward`, `ShiftBackward`, `SetByActualIndex` and the enumerator of the ring: not
  yet. Reading them shows deviations from their comments: `RemoveAt` skips the item before the last one
  (line 320) and copies with a negative length when `tail` is 0, `ShiftBackward` takes `last` out of the
  array (line 199), and the enumerator of a full ring visits nothing (`EnumeratorCircled.cs`, line 23).
* `IndexActual`, `IndexOf`, `PeakDouble` and the string conversions of the ring: they read and change nothing.

## 6. Observations

Seen while modelling, besides the three violated runs.

Connections to a domain: `StalledData.Dispose` puts the node into the pool (line 420) before it clears its
fields (422 to 427), and a watchdog calls `RemoveFromChain` whether or not its node is in the chain. When another
session rents and links the node in between, the clearing cuts the chain or, with three connections, links it
into a cycle: `MoveToStalled` then loops under the lock, or two sessions pop the same connection. `misused` marks
the two steps from which such behaviours start, and the theorems say that there is no other.

Pooled connections and clients: `SocketWrap.Dispose` returns the object to the pool (line 130) before it clears its key (134).
A client rented again in between loses its new key: `remove` then throws at `ServerBase.cs`, line 96, the client is never
removed or disposed of and `Run` waits for it for ever; a connection so rented is never taken out of `activeConnections`
(`ConnectionsToDomain.cs`, 209-216), and its session faults or spins. A connection a watchdog killed is rented again
while the session it was killed under still has it.

Server: a client whose task the canceled token never started (`ServerBase.cs`, line 88) stays registered and counted, and `Run`
waits for it for ever.

Parser: section 2 lists what `HttpObject.Push` does with a read that does not end with its message.

Three properties are stated in the modules that TLC finds violated, and are in no run:
`CancelEndsParse` (PipedHttpStream: a cancellation between two awaits is lost, since a wait that starts after the callback
ran queues a source nobody completes, `AsyncAutoResetEvent.cs`, line
77), `FreeListFindable` (ConnectionsToDomain: a pooled node is cleared after its next owner linked it, line 422)
and `HubAliveWhileUsed` (the hub is disposed between lookup and `Use`, `HttpPipedIntermediary.cs`, line 81).

SignalR client:
* `stop()` inside `onreconnecting` leaves the hub in Disconnecting for ever (line 1609); `StopSettles` excepts it.
* A first poll answered with a status other than 200 of the 2xx range ends the loop at once, and `connect()` resolves: the
  connection is Connected without a transport, and `start()` and `stop()` hang (`FirstPoll` is {200} in the runs).
* When the DELETE of long polling fails after an `onclose` callback has started again, `_stopConnection` finds
  Connecting and throws (`stopThrew`).
* `inherentKeepAlive` is never reset, so a reconnection from long polling to WebSockets runs no timers.
* A ping timer that fires while the hub is not Connected is not armed again until the next send.
* With `fetch` neither the timeout nor `abort()` reaches a request whose headers are in.
* `_replaceStreamingParams` skips the neighbour of an observable it cuts out (`Replaced`).
* The answer of a handler that returns after a reconnection goes to the new connection.
* `_invokeClientMethod` copies the list of handlers (line 1494) before it awaits one of them, so `on()` and `off()` meanwhile change
  nothing for that invocation; `OneAnswer` would hold without the copy, too.

Pages:
* A start that fails is not tried again, and nothing catches its rejection.
* "connect-console" sends JSON text that the page does not parse: the button is called "undefined" and
  asks for no console's logs.
* After a reconnection the page inserts every console once more.
* `AddForAll(int)` and `UpdateForAllStatus` send a bare number, in which the page finds no `Id`.
* A second console with a known id throws in `AddConnection` and ends the loop that accepts consoles.
* `ToJsonObject` enumerates the queue of logs while `Run` adds to it, and may throw.

## 7. Plan

1. `AsyncAutoResetEventOf`, the generic event, and `HttpMessaging`, the four tasks of
   `MaintainMessagingV2` over two of them: the end of an exchange is detected, no response is lost,
   `are.Reset()` does not throw.
2. `AsyncCounter` with `Awaiting.WhenAll`.
3. `ObjectPool` as a module of its own, with the other pools; hub and server share one pool of connections then.
4. `HttpObjectStream` and the readers of `MaintainMessagingV2` against the messages of `PipedHttpStream`.
5. `GrpcHubService` with its dictionary of clients; `AsyncSignaler` and the socket nodes of `NodeProxy`; the SOCKS5 handshake; `StreamDemultiplexer`.
6. The rest of the ring: `RemoveAt`, the shifts and the enumerator.

Order: what relays traffic first (1, 3, 4), then helpers (2, 5, 6), each with proofs of what TLC has confirmed.

------------------------- MODULE ConnectionsToDomain -------------------------
(***************************************************************************)
(* The hub of connections to one origin (NetworkPipelines/Tcp/              *)
(* ConnectionsToDomain.cs) and the sessions that use it                     *)
(* (HttpPipedIntermediary.Run).  A session takes a connection from the      *)
(* chain of stalled ones or opens a new one, and returns it afterwards.      *)
(* Each stalled connection has a watchdog that kills it after a timeout.     *)
(*                                                                         *)
(* The chain is the doubly linked list of the code, made of pooled           *)
(* StalledData nodes.  The connections are pooled SocketWrap objects, which  *)
(* Dispose returns to their pool before it has cleared their keys.           *)
(* Only `lock (this)' blocks and single operations of the concurrent         *)
(* collections are atomic.  A reference through null is the                  *)
(* NullReferenceException of the code: the session or the watchdog faults.   *)
(***************************************************************************)
EXTENDS Naturals

CONSTANTS Sessions,       \* concurrent calls of HttpPipedIntermediary.Run
          Clients,        \* connection objects the client pool can give out
          Nodes,          \* StalledData objects
          Null,
          MaxIds,         \* bound on counterForId, the calls of CreateAsync
          MaxStalls,      \* bound on the calls of MoveToStalled
          Timeouts,       \* whether the delay of a watchdog may elapse
          Drops           \* whether connections may fail or be closed by the origin

ASSUME HubAssumption ==
    /\ Null \notin Sessions \cup Clients \cup Nodes
    /\ MaxIds \in Nat /\ MaxStalls \in Nat /\ Timeouts \in BOOLEAN /\ Drops \in BOOLEAN

VARIABLES
    head, next, previous, client, bound,   \* the chain; bound[n]: pool and ctd are set
    pooled,              \* how often a node is in the pool of StalledData
    canceledCts,         \* the nodes whose CancellationTokenSource is canceled
    activeConnections,   \* the dictionary, pairs of an id and a connection
    conn,                \* the field Socket: "none", "up", "down"
    disposed,            \* the connections with isDisposed
    counterForId, made, pool, binding, \* the last id; the connections created, those in the pool, with the field pool set
    Key,                 \* connection.Key
    robbed,              \* history: the connections whose key was cleared by an earlier Dispose
    killing,             \* calls of Kill(c) that wait for StopWriteLoop
    clearing,            \* calls of c.Dispose that returned c to the pool and will clear its key
    checks,              \* whether a Kill is about to CheckDispose: of several calls only
                         \* the last one counts, as one that does not dispose the hub does nothing
    usage, isDisposed,
    pc, held, node,      \* each session, its connection, its StalledData
    found,               \* the connection that TryGet read from the StalledData
    stalls,              \* calls of MoveToStalled
    watchdog,            \* the one that each call of MoveToStalled started
    timedOut,            \* history: the connections that watchdogs have killed
    misused              \* history: a node was rented before its Dispose had cleared it, or
                         \* unlinked while it was not in the chain

chainVars == <<head, next, previous, client, bound, pooled>>
objectVars == <<disposed, counterForId, made, pool, binding>>
keyVars == <<Key, robbed>>
connVars == <<activeConnections, conn, objectVars, keyVars>>
killVars == <<killing, clearing, checks>>
hubVars == <<usage, isDisposed>>
sessionVars == <<pc, held, node, found>>
watchVars == <<stalls, watchdog, timedOut, misused>>
vars == <<chainVars, canceledCts, connVars, killVars, hubVars, sessionVars, watchVars>>

SessionStates == {"idle", "use", "find", "pop", "read", "logger", "revive", "cancel", "add", "dispose", "clear",
                  "create", "connect", "update", "active", "return", "remove", "check", "rent",
                  "link", "faulted"}
WatchStates == {"start", "delay", "unregistered", "elapsed", "dispose", "clear", "kill", "none"}
Watch(stage, n, c) == [stage |-> stage, node |-> n, client |-> c]
NoWatch == Watch("none", Null, Null)   \* not started yet, or ended

Init ==
    /\ head = Null /\ next = [n \in Nodes |-> Null] /\ previous = [n \in Nodes |-> Null]
    /\ client = [n \in Nodes |-> Null] /\ bound = [n \in Nodes |-> FALSE]
    /\ pooled = [n \in Nodes |-> 1]
    /\ canceledCts = {} /\ activeConnections = {} /\ conn = [c \in Clients |-> "none"]
    /\ disposed = Clients /\ counterForId = 0 /\ made = {} /\ pool = {} /\ binding = {}
    /\ Key = [c \in Clients |-> 0] /\ robbed = {}
    /\ killing = [c \in Clients |-> 0] /\ clearing = [c \in Clients |-> 0] /\ checks = FALSE
    /\ usage = 0 /\ isDisposed = FALSE
    /\ pc = [s \in Sessions |-> "idle"]
    /\ held = [s \in Sessions |-> Null] /\ node = [s \in Sessions |-> Null]
    /\ found = [s \in Sessions |-> Null]
    /\ stalls = 0 /\ watchdog = [w \in 1..MaxStalls |-> NoWatch] /\ timedOut = {} /\ misused = FALSE

Goto(s, l) == pc' = [pc EXCEPT ![s] = l]
\* Its StalledData goes out of scope, with what was read from it.
Forget(s) == node' = [node EXCEPT ![s] = Null] /\ found' = [found EXCEPT ![s] = Null]

-----------------------------------------------------------------------------
(* HttpPipedIntermediary.Run: manager.GetOrCreate, Use ... Unuse, Return *)

\* A disposed hub is no longer in the manager: such a session gets another hub.
GetHub(s) ==
    /\ pc[s] = "idle" /\ ~isDisposed
    /\ Goto(s, "use")
    /\ UNCHANGED <<chainVars, canceledCts, connVars, killVars, hubVars, held, node, found, watchVars>>

Use(s) ==
    /\ pc[s] = "use"
    /\ usage' = usage + 1
    /\ Goto(s, "find")
    /\ UNCHANGED <<chainVars, canceledCts, connVars, killVars, isDisposed, held, node, found, watchVars>>

\* The exchange of messages is over.
Unuse(s) ==
    /\ pc[s] = "active"
    /\ usage' = usage - 1
    /\ Goto(s, "return")
    /\ UNCHANGED <<chainVars, canceledCts, connVars, killVars, isDisposed, held, node, found, watchVars>>

\* An exception other than TimeoutException: neither Unuse nor Return is reached.
ExchangeFails(s) ==
    /\ Drops /\ pc[s] = "active"
    /\ Goto(s, "faulted")
    /\ UNCHANGED <<chainVars, canceledCts, connVars, killVars, hubVars, held, node, found, watchVars>>

-----------------------------------------------------------------------------
(* GetOrCreateAsync: TryGet, FindHead, TryReviveOtherwiseKill, CreateAsync *)

\* if (head == null), before the lock
FindHead(s) ==
    /\ pc[s] = "find"
    /\ Goto(s, IF head = Null THEN "create" ELSE "pop")
    /\ UNCHANGED <<chainVars, canceledCts, connVars, killVars, hubVars, held, node, found, watchVars>>

\* Mutant: the head is taken without unlinking it.
PopHeadPeeks(s) ==
    /\ pc[s] = "pop"
    /\ IF head = Null
       THEN Goto(s, "faulted") /\ UNCHANGED node
       ELSE node' = [node EXCEPT ![s] = head] /\ Goto(s, "read")
    /\ UNCHANGED <<chainVars, canceledCts, connVars, killVars, hubVars, held, found, watchVars>>

\* lock (this): head may have become null meanwhile.
PopHead(s) ==
    /\ pc[s] = "pop"
    /\ IF head = Null
       THEN Goto(s, "faulted") /\ UNCHANGED <<chainVars, node>>
       ELSE /\ node' = [node EXCEPT ![s] = head]
            /\ head' = next[head]
            /\ previous' = IF next[head] = Null THEN previous
                           ELSE [previous EXCEPT ![next[head]] = Null]
            /\ Goto(s, "read")
            /\ UNCHANGED <<next, client, bound, pooled>>
    /\ UNCHANGED <<canceledCts, connVars, killVars, hubVars, held, found, watchVars>>

\* client = data.client, which TryGet will return
ReadClient(s) ==
    /\ pc[s] = "read"
    /\ found' = [found EXCEPT ![s] = client[node[s]]]
    /\ Goto(s, "logger")
    /\ UNCHANGED <<chainVars, canceledCts, connVars, killVars, hubVars, held, node, watchVars>>

\* TryReviveOtherwiseKill: stalledData.client.Logger
ReadLogger(s) ==
    /\ pc[s] = "logger"
    /\ IF client[node[s]] = Null THEN Goto(s, "faulted") /\ Forget(s)
                                  ELSE Goto(s, "revive") /\ UNCHANGED <<node, found>>
    /\ UNCHANGED <<chainVars, canceledCts, connVars, killVars, hubVars, held, watchVars>>

\* Kill(c) up to its first await.  Once the hub is disposed monitor is null: the task of
\* Kill faults at once.  Only Return awaits it, as its last step.
Kill(c) == killing' = IF isDisposed THEN killing ELSE [killing EXCEPT ![c] = @ + 1]

\* CheckConnect throws on a disposed connection and on one without a Socket, and answers
\* Socket.Connected; the origin may have closed the connection in the meantime.
CheckThrows(c) == c \in disposed \/ conn[c] = "none"
FoundUp(c) == ~CheckThrows(c) /\ conn[c] = "up" /\ UNCHANGED conn
FoundDown(c) ==
    /\ ~CheckThrows(c) /\ (conn[c] = "down" \/ Drops)
    /\ conn' = [conn EXCEPT ![c] = "down"]

\* Mutant: a killed connection is handed out (TryReviveOtherwiseKill answers true).
CheckConnectKeeps(s) ==
    LET c == client[node[s]]
    IN  /\ pc[s] = "revive" /\ c # Null
        /\ held' = [held EXCEPT ![s] = c] /\ Goto(s, "cancel")
        /\ \/ FoundUp(c) /\ UNCHANGED killing
           \/ FoundDown(c) /\ Kill(c)
        /\ UNCHANGED <<chainVars, canceledCts, activeConnections, objectVars, keyVars, clearing,
                       checks, hubVars, node, found, watchVars>>

\* client = stalledData.client, another read; a closed connection is killed and the search
\* goes on.  Its node is not disposed and its watchdog is not stopped.
CheckConnect(s) ==
    LET c == client[node[s]]
    IN  /\ pc[s] = "revive"
        /\ \/ /\ c = Null \/ (c # Null /\ CheckThrows(c))
              /\ Goto(s, "faulted") /\ Forget(s) /\ UNCHANGED <<held, killing, conn>>
           \/ /\ c # Null /\ FoundUp(c)
              /\ Goto(s, "cancel") /\ held' = [held EXCEPT ![s] = c]
              /\ UNCHANGED <<node, found, killing>>
           \/ /\ c # Null /\ FoundDown(c)
              /\ Kill(c) /\ Goto(s, "find") /\ Forget(s) /\ UNCHANGED held
        /\ UNCHANGED <<chainVars, canceledCts, activeConnections, objectVars, keyVars, clearing,
                       checks, hubVars, watchVars>>

\* TaskCanceledException: the watchdogs that wait on the source of n end.
WatchdogCanceled(n) ==
    watchdog' = [w \in 1..MaxStalls |->
                    IF watchdog[w].stage = "delay" /\ watchdog[w].node = n THEN NoWatch ELSE watchdog[w]]

\* stalledData.cts.Cancel()
CancelWatchdog(s) ==
    /\ pc[s] = "cancel"
    /\ canceledCts' = canceledCts \cup {node[s]}
    /\ WatchdogCanceled(node[s])
    /\ Goto(s, "add")
    /\ UNCHANGED <<chainVars, connVars, killVars, hubVars, held, node, found, stalls, timedOut, misused>>

\* activeConnections.ContainsKey
ContainsKey(id) == \E c \in Clients : <<id, c>> \in activeConnections

\* activeConnections.TryAdd; it fails if the key, which may be cleared, is there already.
AddRevived(s) ==
    /\ pc[s] = "add"
    /\ IF ContainsKey(Key[held[s]])
       THEN Goto(s, "faulted") /\ Forget(s) /\ UNCHANGED activeConnections
       ELSE /\ activeConnections' = activeConnections \cup {<<Key[held[s]], held[s]>>}
            /\ Goto(s, "dispose") /\ UNCHANGED <<node, found>>
    /\ UNCHANGED <<chainVars, canceledCts, conn, objectVars, keyVars, killVars, hubVars, held, watchVars>>

\* StalledData.Dispose: the node goes back to the pool first ...
PoolNode(n) == pooled' = [pooled EXCEPT ![n] = @ + 1]
\* ... and its fields are cleared afterwards.
ClearNode(n) ==
    /\ bound' = [bound EXCEPT ![n] = FALSE] /\ client' = [client EXCEPT ![n] = Null]
    /\ next' = [next EXCEPT ![n] = Null] /\ previous' = [previous EXCEPT ![n] = Null]

DisposeNode(s) ==
    /\ pc[s] = "dispose"
    /\ IF bound[node[s]] THEN PoolNode(node[s]) /\ Goto(s, "clear") /\ UNCHANGED <<node, found>>
                         ELSE Goto(s, "faulted") /\ Forget(s) /\ UNCHANGED pooled
    /\ UNCHANGED <<head, next, previous, client, bound, canceledCts, connVars, killVars, hubVars,
                   held, watchVars>>
\* TryGet returns the connection it read first.
ClearFields(s) ==
    /\ pc[s] = "clear"
    /\ ClearNode(node[s])
    /\ held' = [held EXCEPT ![s] = found[s]] /\ Forget(s)
    /\ Goto(s, IF found[s] = Null THEN "faulted" ELSE "update")
    /\ UNCHANGED <<head, pooled, canceledCts, connVars, killVars, hubVars, watchVars>>

\* pool.Rent: a connection of the pool, or a new one when the pool is empty.
Rent(c) == IF pool = {} THEN c \notin made ELSE c \in pool

\* CreateAsync rents a connection, binds it to the pool, initializes it (which throws unless
\* it is disposed), gives it the next id and adds it to activeConnections before it connects.
Create(s) ==
    /\ pc[s] = "create" /\ counterForId < MaxIds
    /\ counterForId' = counterForId + 1
    /\ \E c \in Clients :
         /\ Rent(c)
         /\ made' = made \cup {c} /\ pool' = pool \ {c} /\ binding' = binding \cup {c}
         /\ IF c \notin disposed
            THEN Goto(s, "faulted") /\ UNCHANGED <<disposed, keyVars, activeConnections, held>>
            ELSE /\ disposed' = disposed \ {c}
                 /\ Key' = [Key EXCEPT ![c] = counterForId'] /\ robbed' = robbed \ {c}
                 /\ activeConnections' = activeConnections \cup {<<counterForId', c>>}
                 /\ held' = [held EXCEPT ![s] = c]
                 /\ Goto(s, "connect")
    /\ UNCHANGED <<chainVars, canceledCts, conn, killVars, hubVars, node, found, watchVars>>
Connect(s) ==
    /\ pc[s] = "connect"
    /\ conn' = [conn EXCEPT ![held[s]] = "up"]
    /\ Goto(s, "update")
    /\ UNCHANGED <<chainVars, canceledCts, activeConnections, objectVars, keyVars, killVars, hubVars,
                   held, node, found, watchVars>>

\* SocketWrap.Dispose up to pool.Return: it throws if c is disposed already and, when it has
\* set isDisposed, if c has no Socket, which is never returned then.
DisposeSocket(c) ==
    /\ disposed' = disposed \cup {c}
    /\ conn' = [conn EXCEPT ![c] = IF c \in disposed THEN @ ELSE "none"]
    /\ IF CheckThrows(c)
       THEN UNCHANGED <<pool, clearing>>
       ELSE /\ pool' = IF c \in binding THEN pool \cup {c} ELSE pool
            /\ clearing' = [clearing EXCEPT ![c] = @ + 1]

\* while (!activeConnections.TryRemove(...)): an entry that is not there is waited for.
TryRemove(c) ==
    /\ <<Key[c], c>> \in activeConnections
    /\ activeConnections' = activeConnections \ {<<Key[c], c>>}

\* Mutant: the connection that could not be opened stays in activeConnections.
ConnectFailsKeeps(s) ==
    /\ Drops /\ pc[s] = "connect"
    /\ DisposeSocket(held[s])
    /\ held' = [held EXCEPT ![s] = Null]
    /\ Goto(s, "faulted")
    /\ UNCHANGED <<chainVars, canceledCts, activeConnections, counterForId, made, binding, keyVars, killing, checks,
                   hubVars, node, found, watchVars>>
\* SocketException: the connection is removed and disposed, the session ends.
ConnectFails(s) ==
    /\ Drops /\ pc[s] = "connect"
    /\ TryRemove(held[s])
    /\ DisposeSocket(held[s])
    /\ held' = [held EXCEPT ![s] = Null]
    /\ Goto(s, "faulted")
    /\ UNCHANGED <<chainVars, canceledCts, counterForId, made, binding, keyVars, killing, checks,
                   hubVars, node, found, watchVars>>

\* monitor.OnAdd / monitor.OnUpdate; Dispose cleared the field monitor.
UpdateMonitor(s) ==
    /\ pc[s] = "update"
    /\ Goto(s, IF isDisposed THEN "faulted" ELSE "active")
    /\ UNCHANGED <<chainVars, canceledCts, connVars, killVars, hubVars, held, node, found, watchVars>>

-----------------------------------------------------------------------------
(* Return, MoveToStalled *)

\* "Multiple return detected?" if the key, which may be cleared, is not in the dictionary
ReturnActive(s) ==
    /\ pc[s] = "return"
    /\ Goto(s, IF ContainsKey(Key[held[s]]) THEN "remove" ELSE "faulted")
    /\ UNCHANGED <<chainVars, canceledCts, connVars, killVars, hubVars, held, node, found, watchVars>>
RemoveActive(s) ==
    /\ pc[s] = "remove"
    /\ TryRemove(held[s])
    /\ Goto(s, "check")
    /\ UNCHANGED <<chainVars, canceledCts, conn, objectVars, keyVars, killVars, hubVars, held, node,
                   found, watchVars>>

\* client.CheckConnect(): stall the connection or kill it.  A session that only awaits Kill
\* counts as over.
CheckReturned(s) ==
    /\ pc[s] = "check"
    /\ \/ FoundDown(held[s]) /\ Kill(held[s]) /\ Goto(s, "idle") /\ held' = [held EXCEPT ![s] = Null]
       \/ FoundUp(held[s]) /\ Goto(s, "rent") /\ UNCHANGED <<held, killing>>
       \/ CheckThrows(held[s]) /\ Goto(s, "faulted") /\ UNCHANGED <<held, killing, conn>>
    /\ UNCHANGED <<chainVars, canceledCts, activeConnections, objectVars, keyVars, clearing, checks,
                   hubVars, node, found, watchVars>>

\* cts.TryReset(): a source that was not canceled is kept and forgets who waits on it, so
\* that a later Cancel does not reach them.
TryReset(n) ==
    [w \in 1..MaxStalls |->
        IF n \notin canceledCts /\ watchdog[w].node = n /\ watchdog[w].stage = "delay"
        THEN [watchdog[w] EXCEPT !.stage = "unregistered"] ELSE watchdog[w]]

\* StalledData.Get: rent a node, reset or replace its source, bind the node to the hub.
Get(n) ==
    /\ pooled[n] > 0
    /\ pooled' = [pooled EXCEPT ![n] = @ - 1]
    /\ canceledCts' = canceledCts \ {n}
    /\ bound' = [bound EXCEPT ![n] = TRUE]

\* A session or a watchdog is in the middle of StalledData.Dispose.
Disposing(n) ==
    \/ \E s \in Sessions : pc[s] = "clear" /\ node[s] = n
    \/ \E w \in 1..MaxStalls : watchdog[w].stage = "clear" /\ watchdog[w].node = n

\* MoveToStalled: a node is rented and its watchdog is started.
RentNode(s) ==
    /\ pc[s] = "rent" /\ stalls < MaxStalls
    /\ stalls' = stalls + 1
    /\ \E n \in Nodes :
         /\ Get(n)
         /\ node' = [node EXCEPT ![s] = n]
         /\ watchdog' = [TryReset(n) EXCEPT ![stalls'] = Watch("start", n, held[s])]
         /\ misused' = (misused \/ Disposing(n))
    /\ Goto(s, "link")
    /\ UNCHANGED <<head, next, previous, client, connVars, killVars, hubVars, held, found, timedOut>>

\* The nodes reachable from head: the smallest set with head that is closed under next.
Chain ==
    {n \in Nodes : \A S \in SUBSET Nodes :
        head \in S \cup {Null} /\ (\A m \in S : next[m] \in S \cup {Null}) => n \in S}
LastNode == CHOOSE n \in Chain : next[n] = Null

\* stallData.Init and, under lock (this), the append at the end of the chain.
Link(s) ==
    LET n == node[s]
    IN  /\ pc[s] = "link" /\ (head = Null \/ \E m \in Chain : next[m] = Null)
        /\ client' = [client EXCEPT ![n] = held[s]]
        /\ IF head = Null
           THEN head' = n /\ UNCHANGED <<next, previous>>
           ELSE /\ next' = [next EXCEPT ![LastNode] = n]
                /\ previous' = [previous EXCEPT ![n] = LastNode]
                /\ UNCHANGED head
        /\ held' = [held EXCEPT ![s] = Null] /\ Forget(s)
        /\ Goto(s, "idle")
        /\ UNCHANGED <<bound, pooled, canceledCts, connVars, killVars, hubVars, watchVars>>

-----------------------------------------------------------------------------
(* The watchdog of a stalled connection *)

WatchGoto(w, l) == watchdog' = [watchdog EXCEPT ![w].stage = l]
\* The task returns, or ends with an exception that nobody awaits.
WatchEnds(w) == watchdog' = [watchdog EXCEPT ![w] = NoWatch]

\* The task reads stallData.cts only when it runs; a canceled one ends it at once.
StartWatchdog(w) ==
    /\ watchdog[w].stage = "start"
    /\ IF watchdog[w].node \in canceledCts THEN WatchEnds(w) ELSE WatchGoto(w, "delay")
    /\ UNCHANGED <<chainVars, canceledCts, connVars, killVars, hubVars, sessionVars, stalls, timedOut, misused>>

Elapse(w) ==
    /\ Timeouts
    /\ watchdog[w].stage \in {"delay", "unregistered"}
    /\ WatchGoto(w, "elapsed")
    /\ UNCHANGED <<chainVars, canceledCts, connVars, killVars, hubVars, sessionVars, stalls, timedOut, misused>>

\* client, ctd and, inside the chain, previous are dereferenced.
RemoveFaults(n) == client[n] = Null \/ ~bound[n] \/ (n # head /\ previous[n] = Null)

\* Mutant: the previous node is linked to itself instead of to the next one.
RemoveFromChainSwaps(w) ==
    LET n == watchdog[w].node
    IN  /\ watchdog[w].stage = "elapsed"
        /\ IF RemoveFaults(n) THEN WatchEnds(w) ELSE WatchGoto(w, "dispose")
        /\ IF RemoveFaults(n) THEN UNCHANGED <<head, next>>
           ELSE IF n = head THEN head' = next[n] /\ UNCHANGED next
           ELSE next' = [next EXCEPT ![previous[n]] = previous[n]] /\ UNCHANGED head
        /\ UNCHANGED <<previous, client, bound, pooled, canceledCts, connVars, killVars, hubVars,
                       sessionVars, stalls, timedOut, misused>>

\* Under lock (ctd): the node is unlinked.
RemoveFromChain(w) ==
    LET n == watchdog[w].node
        faults == RemoveFaults(n)
    IN  /\ watchdog[w].stage = "elapsed"
        /\ IF faults THEN WatchEnds(w) ELSE WatchGoto(w, "dispose")
        /\ IF faults THEN UNCHANGED <<head, next, previous>>
           ELSE IF n = head THEN head' = next[n] /\ UNCHANGED <<next, previous>>
           ELSE /\ next' = [next EXCEPT ![previous[n]] = next[n]]
                /\ previous' = IF next[n] = Null THEN previous
                               ELSE [previous EXCEPT ![next[n]] = previous[n]]
                /\ UNCHANGED head
        /\ misused' = (misused \/ (~faults /\ n \notin Chain))
        /\ UNCHANGED <<client, bound, pooled, canceledCts, connVars, killVars, hubVars, sessionVars, stalls, timedOut>>

WatchdogDispose(w) ==
    LET n == watchdog[w].node
    IN  \/ /\ watchdog[w].stage = "dispose"
           /\ IF bound[n] THEN PoolNode(n) /\ WatchGoto(w, "clear")
                          ELSE WatchEnds(w) /\ UNCHANGED pooled
           /\ UNCHANGED <<head, next, previous, client, bound, canceledCts, connVars, killVars,
                          hubVars, sessionVars, stalls, timedOut, misused>>
        \/ /\ watchdog[w].stage = "clear"
           /\ ClearNode(n) /\ WatchGoto(w, "kill")
           /\ UNCHANGED <<head, pooled, canceledCts, connVars, killVars, hubVars, sessionVars, stalls, timedOut, misused>>

\* Kill(client), the connection the watchdog was started for
WatchdogKill(w) ==
    /\ watchdog[w].stage = "kill"
    /\ Kill(watchdog[w].client)
    /\ WatchEnds(w)
    /\ timedOut' = timedOut \cup {watchdog[w].client}
    /\ UNCHANGED <<chainVars, canceledCts, connVars, clearing, checks, hubVars, sessionVars, stalls, misused>>

-----------------------------------------------------------------------------
(* Kill after monitor.OnRemove; CheckDispose *)

\* client.Dispose(); an exception ends Kill before CheckDispose.
DisposeClient(c) ==
    /\ killing[c] > 0
    /\ killing' = [killing EXCEPT ![c] = @ - 1]
    /\ DisposeSocket(c)
    /\ UNCHANGED <<chainVars, canceledCts, activeConnections, counterForId, made, binding, keyVars, checks, hubVars,
                   sessionVars, watchVars>>

\* The rest of Dispose clears the fields pool and Key, whoever has the connection by now: the
\* new owner may have bound it between the two.
ClearKey(c) ==
    /\ clearing[c] > 0
    /\ clearing' = [clearing EXCEPT ![c] = @ - 1]
    /\ Key' = [Key EXCEPT ![c] = 0]
    /\ robbed' = IF c \in disposed THEN robbed ELSE robbed \cup {c}
    /\ \/ binding' = binding \ {c}
       \/ c \notin disposed /\ UNCHANGED binding
    /\ checks' = TRUE
    /\ UNCHANGED <<chainVars, canceledCts, activeConnections, conn, disposed, counterForId, made, pool, killing,
                   hubVars, sessionVars, watchVars>>

\* The manager forgets the hub and disposes it; a second Dispose throws.
ReturnToManager == isDisposed' = TRUE

CheckDispose ==
    /\ checks /\ checks' = FALSE
    /\ IF head = Null /\ activeConnections = {} /\ usage = 0 THEN ReturnToManager
                                                            ELSE UNCHANGED isDisposed
    /\ UNCHANGED <<chainVars, canceledCts, connVars, killing, clearing, usage, sessionVars, watchVars>>

SessionStep(s) ==
    \/ GetHub(s) \/ Use(s) \/ Unuse(s) \/ ExchangeFails(s) \/ FindHead(s) \/ PopHead(s) \/ ReadClient(s)
    \/ ReadLogger(s) \/ CheckConnect(s)
    \/ CancelWatchdog(s) \/ AddRevived(s) \/ DisposeNode(s) \/ ClearFields(s) \/ Create(s)
    \/ Connect(s) \/ ConnectFails(s) \/ UpdateMonitor(s) \/ ReturnActive(s) \/ RemoveActive(s)
    \/ CheckReturned(s)
    \/ RentNode(s) \/ Link(s)
WatchdogStep(w) ==
    \/ StartWatchdog(w) \/ Elapse(w) \/ RemoveFromChain(w)
    \/ WatchdogDispose(w) \/ WatchdogKill(w)
Next ==
    \/ \E s \in Sessions : SessionStep(s)
    \/ \E w \in 1..MaxStalls : WatchdogStep(w)
    \/ \E c \in Clients : DisposeClient(c) \/ ClearKey(c)
    \/ CheckDispose

Spec == Init /\ [][Next]_vars

-----------------------------------------------------------------------------
(* Properties *)

\* The chain, the connections, the counters and the sessions have the types of their fields.
TypeOK ==
    /\ head \in Nodes \cup {Null}
    /\ next \in [Nodes -> Nodes \cup {Null}] /\ previous \in [Nodes -> Nodes \cup {Null}]
    /\ client \in [Nodes -> Clients \cup {Null}] /\ bound \in [Nodes -> BOOLEAN]
    /\ pooled \in [Nodes -> Nat] /\ canceledCts \subseteq Nodes
    /\ counterForId \in 0..MaxIds /\ activeConnections \subseteq (0..MaxIds) \X Clients
    /\ conn \in [Clients -> {"none", "up", "down"}]
    /\ disposed \subseteq Clients /\ made \subseteq Clients /\ pool \subseteq Clients
    /\ binding \subseteq Clients /\ robbed \subseteq Clients
    /\ Key \in [Clients -> 0..MaxIds]
    /\ killing \in [Clients -> Nat] /\ clearing \in [Clients -> Nat] /\ checks \in BOOLEAN
    /\ usage \in Nat /\ isDisposed \in BOOLEAN
    /\ pc \in [Sessions -> SessionStates]
    /\ held \in [Sessions -> Clients \cup {Null}] /\ node \in [Sessions -> Nodes \cup {Null}]
    /\ found \in [Sessions -> Clients \cup {Null}]
    /\ stalls \in 0..MaxStalls /\ DOMAIN watchdog = 1..MaxStalls
    /\ timedOut \subseteq Clients /\ misused \in BOOLEAN
    /\ \A w \in 1..MaxStalls :
          /\ watchdog[w].stage \in WatchStates
          /\ watchdog[w].node \in Nodes \cup {Null} /\ watchdog[w].client \in Clients \cup {Null}

\* A connection object is used by one session at a time, although it goes back to its pool
\* while its Dispose still runs and is rented again.  There are two exceptions: an object that
\* a watchdog killed may be rented again while the session it was killed under still has it
\* (see HeldNotKilled); and a node of the chain that was misused (it is pooled before its
\* fields are cleared, and a watchdog unlinks it whether or not it is in the chain) can be in
\* the chain twice, so that two sessions pop it.
ExclusiveUse ==
    ~misused => \A s, t \in Sessions :
        s # t /\ held[s] # Null /\ held[s] \notin timedOut => held[s] # held[t]

Killed(c) == c \in disposed \/ killing[c] > 0

\* The connection a session was given is not closed under it by this proxy.
HeldNotKilled == \A s \in Sessions : held[s] # Null => ~Killed(held[s])

\* If it is closed under the session, then by its watchdog, whose delay elapsed: neither
\* another session nor the session itself kills a connection that is in use.
KilledOnlyByTimeout ==
    ~misused => \A s \in Sessions :
        held[s] # Null /\ Killed(held[s]) => held[s] \in timedOut

\* The states between the entry into activeConnections and the removal from it
Owns(s, c) ==
    /\ held[s] = c
    /\ pc[s] \in {"dispose", "clear", "connect", "update", "active", "return", "remove", "faulted"}
\* Every active connection has a session that will return it (or that faulted with it), and
\* the entry has the key under which Return will look it up, unless an earlier Dispose of the
\* same object has cleared that key (robbed): then Return throws or waits for ever, and the
\* entry stays.  Connections that watchdogs have killed are excepted, as in ExclusiveUse.
ActiveIsHeld ==
    ~misused => \A c \in Clients \ timedOut :
        /\ \A k \in 0..MaxIds : <<k, c>> \in activeConnections => \E s \in Sessions : Owns(s, c)
        /\ \A s \in Sessions :
              Owns(s, c) /\ pc[s] # "faulted" /\ c \notin robbed => <<Key[c], c>> \in activeConnections

\* The loop of MoveToStalled that looks for the end of the chain ends, unless a node was misused.
ChainEnds == ~misused /\ head # Null => \E n \in Chain : next[n] = Null

\* A connection that is up, not about to be killed, and returned by its session (no session
\* is still stalling or reviving it, no watchdog is taking it out) is in the free list, where
\* the next session finds it: otherwise it stays open until its watchdog, if that survives.
FreeListFindable ==
    \A c \in Clients :
       (/\ conn[c] = "up" /\ ~Killed(c)
        /\ \A s \in Sessions : held[s] # c /\ (node[s] # Null => client[node[s]] # c)
        /\ \A w \in 1..MaxStalls : watchdog[w].client = c => watchdog[w].stage \notin {"dispose", "clear", "kill"})
       => \E n \in Chain : client[n] = c

\* Between Use and Unuse the hub is not disposed: that is what the counter usage is for.
HubAliveWhileUsed ==
    \A s \in Sessions :
        pc[s] \in {"find", "pop", "read", "logger", "revive", "update", "active"} => ~isDisposed
=============================================================================

----------------------------- MODULE ServerBase -----------------------------
(***************************************************************************)
(* The accept loop of the proxy's servers (Izhg.Lib.Networking/Servers/     *)
(* ServerBase.cs): each accepted connection gets a client object of a pool   *)
(* and a task that registers the client, runs its handler in a second task   *)
(* and removes it in a third.  Run ends when the token is canceled and the   *)
(* counter of clients is back at 0.                                          *)
(*                                                                         *)
(* SocketWrap.Dispose returns the client to the pool before it clears the    *)
(* field Key, so that the client may already serve another connection.       *)
(***************************************************************************)
EXTENDS AsyncAutoResetCounter

CONSTANTS Connections,      \* the connections that are accepted, each with its tasks
          Clients,          \* the client objects, one for each connection if none is reused
          NoClient,
          HandlerFails,     \* whether a handler may throw
          Stops             \* whether Stop may be called

ASSUME ServerAssumption ==
    /\ Callers = Connections /\ Wanted = 0 /\ IsFiniteSet(Connections)
    /\ NoClient \notin Clients
    /\ HandlerFails \in BOOLEAN /\ Stops \in BOOLEAN

VARIABLES canceled,       \* token.IsCancellationRequested
          runPc,          \* Run
          lastKey,        \* the field `counter' of the server
          made,           \* the clients that have been created
          pool,           \* the pool of clients
          alive,          \* the clients with ~isDisposed
          bound,          \* the clients whose field `pool' is set
          Key,            \* client.Key; 0 when it is cleared
          clients,        \* the dictionaries `clients', pairs of a key and a client,
          tasks,          \* and `tasks', only its keys
          taskPc,         \* the tasks of each connection, with
          client,         \* its client
          key,            \* and the local variable `key'
          robbed          \* history: the connections whose client lost its key to the disposal
                          \* that an earlier connection had not finished

poolVars == <<made, pool, alive, bound>>
dictVars == <<lastKey, clients, tasks, key>>
clientVars == <<Key, robbed>>
serverFields == <<canceled, runPc, poolVars, dictVars, clientVars, client>>
serverVars == <<counterVars, serverFields, taskPc>>

ClientStates == {"outside", "accepted", "increment", "register", "starting", "handling", "thrown",
                 "removeClient", "removeTask", "dispose", "unbind", "clear", "decrement", "gone",
                 "faulted"}

ServerInit ==
    /\ CounterInit
    /\ canceled = FALSE /\ runPc = "loop" /\ lastKey = 0
    /\ made = {} /\ pool = {} /\ alive = {} /\ bound = {}
    /\ Key = [o \in Clients |-> 0] /\ clients = {} /\ tasks = {}
    /\ taskPc = [c \in Connections |-> "outside"]
    /\ client = [c \in Connections |-> NoClient] /\ key = [c \in Connections |-> 0]
    /\ robbed = {}

TaskGoto(c, l) == taskPc' = [taskPc EXCEPT ![c] = l]

-----------------------------------------------------------------------------
(* Run and Stop *)

\* The loop condition; listener.AcceptClientAsync() is called without the token.
Loop ==
    /\ runPc = "loop"
    /\ IF canceled THEN runPc' = "await" /\ awaitPc' = "check"
                   ELSE runPc' = "accept" /\ UNCHANGED awaitPc
    /\ UNCHANGED <<counter, value, tcs, completed, callPc, seen, awaited, canceled, poolVars,
                   dictVars, clientVars, client, taskPc>>

\* Rent takes a client from the pool, or creates one when the pool is empty.
Rent(o) == IF pool = {} THEN o \notin made ELSE o \in pool

\* A connection is accepted: a client is rented, initialized (which throws unless it is
\* disposed) and bound to the pool; the task is started and not awaited.
Accept(c) ==
    /\ runPc = "accept" /\ taskPc[c] = "outside"
    /\ \E o \in Clients :
         /\ Rent(o)
         /\ made' = made \cup {o} /\ pool' = pool \ {o}
         /\ IF o \in alive
            THEN runPc' = "faulted" /\ UNCHANGED <<alive, bound, client, taskPc>>
            ELSE /\ alive' = alive \cup {o} /\ bound' = bound \cup {o}
                 /\ client' = [client EXCEPT ![c] = o]
                 /\ runPc' = "loop" /\ TaskGoto(c, "accepted")
    /\ UNCHANGED <<counterVars, canceled, dictVars, clientVars>>

\* await asyncCounter.Await(0)
AwaitCounter == Await /\ UNCHANGED <<serverFields, taskPc>>

Stop ==
    /\ Stops /\ ~canceled
    /\ canceled' = TRUE
    /\ UNCHANGED <<counterVars, runPc, poolVars, dictVars, clientVars, client, taskPc>>

-----------------------------------------------------------------------------
(* AcceptClientAsync of a connection and its tasks `run' and `remove' *)

\* asyncCounter.Increment(), started and completed
CountIn(c) ==
    \/ taskPc[c] = "accepted" /\ Increment(c) /\ TaskGoto(c, "increment") /\ UNCHANGED serverFields
    \/ /\ taskPc[c] = "increment" /\ callPc[c] \in {"idle", "thrown"}
       /\ TaskGoto(c, IF callPc[c] = "idle" THEN "register" ELSE "faulted")
       /\ UNCHANGED <<counterVars, serverFields>>

\* The key is drawn with Interlocked.Increment; clients.TryAdd.
Register(c) ==
    LET k == lastKey + 1
    IN  /\ taskPc[c] = "register"
        /\ lastKey' = k /\ key' = [key EXCEPT ![c] = k]
        /\ Key' = [Key EXCEPT ![client[c]] = k]
        /\ IF \E o \in Clients : <<k, o>> \in clients
           THEN TaskGoto(c, "faulted") /\ UNCHANGED clients
           ELSE TaskGoto(c, "starting") /\ clients' = clients \cup {<<k, client[c]>>}
        /\ UNCHANGED <<counterVars, canceled, runPc, poolVars, tasks, client, robbed>>

\* Mutant: the task is not entered into the dictionary.
HandleClientUnlisted(c) ==
    /\ taskPc[c] = "starting" /\ ~canceled
    /\ TaskGoto(c, "handling")
    /\ UNCHANGED <<counterVars, serverFields>>

\* The task `run': the handler is called and its task entered.
HandleClient(c) ==
    /\ taskPc[c] = "starting" /\ ~canceled
    /\ tasks' = tasks \cup {key[c]}
    /\ TaskGoto(c, IF key[c] \in tasks THEN "faulted" ELSE "handling")
    /\ UNCHANGED <<counterVars, canceled, runPc, poolVars, lastKey, clients, key, clientVars, client>>

\* A token that is canceled before `run' starts cancels it: `await run' throws in
\* `remove', and the client stays registered and counted.
RunCanceled(c) ==
    /\ taskPc[c] = "starting" /\ canceled
    /\ TaskGoto(c, "faulted")
    /\ UNCHANGED <<counterVars, serverFields>>

\* The handler ignores the token: it ends by itself, or throws out of `await run'.
HandlerEnds(c) ==
    /\ taskPc[c] = "handling"
    /\ \/ TaskGoto(c, "removeClient")
       \/ HandlerFails /\ TaskGoto(c, "thrown")
    /\ UNCHANGED <<counterVars, serverFields>>

\* `remove': clients.TryRemove(item.Key, out item) reads the field of the client, which is
\* replaced by the one that was found; an entry that is missing throws.
RemoveClient(c) ==
    LET k == Key[client[c]]
    IN  /\ taskPc[c] = "removeClient"
        /\ \/ \E o \in Clients :
                 /\ <<k, o>> \in clients
                 /\ clients' = clients \ {<<k, o>>}
                 /\ client' = [client EXCEPT ![c] = o]
                 /\ TaskGoto(c, "removeTask")
           \/ /\ \A o \in Clients : <<k, o>> \notin clients
              /\ TaskGoto(c, "faulted")
              /\ UNCHANGED <<clients, client>>
        /\ UNCHANGED <<counterVars, canceled, runPc, poolVars, lastKey, tasks, key, clientVars>>
\* tasks.TryRemove(key, out run), with the local variable
RemoveTask(c) ==
    /\ taskPc[c] = "removeTask"
    /\ tasks' = tasks \ {key[c]}
    /\ TaskGoto(c, IF key[c] \in tasks THEN "dispose" ELSE "faulted")
    /\ UNCHANGED <<counterVars, canceled, runPc, poolVars, lastKey, clients, key, clientVars, client>>

\* item.Dispose(): the client, unless it is disposed already, goes back to the pool ...
Dispose(c) ==
    LET o == client[c]
    IN  /\ taskPc[c] = "dispose"
        /\ TaskGoto(c, IF o \in alive THEN "unbind" ELSE "faulted")
        /\ alive' = alive \ {o}
        /\ pool' = IF o \in alive \cap bound THEN pool \cup {o} ELSE pool
        /\ UNCHANGED <<counterVars, canceled, runPc, made, bound, dictVars, clientVars, client>>

\* ... and only then are its fields pool and Key cleared, whoever has it now.
Unbind(c) ==
    /\ taskPc[c] = "unbind"
    /\ bound' = bound \ {client[c]}
    /\ TaskGoto(c, "clear")
    /\ UNCHANGED <<counterVars, canceled, runPc, made, pool, alive, dictVars, clientVars, client>>

\* Mutant: the client is not counted out.
ClearKeyOnly(c) ==
    /\ taskPc[c] = "clear"
    /\ Key' = [Key EXCEPT ![client[c]] = 0]
    /\ robbed' = robbed \cup {d \in Connections \ {c} : client[d] = client[c] /\ key[d] # 0}
    /\ TaskGoto(c, "gone")
    /\ UNCHANGED <<counterVars, canceled, runPc, poolVars, dictVars, client>>

ClearKey(c) ==
    /\ taskPc[c] = "clear"
    /\ Key' = [Key EXCEPT ![client[c]] = 0]
    /\ robbed' = robbed \cup {d \in Connections \ {c} : client[d] = client[c] /\ key[d] # 0}
    /\ TaskGoto(c, "decrement")
    /\ UNCHANGED <<counterVars, canceled, runPc, poolVars, dictVars, client>>

\* asyncCounter.Decrement()
CountOut(c) ==
    /\ taskPc[c] = "decrement"
    /\ Decrement(c) /\ TaskGoto(c, "gone")
    /\ UNCHANGED serverFields

CounterCall(c) == CallStep(c) /\ UNCHANGED <<serverFields, taskPc>>

ClientStep(c) ==
    \/ CountIn(c) \/ Register(c) \/ HandleClient(c) \/ RunCanceled(c) \/ HandlerEnds(c)
    \/ RemoveClient(c) \/ RemoveTask(c) \/ Dispose(c) \/ Unbind(c) \/ ClearKey(c) \/ CountOut(c)
    \/ CounterCall(c)
ServerNext ==
    \/ Loop \/ AwaitCounter \/ Stop
    \/ \E c \in Connections : Accept(c) \/ ClientStep(c)

\* The thread pool runs the loop and every task that can run; handlers end.
Fairness ==
    /\ WF_serverVars(Loop) /\ WF_serverVars(AwaitCounter)
    /\ \A c \in Connections : WF_serverVars(ClientStep(c))
ServerSpec == ServerInit /\ [][ServerNext]_serverVars /\ Fairness

-----------------------------------------------------------------------------
(* Properties *)

\* The counter, the pool, the dictionaries and the tasks have the types of their fields.
ServerTypeOK ==
    /\ CounterTypeOK
    /\ canceled \in BOOLEAN /\ runPc \in {"loop", "accept", "await", "faulted"}
    /\ made \subseteq Clients /\ pool \subseteq Clients /\ alive \subseteq Clients
    /\ bound \subseteq Clients /\ robbed \subseteq Connections
    /\ lastKey \in Nat /\ Key \in [Clients -> Nat]
    /\ clients \subseteq Nat \X Clients /\ tasks \subseteq Nat
    /\ taskPc \in [Connections -> ClientStates]
    /\ client \in [Connections -> Clients \cup {NoClient}] /\ key \in [Connections -> Nat]

\* The connections that have their client to themselves: from the Rent to the Return.
Owns(c) == taskPc[c] \notin {"outside", "unbind", "clear", "decrement", "gone"}

\* Although clients are reused while their last disposal is under way, `remove' never takes
\* the entry of another connection: the client's key is its own, or was cleared behind its
\* back by that disposal, and only then is the ArgumentOutOfRangeException thrown.
RemoveFindsEntries ==
    \A c \in Connections :
        /\ taskPc[c] = "removeClient" =>
              /\ <<key[c], client[c]>> \in clients
              /\ Key[client[c]] = key[c] \/ (Key[client[c]] = 0 /\ c \in robbed)
        /\ taskPc[c] \in {"removeClient", "removeTask"} => key[c] \in tasks

\* Until the first await of the counter is released, the counter is the number of clients
\* that were counted in and not out, those whose tasks faulted included.
CounterCountsClients ==
    completed = {} =>
        counter = Cardinality({c \in Connections : taskPc[c] \notin {"outside", "accepted", "gone"}})

\* No client serves two connections, and none in the pool serves one: neither the reuse of a
\* client whose disposal is under way nor a disposal cut short hands it out twice.
ClientExclusive ==
    \A c \in Connections : Owns(c) =>
        /\ client[c] \in alive \ pool
        /\ \A d \in Connections : Owns(d) /\ d # c => client[d] # client[c]

\* Every accepted connection is handled, its client removed from both dictionaries, disposed and
\* counted out, unless Stop was called, its handler threw, or the disposal of the client by an
\* earlier connection cleared its key: the exception of `remove' is for these alone.
EveryClientRemoved ==
    \A c \in Connections :
        taskPc[c] = "accepted" ~> \/ taskPc[c] \in {"gone", "thrown"}
                                  \/ taskPc[c] = "faulted" /\ (canceled \/ c \in robbed)
=============================================================================

---------------------- MODULE ConnectionsToDomain_proofs ----------------------
(***************************************************************************)
(* Proofs about the hub of connections, for any number of sessions,          *)
(* connections and nodes: who holds a connection, who may close it, and that *)
(* the chain of stalled connections stays a list as long as none of its      *)
(* nodes is misused.                                                         *)
(***************************************************************************)
EXTENDS ConnectionsToDomain, TLAPS

-----------------------------------------------------------------------------
(* The inductive invariant *)

\* The states in which a session refers to a node, and to a connection.
WithNode == {"read", "logger", "revive", "cancel", "add", "dispose", "clear", "link"}
WithClient == {"cancel", "add", "dispose", "clear", "connect", "update", "active", "return",
               "remove", "check", "rent", "link"}
\* The stages in which a watchdog has the node to itself.
Disposal == {"dispose", "clear"}

ConnStates == {"none", "up", "down"}
Keys == 0..MaxIds
WatchRecords == [stage : WatchStates, node : Nodes \cup {Null}, client : Clients \cup {Null}]

ChainTypeOK ==
    /\ head \in Nodes \cup {Null}
    /\ next \in [Nodes -> Nodes \cup {Null}] /\ previous \in [Nodes -> Nodes \cup {Null}]
    /\ client \in [Nodes -> Clients \cup {Null}] /\ bound \in [Nodes -> BOOLEAN]
    /\ pooled \in [Nodes -> Nat]
SessionTypeOK ==
    /\ pc \in [Sessions -> SessionStates]
    /\ held \in [Sessions -> Clients \cup {Null}] /\ node \in [Sessions -> Nodes \cup {Null}]
    /\ found \in [Sessions -> Clients \cup {Null}]
    /\ \A s \in Sessions : pc[s] \in WithNode => node[s] \in Nodes
    /\ \A s \in Sessions : pc[s] \in WithClient => held[s] \in Clients
ConnTypeOK ==
    /\ activeConnections \subseteq Keys \X Clients /\ conn \in [Clients -> ConnStates]
    /\ Key \in [Clients -> Keys] /\ counterForId \in Keys
    /\ killing \in [Clients -> Nat] /\ timedOut \subseteq Clients /\ misused \in BOOLEAN
\* What is in the pool is disposed, and so is what was not created yet.
PoolTypeOK == disposed \subseteq Clients /\ pool \subseteq made \cap disposed /\ Clients \ made \subseteq disposed
WatchTypeOK ==
    /\ watchdog \in [1..MaxStalls -> WatchRecords] /\ stalls \in 0..MaxStalls
    /\ \A w \in 1..MaxStalls : w > stalls => watchdog[w].stage = "none"
    /\ \A w \in 1..MaxStalls : watchdog[w].stage # "none" =>
           watchdog[w].node \in Nodes /\ watchdog[w].client \in Clients
HubTypeOK == ChainTypeOK /\ SessionTypeOK /\ ConnTypeOK /\ PoolTypeOK /\ WatchTypeOK

\* The chain is a doubly linked list: no node of it is followed by the head, and the chain ends.
Linked ==
    /\ \A n \in Chain : next[n] # Null => previous[next[n]] = n /\ next[n] # head
    /\ head # Null => \E n \in Chain : next[n] = Null

\* A node is in the chain, or with one session, or with one watchdog that disposes of it, or
\* in the pool, where Dispose may still have to clear it.
NodesOwned ==
    /\ \A s \in Sessions : pc[s] \in WithNode => node[s] \notin Chain
    /\ \A s, t \in Sessions :
          s # t /\ pc[s] \in WithNode /\ pc[t] \in WithNode => node[s] # node[t]
    /\ \A w \in 1..MaxStalls : watchdog[w].stage \in Disposal =>
          /\ watchdog[w].node \notin Chain
          /\ \A s \in Sessions : pc[s] \in WithNode => node[s] # watchdog[w].node
          /\ \A v \in 1..MaxStalls :
                v # w /\ watchdog[v].stage \in Disposal => watchdog[v].node # watchdog[w].node
    /\ \A s \in Sessions : pc[s] = "link" => next[node[s]] = Null
PoolOwned ==
    /\ \A n \in Nodes : pooled[n] <= 1
    /\ \A n \in Nodes : pooled[n] > 0 => n \notin Chain
    /\ \A s \in Sessions : pc[s] \in WithNode /\ pooled[node[s]] > 0 => pc[s] = "clear"
    /\ \A w \in 1..MaxStalls :
          watchdog[w].stage \in Disposal /\ pooled[watchdog[w].node] > 0 => watchdog[w].stage = "clear"
    /\ \A n \in Nodes : pooled[n] > 0 /\ ~Disposing(n) => next[n] = Null

\* The nodes whose connection is stalled: those of the chain and those just popped.
Popped == {"read", "logger", "revive"}
Shelf == Chain \cup {node[s] : s \in {t \in Sessions : pc[t] \in Popped}}

\* The connections that no watchdog has killed.  What follows is about them: the others may be
\* rented again while a session still has them.
Clean == Clients \ timedOut
\* Neither a session nor a node of the shelf has c.
Free(c) == (\A s \in Sessions : held[s] # c) /\ (\A m \in Shelf : client[m] # c)

\* A connection has one session or one node, which has it until it is killed, and only once.
HeldOnce ==
    \A s, t \in Sessions : s # t /\ held[s] \in Clean => held[s] # held[t]
ShelvedOnce ==
    /\ \A m, n \in Shelf : m # n /\ client[m] \in Clean => client[m] # client[n]
    /\ \A m \in Shelf, s \in Sessions : client[m] \in Clean => held[s] # client[m]
KilledFree ==
    \A c \in Clean : /\ Killed(c) => Free(c)
                     /\ killing[c] <= 1 /\ (c \in disposed => killing[c] = 0)
\* TryGet returns the connection that it found connected.
FoundHeld ==
    \A s \in Sessions :
        /\ pc[s] \in {"logger", "revive"} => found[s] = client[node[s]]
        /\ pc[s] \in {"cancel", "add", "dispose", "clear"} => found[s] = held[s]

\* A connection has one entry in activeConnections at most, and while it has, an owner; the
\* owner finds it unless the key was cleared.
EntryOwned ==
    \A c \in Clean, k \in Keys : <<k, c>> \in activeConnections =>
        /\ \E s \in Sessions : Owns(s, c)
        /\ \A j \in Keys : <<j, c>> \in activeConnections => j = k
OwnerFinds ==
    \A c \in Clean, s \in Sessions :
        Owns(s, c) /\ pc[s] # "faulted" /\ c \notin robbed => <<Key[c], c>> \in activeConnections

ListInv == Linked /\ NodesOwned /\ PoolOwned
UseInv == HeldOnce /\ ShelvedOnce /\ KilledFree /\ FoundHeld
ActiveInv == EntryOwned /\ OwnerFinds
HubInv == HubTypeOK /\ (~misused => ListInv /\ UseInv /\ ActiveInv)

-----------------------------------------------------------------------------
(* The nodes reachable from a head along a function next *)

Reachable(h, nx) ==
    {n \in Nodes : \A S \in SUBSET Nodes :
        h \in S \cup {Null} /\ (\A m \in S : nx[m] \in S \cup {Null}) => n \in S}

LEMMA ChainReachable == Chain = Reachable(head, next) /\ Chain' = Reachable(head', next')
  BY DEF Chain, Reachable

\* It is a closed set with the head, and a part of every other one.
LEMMA ReachableLeast ==
  ASSUME NEW h, NEW nx, NEW S \in SUBSET Nodes, h \in S \cup {Null},
         \A m \in S : nx[m] \in S \cup {Null}
  PROVE  Reachable(h, nx) \subseteq S
  BY DEF Reachable

LEMMA ReachableClosed ==
  ASSUME NEW h \in Nodes \cup {Null}, NEW nx \in [Nodes -> Nodes \cup {Null}]
  PROVE  /\ Reachable(h, nx) \subseteq Nodes
         /\ h \in Reachable(h, nx) \cup {Null}
         /\ \A m \in Reachable(h, nx) : nx[m] \in Reachable(h, nx) \cup {Null}
  <1>1. Reachable(h, nx) \subseteq Nodes BY DEF Reachable
  <1>2. h \in Reachable(h, nx) \cup {Null} BY Zenon DEF Reachable
  <1>3. ASSUME NEW m \in Reachable(h, nx), nx[m] # Null PROVE nx[m] \in Reachable(h, nx)
    <2>1. nx[m] \in Nodes BY <1>1, <1>3
    <2>2. ASSUME NEW S \in SUBSET Nodes, h \in S \cup {Null},
                 \A k \in S : nx[k] \in S \cup {Null}
          PROVE  nx[m] \in S
      <3>1. m \in S BY <2>2, ReachableLeast
      <3> QED BY <3>1, <2>2, <1>3
    <2> QED BY <2>1, <2>2 DEF Reachable
  <1> QED BY <1>1, <1>2, <1>3

\* An empty chain, and a chain of one node.
LEMMA ReachableNull == ASSUME NEW nx PROVE Reachable(Null, nx) = {}
  <1> DEFINE T == {}
  <1>1. T \in SUBSET Nodes /\ Null \in T \cup {Null} /\ \A m \in T : nx[m] \in T \cup {Null}
    OBVIOUS
  <1> HIDE DEF T
  <1>2. Reachable(Null, nx) \subseteq T BY <1>1, ReachableLeast, Zenon
  <1> QED BY <1>2 DEF T

LEMMA ReachableOne ==
  ASSUME NEW n \in Nodes, NEW nx \in [Nodes -> Nodes \cup {Null}], nx[n] = Null
  PROVE  Reachable(n, nx) = {n}
  <1> DEFINE T == {n}
  <1>1. T \in SUBSET Nodes /\ n \in T \cup {Null} /\ \A m \in T : nx[m] \in T \cup {Null}
    OBVIOUS
  <1> HIDE DEF T
  <1>2. Reachable(n, nx) \subseteq T BY <1>1, ReachableLeast, Zenon
  <1>3. n \in Reachable(n, nx) BY ReachableClosed, HubAssumption
  <1> QED BY <1>2, <1>3 DEF T

\* Only the links of the nodes that are reachable matter.
LEMMA ReachableSame ==
  ASSUME NEW h \in Nodes \cup {Null}, NEW nx \in [Nodes -> Nodes \cup {Null}],
         NEW ny \in [Nodes -> Nodes \cup {Null}],
         \A m \in Reachable(h, nx) : ny[m] = nx[m]
  PROVE  Reachable(h, ny) = Reachable(h, nx)
  <1> DEFINE R == Reachable(h, nx)
             Q == Reachable(h, ny)
  <1>1. R \subseteq Nodes /\ h \in R \cup {Null} /\ \A m \in R : nx[m] \in R \cup {Null}
    BY ReachableClosed
  <1>2. Q \subseteq Nodes /\ h \in Q \cup {Null} /\ \A m \in Q : ny[m] \in Q \cup {Null}
    BY ReachableClosed
  <1>3. \A m \in R : ny[m] = nx[m] OBVIOUS
  <1> HIDE DEF R, Q
  <1>4. Q \subseteq R
    <2>1. \A m \in R : ny[m] \in R \cup {Null} BY <1>1, <1>3
    <2> QED BY <2>1, <1>1, ReachableLeast DEF Q
  <1>5. R \subseteq Q \cap R
    <2>1. \A m \in Q \cap R : nx[m] \in (Q \cap R) \cup {Null} BY <1>1, <1>2, <1>3
    <2>2. Q \cap R \in SUBSET Nodes /\ h \in (Q \cap R) \cup {Null} BY <1>1, <1>2
    <2> QED BY <2>1, <2>2, ReachableLeast DEF R
  <1>6. Q = R BY <1>4, <1>5
  <1> QED BY <1>6 DEF Q, R

\* Taking out the head, which no node is followed by.
LEMMA ReachablePop ==
  ASSUME NEW h \in Nodes, NEW nx \in [Nodes -> Nodes \cup {Null}],
         \A m \in Reachable(h, nx) : nx[m] # h
  PROVE  Reachable(nx[h], nx) = Reachable(h, nx) \ {h}
  <1> DEFINE R == Reachable(h, nx)
             Q == Reachable(nx[h], nx)
  <1>0. Null \notin Nodes BY HubAssumption
  <1>1. R \subseteq Nodes /\ h \in R /\ \A m \in R : nx[m] \in R \cup {Null}
    BY <1>0, ReachableClosed
  <1>2. Q \subseteq Nodes /\ nx[h] \in Q \cup {Null} /\ \A m \in Q : nx[m] \in Q \cup {Null}
    BY ReachableClosed
  <1>3. \A m \in R : nx[m] # h OBVIOUS
  <1> HIDE DEF R, Q
  <1>4. Q \subseteq R \ {h}
    <2>1. \A m \in R \ {h} : nx[m] \in (R \ {h}) \cup {Null} BY <1>1, <1>3
    <2>2. R \ {h} \in SUBSET Nodes /\ nx[h] \in (R \ {h}) \cup {Null} BY <1>1, <1>3
    <2> QED BY <2>1, <2>2, ReachableLeast DEF Q
  <1>5. R \subseteq Q \cup {h}
    <2>1. \A m \in Q \cup {h} : nx[m] \in (Q \cup {h}) \cup {Null} BY <1>2
    <2>2. Q \cup {h} \in SUBSET Nodes /\ h \in (Q \cup {h}) \cup {Null} BY <1>2
    <2> QED BY <2>1, <2>2, ReachableLeast DEF R
  <1>6. Q = R \ {h} BY <1>4, <1>5
  <1> QED BY <1>6 DEF Q, R

\* Appending a node after the last one.
LEMMA ReachableAppend ==
  ASSUME NEW h \in Nodes, NEW nx \in [Nodes -> Nodes \cup {Null}],
         NEW l \in Reachable(h, nx), nx[l] = Null,
         NEW n \in Nodes, n \notin Reachable(h, nx), nx[n] = Null,
         NEW ny \in [Nodes -> Nodes \cup {Null}], ny[l] = n, \A m \in Nodes : m # l => ny[m] = nx[m]
  PROVE  Reachable(h, ny) = Reachable(h, nx) \cup {n}
  <1> DEFINE R == Reachable(h, nx)
             Q == Reachable(h, ny)
  <1>0. Null \notin Nodes BY HubAssumption
  <1>1. R \subseteq Nodes /\ h \in R /\ \A m \in R : nx[m] \in R \cup {Null}
    BY <1>0, ReachableClosed
  <1>a. l \in R /\ n \notin R OBVIOUS
  <1>b. ny[l] = n /\ \A m \in Nodes : m # l => ny[m] = nx[m] OBVIOUS
  <1> HIDE DEF R
  <1>2. Q \subseteq Nodes /\ h \in Q \cup {Null} /\ \A m \in Q : ny[m] \in Q \cup {Null}
    BY ReachableClosed
  <1> HIDE DEF Q
  <1>4. Q \subseteq R \cup {n}
    <2>1. \A m \in R \cup {n} : ny[m] \in (R \cup {n}) \cup {Null} BY <1>1, <1>a, <1>b
    <2>2. R \cup {n} \in SUBSET Nodes /\ h \in (R \cup {n}) \cup {Null} BY <1>1
    <2> QED BY <2>1, <2>2, ReachableLeast DEF Q
  <1>5. R \subseteq Q \cap R
    <2>1. \A m \in Q \cap R : nx[m] \in (Q \cap R) \cup {Null} BY <1>1, <1>2, <1>b
    <2>2. Q \cap R \in SUBSET Nodes /\ h \in (Q \cap R) \cup {Null} BY <1>1, <1>2
    <2> QED BY <2>1, <2>2, ReachableLeast DEF R
  <1>6. n \in Q BY <1>0, <1>2, <1>5, <1>a, <1>b
  <1>7. Q = R \cup {n} BY <1>4, <1>5, <1>6
  <1> QED BY <1>7 DEF Q, R

\* A node that is not the head is reached through another one.
LEMMA ReachableBefore ==
  ASSUME NEW h \in Nodes \cup {Null}, NEW nx \in [Nodes -> Nodes \cup {Null}],
         NEW n \in Reachable(h, nx), n # h
  PROVE  \E m \in Reachable(h, nx) : nx[m] = n /\ m # n
  <1> DEFINE R == Reachable(h, nx)
  <1>1. R \subseteq Nodes /\ h \in R \cup {Null} /\ \A m \in R : nx[m] \in R \cup {Null}
    BY ReachableClosed
  <1>2. n \in R OBVIOUS
  <1> HIDE DEF R
  <1> SUFFICES ASSUME ~\E m \in R : nx[m] = n /\ m # n PROVE FALSE
    BY DEF R
  <1> DEFINE T == R \ {n}
  <1>3. \A m \in T : nx[m] \in T \cup {Null} BY <1>1
  <1>4. T \in SUBSET Nodes /\ h \in T \cup {Null} BY <1>1
  <1> HIDE DEF T
  <1>5. R \subseteq T BY <1>3, <1>4, ReachableLeast, Zenon DEF R
  <1> QED BY <1>2, <1>5 DEF T

\* Taking out a node after the one that precedes it.
LEMMA ReachableUnlink ==
  ASSUME NEW h \in Nodes \cup {Null}, NEW nx \in [Nodes -> Nodes \cup {Null}],
         NEW n \in Reachable(h, nx), n # h,
         NEW p \in Reachable(h, nx), nx[p] = n, p # n,
         \A m \in Reachable(h, nx) : nx[m] = n => m = p,
         NEW ny \in [Nodes -> Nodes \cup {Null}], ny[p] = nx[n], \A m \in Nodes : m # p => ny[m] = nx[m]
  PROVE  Reachable(h, ny) = Reachable(h, nx) \ {n}
  <1> DEFINE R == Reachable(h, nx)
             Q == Reachable(h, ny)
  <1>1. R \subseteq Nodes /\ h \in R \cup {Null} /\ \A m \in R : nx[m] \in R \cup {Null}
    BY ReachableClosed
  <1>a. n \in R /\ p \in R /\ \A m \in R : nx[m] = n => m = p OBVIOUS
  <1>b. ny[p] = nx[n] /\ \A m \in Nodes : m # p => ny[m] = nx[m] OBVIOUS
  <1> HIDE DEF R
  <1>2. Q \subseteq Nodes /\ h \in Q \cup {Null} /\ \A m \in Q : ny[m] \in Q \cup {Null}
    BY ReachableClosed
  <1> HIDE DEF Q
  <1>4. Q \subseteq R \ {n}
    <2> DEFINE T == R \ {n}
    <2>1. \A m \in T : ny[m] \in T \cup {Null} BY <1>1, <1>a, <1>b
    <2>2. T \in SUBSET Nodes /\ h \in T \cup {Null} BY <1>1
    <2> HIDE DEF T
    <2>3. Q \subseteq T BY <2>1, <2>2, ReachableLeast, Zenon DEF Q
    <2> QED BY <2>3 DEF T
  <1>5. R \subseteq Q \cup {n}
    <2> DEFINE T == IF p \in Q THEN Q \cup {n} ELSE Q
    <2>1. \A m \in T : nx[m] \in T \cup {Null} BY <1>1, <1>2, <1>a, <1>b
    <2>2. T \in SUBSET Nodes /\ h \in T \cup {Null} BY <1>1, <1>2, <1>a
    <2>3. T \subseteq Q \cup {n} OBVIOUS
    <2> HIDE DEF T
    <2> QED BY <2>1, <2>2, <2>3, ReachableLeast DEF R
  <1>6. Q = R \ {n} BY <1>4, <1>5
  <1> QED BY <1>6 DEF Q, R

-----------------------------------------------------------------------------
(* Types *)

LEMMA TypeInit == Init => HubTypeOK
  <1> SUFFICES ASSUME Init PROVE HubTypeOK
    OBVIOUS
  <1> USE HubAssumption DEF Init
  <1>1. ChainTypeOK BY DEF ChainTypeOK
  <1>2. SessionTypeOK BY DEF SessionTypeOK, SessionStates, WithNode, WithClient
  <1>3. ConnTypeOK
    <2>1. 0 \in Keys BY DEF Keys
    <2>2. killing \in [Clients -> Nat] /\ Key \in [Clients -> Keys] /\ conn \in [Clients -> ConnStates]
      BY <2>1 DEF ConnStates
    <2> QED BY <2>1, <2>2 DEF ConnTypeOK
  <1>5. PoolTypeOK BY DEF PoolTypeOK
  <1>4. WatchTypeOK BY DEF WatchTypeOK, WatchRecords, WatchStates, NoWatch, Watch
  <1> QED BY <1>1, <1>2, <1>3, <1>4, <1>5 DEF HubTypeOK

\* Steps of a watchdog that runs, and its end.
LEMMA WatchUpdate ==
  ASSUME WatchTypeOK, NEW w \in 1..MaxStalls, UNCHANGED stalls,
         \/ WatchEnds(w)
         \/ /\ watchdog[w].stage # "none"
            /\ \E l \in WatchStates \ {"none"} : WatchGoto(w, l)
  PROVE  WatchTypeOK'
  <1> USE DEF WatchTypeOK, WatchRecords
  <1>1. CASE WatchEnds(w) BY <1>1 DEF WatchEnds, NoWatch, Watch, WatchStates
  <1>2. ASSUME watchdog[w].stage # "none", NEW l \in WatchStates, l # "none", WatchGoto(w, l)
        PROVE  WatchTypeOK'
    BY <1>2 DEF WatchGoto
  <1> QED BY <1>1, <1>2

\* Kill and CheckConnect are called with a connection.
LEMMA KillTypes ==
  ASSUME ConnTypeOK, NEW c \in Clients
  PROVE  /\ Kill(c) => killing' \in [Clients -> Nat]
         /\ FoundUp(c) \/ FoundDown(c) => conn' \in [Clients -> ConnStates]
  BY DEF ConnTypeOK, ConnStates, Kill, FoundUp, FoundDown

\* Dispose of a connection that exists.
LEMMA DisposeTypes ==
  ASSUME ConnTypeOK, PoolTypeOK, NEW c \in Clients, DisposeSocket(c)
  PROVE  /\ conn' \in [Clients -> ConnStates]
         /\ made' = made => PoolTypeOK'
  BY DEF DisposeSocket, CheckThrows, ConnTypeOK, ConnStates, PoolTypeOK

LEMMA SessionTypes == ASSUME HubTypeOK, NEW s \in Sessions, SessionStep(s) PROVE HubTypeOK'
  <1> USE HubAssumption DEF HubTypeOK, Goto, chainVars, connVars, objectVars, keyVars, killVars, hubVars, sessionVars, watchVars
  <1>1. CASE GetHub(s)
    BY <1>1 DEF GetHub, ChainTypeOK, SessionTypeOK, ConnTypeOK, PoolTypeOK, WatchTypeOK, SessionStates, WithNode, WithClient, ConnStates
  <1>2. CASE Use(s)
    BY <1>2 DEF Use, ChainTypeOK, SessionTypeOK, ConnTypeOK, PoolTypeOK, WatchTypeOK, SessionStates, WithNode, WithClient, ConnStates
  <1>3. CASE Unuse(s)
    BY <1>3 DEF Unuse, ChainTypeOK, SessionTypeOK, ConnTypeOK, PoolTypeOK, WatchTypeOK, SessionStates, WithNode, WithClient, ConnStates
  <1>4. CASE ExchangeFails(s)
    BY <1>4 DEF ExchangeFails, ChainTypeOK, SessionTypeOK, ConnTypeOK, PoolTypeOK, WatchTypeOK, SessionStates, WithNode, WithClient, ConnStates
  <1>5. CASE FindHead(s)
    BY <1>5 DEF FindHead, ChainTypeOK, SessionTypeOK, ConnTypeOK, PoolTypeOK, WatchTypeOK, SessionStates, WithNode, WithClient, ConnStates
  <1>6. CASE PopHead(s)
    <2> USE <1>6 DEF PopHead
    <2>1. ChainTypeOK' BY DEF ChainTypeOK, SessionTypeOK, WithNode
    <2>2. SessionTypeOK' BY DEF ChainTypeOK, SessionTypeOK, ConnTypeOK, SessionStates, WithNode, WithClient
    <2>3. ConnTypeOK' /\ PoolTypeOK' BY DEF ConnTypeOK, PoolTypeOK
    <2>4. WatchTypeOK' BY DEF SessionTypeOK, WatchTypeOK, WatchRecords, WatchStates, WithNode, WithClient
    <2> QED BY <2>1, <2>2, <2>3, <2>4
  <1>20. CASE ReadClient(s)
    <2> USE <1>20 DEF ReadClient
    <2>1. ChainTypeOK' BY DEF ChainTypeOK
    <2>2. SessionTypeOK' BY DEF ChainTypeOK, SessionTypeOK, SessionStates, WithNode, WithClient
    <2>3. ConnTypeOK' /\ PoolTypeOK' BY DEF ConnTypeOK, PoolTypeOK
    <2>4. WatchTypeOK' BY DEF WatchTypeOK
    <2> QED BY <2>1, <2>2, <2>3, <2>4
  <1>21. CASE ReadLogger(s)
    <2> USE <1>21 DEF ReadLogger, Forget
    <2>1. ChainTypeOK' BY DEF ChainTypeOK
    <2>2. SessionTypeOK' BY DEF SessionTypeOK, SessionStates, WithNode, WithClient
    <2>3. ConnTypeOK' /\ PoolTypeOK' BY DEF ConnTypeOK, PoolTypeOK
    <2>4. WatchTypeOK' BY DEF WatchTypeOK
    <2> QED BY <2>1, <2>2, <2>3, <2>4
  <1>7. CASE CheckConnect(s)
    <2> USE <1>7 DEF CheckConnect, Forget, FoundUp, FoundDown, Kill
    <2>1. ChainTypeOK' BY DEF ChainTypeOK
    <2>2. SessionTypeOK' BY DEF ChainTypeOK, SessionTypeOK, ConnTypeOK, SessionStates, WithNode, WithClient
    <2>3. ConnTypeOK' /\ PoolTypeOK'
      <3>1. client[node[s]] \in Clients \cup {Null} BY DEF ChainTypeOK, SessionTypeOK, WithNode
      <3> QED BY <3>1, KillTypes DEF ConnTypeOK, PoolTypeOK
    <2>4. WatchTypeOK' BY DEF SessionTypeOK, WatchTypeOK, WatchRecords, WatchStates, WithNode, WithClient
    <2> QED BY <2>1, <2>2, <2>3, <2>4
  <1>8. CASE CancelWatchdog(s)
    <2> USE <1>8 DEF CancelWatchdog, WatchdogCanceled, NoWatch, Watch
    <2>1. ChainTypeOK' BY DEF ChainTypeOK
    <2>2. SessionTypeOK' BY DEF ChainTypeOK, SessionTypeOK, ConnTypeOK, SessionStates, WithNode, WithClient
    <2>3. ConnTypeOK' /\ PoolTypeOK' BY DEF ConnTypeOK, PoolTypeOK
    <2>4. WatchTypeOK' BY DEF SessionTypeOK, WatchTypeOK, WatchRecords, WatchStates, WithNode, WithClient
    <2> QED BY <2>1, <2>2, <2>3, <2>4
  <1>9. CASE AddRevived(s)
    <2> USE <1>9 DEF AddRevived, Forget
    <2>1. ChainTypeOK' BY DEF ChainTypeOK
    <2>2. SessionTypeOK' BY DEF ChainTypeOK, SessionTypeOK, ConnTypeOK, SessionStates, WithNode, WithClient
    <2>3. ConnTypeOK' /\ PoolTypeOK'
      <3>1. held[s] \in Clients BY DEF SessionTypeOK, WithClient
      <3> QED BY <3>1 DEF ConnTypeOK, PoolTypeOK
    <2>4. WatchTypeOK' BY DEF SessionTypeOK, WatchTypeOK, WatchRecords, WatchStates, WithNode, WithClient
    <2> QED BY <2>1, <2>2, <2>3, <2>4
  <1>10. CASE DisposeNode(s)
    <2> USE <1>10 DEF DisposeNode, Forget, PoolNode
    <2>1. ChainTypeOK'
      <3>1. node[s] \in Nodes BY DEF SessionTypeOK, WithNode
      <3> QED BY <3>1 DEF ChainTypeOK
    <2>2. SessionTypeOK' BY DEF ChainTypeOK, SessionTypeOK, ConnTypeOK, SessionStates, WithNode, WithClient
    <2>3. ConnTypeOK' /\ PoolTypeOK' BY DEF ConnTypeOK, PoolTypeOK
    <2>4. WatchTypeOK' BY DEF SessionTypeOK, WatchTypeOK, WatchRecords, WatchStates, WithNode, WithClient
    <2> QED BY <2>1, <2>2, <2>3, <2>4
  <1>11. CASE ClearFields(s)
    <2> USE <1>11 DEF ClearFields, Forget, ClearNode
    <2>1. ChainTypeOK' BY DEF ChainTypeOK, SessionTypeOK, WithNode
    <2>2. SessionTypeOK' BY DEF ChainTypeOK, SessionTypeOK, ConnTypeOK, SessionStates, WithNode, WithClient
    <2>3. ConnTypeOK' /\ PoolTypeOK' BY DEF ConnTypeOK, PoolTypeOK
    <2>4. WatchTypeOK' BY DEF SessionTypeOK, WatchTypeOK, WatchRecords, WatchStates, WithNode, WithClient
    <2> QED BY <2>1, <2>2, <2>3, <2>4
  <1>12. CASE Create(s)
    <2> USE <1>12 DEF Create, Rent
    <2>1. ChainTypeOK' BY DEF ChainTypeOK
    <2>2. SessionTypeOK' BY DEF SessionTypeOK, SessionStates, WithNode, WithClient
    <2>3. ConnTypeOK'
      <3>1. counterForId' \in Keys BY DEF ConnTypeOK, Keys
      <3> QED BY <3>1 DEF ConnTypeOK
    <2>4. PoolTypeOK' BY DEF PoolTypeOK
    <2>5. WatchTypeOK' BY DEF WatchTypeOK
    <2> QED BY <2>1, <2>2, <2>3, <2>4, <2>5
  <1>13. CASE Connect(s)
    BY <1>13 DEF Connect, ChainTypeOK, SessionTypeOK, ConnTypeOK, PoolTypeOK, WatchTypeOK, SessionStates, WithNode, WithClient, ConnStates
  <1>14. CASE ConnectFails(s)
    <2> USE <1>14 DEF ConnectFails, TryRemove
    <2>1. ChainTypeOK' BY DEF ChainTypeOK
    <2>2. SessionTypeOK' BY DEF SessionTypeOK, SessionStates, WithNode, WithClient
    <2>3. held[s] \in Clients BY DEF SessionTypeOK, WithClient
    <2>4. ConnTypeOK' BY <2>3, DisposeTypes DEF ConnTypeOK
    <2>5. PoolTypeOK' BY <2>3, DisposeTypes
    <2>6. WatchTypeOK' BY DEF WatchTypeOK
    <2> QED BY <2>1, <2>2, <2>4, <2>5, <2>6
  <1>15. CASE UpdateMonitor(s)
    BY <1>15 DEF UpdateMonitor, ChainTypeOK, SessionTypeOK, ConnTypeOK, PoolTypeOK, WatchTypeOK, SessionStates, WithNode, WithClient, ConnStates
  <1>22. CASE ReturnActive(s)
    BY <1>22 DEF ReturnActive, ChainTypeOK, SessionTypeOK, ConnTypeOK, PoolTypeOK, WatchTypeOK, SessionStates, WithNode, WithClient, ConnStates
  <1>16. CASE RemoveActive(s)
    BY <1>16 DEF RemoveActive, TryRemove, ChainTypeOK, SessionTypeOK, ConnTypeOK, PoolTypeOK, WatchTypeOK, SessionStates, WithNode, WithClient, ConnStates
  <1>17. CASE CheckReturned(s)
    <2> USE <1>17 DEF CheckReturned, FoundUp, FoundDown, Kill
    <2>1. ChainTypeOK' BY DEF ChainTypeOK
    <2>2. SessionTypeOK' BY DEF ChainTypeOK, SessionTypeOK, ConnTypeOK, SessionStates, WithNode, WithClient
    <2>3. ConnTypeOK' /\ PoolTypeOK'
      <3>1. held[s] \in Clients BY DEF SessionTypeOK, WithClient
      <3> QED BY <3>1, KillTypes DEF ConnTypeOK, PoolTypeOK
    <2>4. WatchTypeOK' BY DEF SessionTypeOK, WatchTypeOK, WatchRecords, WatchStates, WithNode, WithClient
    <2> QED BY <2>1, <2>2, <2>3, <2>4
  <1>18. CASE RentNode(s)
    <2> USE <1>18 DEF RentNode, Get, TryReset, Watch
    <2>1. ChainTypeOK' BY DEF ChainTypeOK, SessionTypeOK, WithNode
    <2>2. SessionTypeOK' BY DEF ChainTypeOK, SessionTypeOK, ConnTypeOK, SessionStates, WithNode, WithClient
    <2>3. ConnTypeOK' /\ PoolTypeOK' BY DEF ConnTypeOK, PoolTypeOK
    <2>4. WatchTypeOK'
      <3>1. PICK n \in Nodes : watchdog' = [TryReset(n) EXCEPT ![stalls'] = Watch("start", n, held[s])]
        OBVIOUS
      <3>2. held[s] \in Clients BY DEF SessionTypeOK, WithClient
      <3>3. Watch("start", n, held[s]) \in WatchRecords BY <3>2 DEF WatchRecords, WatchStates
      <3>4. TryReset(n) \in [1..MaxStalls -> WatchRecords]
        <4>1. \A w \in 1..MaxStalls : watchdog[w] \in WatchRecords BY DEF WatchTypeOK
        <4>2. \A r \in WatchRecords : [r EXCEPT !.stage = "unregistered"] \in WatchRecords
          BY DEF WatchRecords, WatchStates
        <4> QED BY <4>1, <4>2
      <3>5. \A w \in 1..MaxStalls : TryReset(n)[w].stage # "none" =>
               TryReset(n)[w].node \in Nodes /\ TryReset(n)[w].client \in Clients
        BY DEF WatchTypeOK, WatchRecords
      <3>6. stalls' \in 0..MaxStalls /\ stalls' = stalls + 1 BY DEF WatchTypeOK
      <3>7. \A w \in 1..MaxStalls : w > stalls' => TryReset(n)[w].stage = "none" /\ w # stalls'
        BY <3>6 DEF WatchTypeOK
      <3> HIDE DEF TryReset
      <3> QED BY <3>1, <3>2, <3>3, <3>4, <3>5, <3>6, <3>7 DEF WatchTypeOK
    <2> QED BY <2>1, <2>2, <2>3, <2>4
  <1>19. CASE Link(s)
    <2> USE <1>19 DEF Link, Forget
    <2>1. ChainTypeOK'
      <3>1. head = Null \/ LastNode \in Nodes BY DEF LastNode, Chain
      <3>2. node[s] \in Nodes /\ held[s] \in Clients BY DEF SessionTypeOK, WithNode, WithClient
      <3> QED BY <3>1, <3>2 DEF ChainTypeOK
    <2>2. SessionTypeOK' BY DEF ChainTypeOK, SessionTypeOK, ConnTypeOK, SessionStates, WithNode, WithClient
    <2>3. ConnTypeOK' /\ PoolTypeOK' BY DEF ConnTypeOK, PoolTypeOK
    <2>4. WatchTypeOK' BY DEF SessionTypeOK, WatchTypeOK, WatchRecords, WatchStates, WithNode, WithClient
    <2> QED BY <2>1, <2>2, <2>3, <2>4
  <1> QED BY <1>1, <1>2, <1>3, <1>4, <1>5, <1>6, <1>7, <1>8, <1>9, <1>10, <1>11, <1>12, <1>13, <1>14, <1>15, <1>16, <1>17, <1>18, <1>19, <1>20, <1>21, <1>22 DEF SessionStep

LEMMA WatchTypes == ASSUME HubTypeOK, NEW w \in 1..MaxStalls, WatchdogStep(w) PROVE HubTypeOK'
  <1> USE HubAssumption DEF HubTypeOK, chainVars, connVars, objectVars, keyVars, killVars, hubVars,
          sessionVars
  <1>1. CASE StartWatchdog(w)
    <2> USE <1>1 DEF StartWatchdog
    <2>1. ChainTypeOK' BY DEF ChainTypeOK
    <2>2. SessionTypeOK' BY DEF ChainTypeOK, SessionTypeOK, ConnTypeOK, SessionStates, WithNode, WithClient
    <2>3. ConnTypeOK' /\ PoolTypeOK' BY DEF ConnTypeOK, PoolTypeOK
    <2>4. WatchTypeOK' BY WatchUpdate DEF WatchStates, WatchGoto, WatchEnds, NoWatch, Watch
    <2> QED BY <2>1, <2>2, <2>3, <2>4
  <1>2. CASE Elapse(w)
    <2> USE <1>2 DEF Elapse
    <2>1. ChainTypeOK' BY DEF ChainTypeOK
    <2>2. SessionTypeOK' BY DEF ChainTypeOK, SessionTypeOK, ConnTypeOK, SessionStates, WithNode, WithClient
    <2>3. ConnTypeOK' /\ PoolTypeOK' BY DEF ConnTypeOK, PoolTypeOK
    <2>4. WatchTypeOK' BY WatchUpdate DEF WatchStates, WatchGoto, WatchEnds, NoWatch, Watch
    <2> QED BY <2>1, <2>2, <2>3, <2>4
  <1>3. CASE RemoveFromChain(w)
    <2> USE <1>3 DEF RemoveFromChain
    <2>1. ChainTypeOK'
      <3>1. watchdog[w].node \in Nodes BY DEF WatchTypeOK
      <3> QED BY <3>1 DEF ChainTypeOK
    <2>2. SessionTypeOK' BY DEF ChainTypeOK, SessionTypeOK, ConnTypeOK, SessionStates, WithNode, WithClient
    <2>3. ConnTypeOK' /\ PoolTypeOK' BY DEF ConnTypeOK, PoolTypeOK
    <2>4. WatchTypeOK' BY WatchUpdate DEF WatchStates, WatchGoto, WatchEnds, NoWatch, Watch
    <2> QED BY <2>1, <2>2, <2>3, <2>4
  <1>4. CASE WatchdogDispose(w)
    <2> USE <1>4 DEF WatchdogDispose, PoolNode, ClearNode
    <2>1. ChainTypeOK'
      <3>1. watchdog[w].stage \in Disposal => watchdog[w].node \in Nodes BY DEF WatchTypeOK, Disposal
      <3>2. CASE watchdog[w].stage = "dispose" BY <3>1, <3>2 DEF ChainTypeOK, Disposal
      <3>3. CASE watchdog[w].stage = "clear" BY <3>1, <3>3 DEF ChainTypeOK, Disposal
      <3> QED BY <3>2, <3>3
    <2>2. SessionTypeOK' BY DEF ChainTypeOK, SessionTypeOK, ConnTypeOK, SessionStates, WithNode, WithClient
    <2>3. ConnTypeOK' /\ PoolTypeOK' BY DEF ConnTypeOK, PoolTypeOK
    <2>4. WatchTypeOK' BY WatchUpdate DEF WatchStates, WatchGoto, WatchEnds, NoWatch, Watch
    <2> QED BY <2>1, <2>2, <2>3, <2>4
  <1>5. CASE WatchdogKill(w)
    <2> USE <1>5 DEF WatchdogKill, Kill
    <2>1. ChainTypeOK' BY DEF ChainTypeOK
    <2>2. SessionTypeOK' BY DEF ChainTypeOK, SessionTypeOK, ConnTypeOK, SessionStates, WithNode, WithClient
    <2>3. ConnTypeOK' /\ PoolTypeOK'
      <3>1. watchdog[w].client \in Clients BY DEF WatchTypeOK
      <3> QED BY <3>1 DEF ConnTypeOK, PoolTypeOK
    <2>4. WatchTypeOK' BY WatchUpdate DEF WatchStates, WatchGoto, WatchEnds, NoWatch, Watch
    <2> QED BY <2>1, <2>2, <2>3, <2>4
  <1> QED BY <1>1, <1>2, <1>3, <1>4, <1>5 DEF WatchdogStep

LEMMA TypeStep == HubTypeOK /\ [Next]_vars => HubTypeOK'
  <1> SUFFICES ASSUME HubTypeOK, [Next]_vars PROVE HubTypeOK'
    OBVIOUS
  <1> USE DEF chainVars, connVars, objectVars, keyVars, killVars, hubVars, sessionVars, watchVars
  <1>1. CASE \E s \in Sessions : SessionStep(s) BY <1>1, SessionTypes
  <1>2. CASE \E w \in 1..MaxStalls : WatchdogStep(w) BY <1>2, WatchTypes
  <1>3. ASSUME NEW c \in Clients, DisposeClient(c) PROVE HubTypeOK'
    <2> USE <1>3 DEF DisposeClient, HubTypeOK
    <2>1. ChainTypeOK' /\ SessionTypeOK' /\ WatchTypeOK' BY DEF ChainTypeOK, SessionTypeOK, WatchTypeOK
    <2>2. ConnTypeOK' BY DisposeTypes DEF ConnTypeOK
    <2>3. PoolTypeOK' BY DisposeTypes
    <2> QED BY <2>1, <2>2, <2>3
  <1>4. ASSUME NEW c \in Clients, ClearKey(c) PROVE HubTypeOK'
    <2> USE <1>4, HubAssumption DEF ClearKey, HubTypeOK
    <2>1. ChainTypeOK' /\ SessionTypeOK' /\ WatchTypeOK' BY DEF ChainTypeOK, SessionTypeOK, WatchTypeOK
    <2>2. ConnTypeOK' /\ PoolTypeOK' BY DEF ConnTypeOK, PoolTypeOK, Keys
    <2> QED BY <2>1, <2>2
  <1>5. CASE CheckDispose \/ UNCHANGED vars
    BY <1>5 DEF CheckDispose, vars, HubTypeOK, ChainTypeOK, SessionTypeOK, ConnTypeOK, PoolTypeOK, WatchTypeOK
  <1> QED BY <1>1, <1>2, <1>3, <1>4, <1>5 DEF Next

-----------------------------------------------------------------------------
(* The chain and its nodes *)

LEMMA ChainClosed ==
  ASSUME ChainTypeOK
  PROVE  /\ Chain \subseteq Nodes /\ head \in Chain \cup {Null}
         /\ \A m \in Chain : next[m] \in Chain \cup {Null}
  BY ChainReachable, ReachableClosed DEF ChainTypeOK

\* Steps that leave the chain and the pool alone, by which no session or watchdog comes by a
\* node and none is in the middle of Dispose.
LEMMA ListKept ==
  ASSUME ListInv, UNCHANGED <<head, next, previous, pooled>>,
         \A t \in Sessions : pc'[t] \in WithNode =>
             /\ pc[t] \in WithNode /\ node'[t] = node[t]
             /\ pc'[t] = "link" => pc[t] = "link",
         \A t \in Sessions : pc[t] = "clear" => pc'[t] = "clear" /\ node'[t] = node[t],
         \A t \in Sessions : pc'[t] = "clear" => pc[t] = "clear",
         \A v \in 1..MaxStalls : watchdog[v].stage = "clear" \/ watchdog'[v].stage \in Disposal =>
             watchdog'[v] = watchdog[v]
  PROVE  ListInv'
  <1>1. Chain' = Chain BY DEF Chain
  <1>2. \A n : Disposing(n)' <=> Disposing(n) BY DEF Disposing, WithNode, Disposal
  <1>3. Linked' BY <1>1 DEF ListInv, Linked
  <1>4. NodesOwned' BY <1>1 DEF ListInv, NodesOwned, WithNode
  <1>5. PoolOwned'
    <2>1. \A t \in Sessions : pc'[t] \in WithNode /\ pooled'[node'[t]] > 0 => pc'[t] = "clear"
      BY DEF ListInv, PoolOwned
    <2>2. \A v \in 1..MaxStalls :
             watchdog'[v].stage \in Disposal /\ pooled'[watchdog'[v].node] > 0 => watchdog'[v].stage = "clear"
      BY DEF ListInv, PoolOwned
    <2>3. \A n \in Nodes : pooled'[n] > 0 /\ ~Disposing(n)' => next'[n] = Null
      BY <1>2 DEF ListInv, PoolOwned
    <2> QED BY <1>1, <2>1, <2>2, <2>3 DEF ListInv, PoolOwned
  <1> QED BY <1>3, <1>4, <1>5 DEF ListInv

LEMMA PopHeadList ==
  ASSUME HubTypeOK, ListInv, NEW s \in Sessions, PopHead(s), head # Null
  PROVE  ListInv' /\ Chain' = Chain \ {head}
  <1> USE DEF HubTypeOK, PopHead, Goto
  <1>0. Null \notin Nodes BY HubAssumption
  <1>1. head \in Chain /\ head \in Nodes /\ Chain \subseteq Nodes
    BY <1>0, ChainClosed DEF ChainTypeOK
  <1>2. \A m \in Chain : next[m] # Null => previous[next[m]] = m /\ next[m] # head
    BY DEF ListInv, Linked
  <1>3. Chain' = Chain \ {head}
    <2>1. \A m \in Reachable(head, next) : next[m] # head BY <1>0, <1>1, <1>2, ChainReachable
    <2>2. Reachable(next[head], next) = Reachable(head, next) \ {head}
      BY <1>1, <2>1, ReachablePop DEF ChainTypeOK
    <2> QED BY <2>2, ChainReachable
  <1>4. Linked'
    <2>1. ASSUME NEW m \in Chain', next'[m] # Null PROVE previous'[next'[m]] = m /\ next'[m] # head'
      <3>1. m \in Chain /\ m # head /\ next' = next /\ next[m] # Null BY <1>3, <2>1
      <3>2. next[m] # next[head] BY <1>1, <1>2, <3>1
      <3>3. previous'[next[m]] = previous[next[m]] BY <1>1, <3>1, <3>2 DEF ChainTypeOK
      <3>4. head' = next[head] OBVIOUS
      <3> QED BY <1>2, <3>1, <3>2, <3>3, <3>4
    <2>2. ASSUME head' # Null PROVE \E m \in Chain' : next'[m] = Null
      <3>1. PICK m \in Chain : next[m] = Null BY DEF ListInv, Linked
      <3> QED BY <3>1, <2>2, <1>3
    <2> QED BY <2>1, <2>2 DEF Linked
  <1>5. NodesOwned' BY <1>1, <1>3 DEF ListInv, NodesOwned, SessionTypeOK, watchVars, WithNode
  <1>6. \A n : Disposing(n)' <=> Disposing(n) BY DEF Disposing, watchVars, SessionTypeOK
  <1>7. PoolOwned' BY <1>1, <1>3, <1>6 DEF ListInv, PoolOwned, SessionTypeOK, watchVars, WithNode
  <1> QED BY <1>3, <1>4, <1>5, <1>7 DEF ListInv

\* Dispose pools a node that its session or its watchdog has to itself ...
LEMMA DisposeNodeList ==
  ASSUME HubTypeOK, ListInv, NEW s \in Sessions, DisposeNode(s), bound[node[s]]
  PROVE  ListInv' /\ Chain' = Chain
  <1> USE DEF HubTypeOK, SessionTypeOK, DisposeNode, Goto, PoolNode, watchVars
  <1>1. Chain' = Chain BY DEF Chain
  <1>2. node[s] \in Nodes /\ node[s] \notin Chain /\ pooled[node[s]] = 0
    BY DEF ListInv, NodesOwned, PoolOwned, WithNode, ChainTypeOK
  <1>3. Linked' BY <1>1 DEF ListInv, Linked
  <1>4. NodesOwned' BY <1>1 DEF ListInv, NodesOwned, WithNode
  <1>5. PoolOwned'
    <2>1. \A n \in Nodes : pooled'[n] <= 1 /\ (pooled'[n] > 0 => n \notin Chain)
      BY <1>2 DEF ListInv, PoolOwned, ChainTypeOK
    <2>2. \A t \in Sessions \ {s} : pc[t] \in WithNode => node[t] # node[s]
      BY DEF ListInv, NodesOwned, WithNode
    <2>3. \A t \in Sessions : pc'[t] \in WithNode /\ pooled'[node'[t]] > 0 => pc'[t] = "clear"
      BY <2>2 DEF ListInv, PoolOwned, ChainTypeOK
    <2>4. \A v \in 1..MaxStalls : watchdog[v].stage \in Disposal => watchdog[v].node # node[s]
      BY DEF ListInv, NodesOwned, WithNode
    <2>5. \A v \in 1..MaxStalls :
             watchdog'[v].stage \in Disposal /\ pooled'[watchdog'[v].node] > 0 => watchdog'[v].stage = "clear"
      BY <2>4 DEF ListInv, PoolOwned, ChainTypeOK, WatchTypeOK, Disposal
    <2>6. ASSUME NEW n \in Nodes, pooled'[n] > 0, ~Disposing(n)' PROVE next'[n] = Null
      <3>1. n # node[s] /\ ~Disposing(n) BY <2>6 DEF Disposing
      <3> QED BY <3>1, <2>6 DEF ListInv, PoolOwned, ChainTypeOK
    <2> QED BY <1>1, <2>1, <2>3, <2>5, <2>6 DEF PoolOwned
  <1> QED BY <1>1, <1>3, <1>4, <1>5 DEF ListInv

\* ... and clears it afterwards, unnoticed by the chain.
LEMMA ClearKeeps ==
  ASSUME ChainTypeOK, Linked, NEW n \in Nodes, n \notin Chain, ClearNode(n), UNCHANGED head
  PROVE  Chain' = Chain /\ Linked'
  <1> USE DEF ChainTypeOK, ClearNode
  <1>1. Chain' = Chain
    <2>1. \A m \in Reachable(head, next) : next'[m] = next[m] BY ChainReachable, ChainClosed
    <2>2. next' \in [Nodes -> Nodes \cup {Null}] OBVIOUS
    <2> QED BY <2>1, <2>2, ReachableSame, ChainReachable
  <1>2. \A m \in Chain : next'[m] = next[m] /\ (next[m] # Null => previous'[next[m]] = previous[next[m]])
    BY ChainClosed
  <1>3. Linked' BY <1>1, <1>2 DEF Linked
  <1> QED BY <1>1, <1>3

LEMMA ClearFieldsList ==
  ASSUME HubTypeOK, ListInv, NEW s \in Sessions, ClearFields(s)
  PROVE  ListInv' /\ Chain' = Chain
  <1> USE DEF HubTypeOK, SessionTypeOK, ClearFields, Goto, Forget, watchVars
  <1>1. node[s] \in Nodes /\ node[s] \notin Chain BY DEF ListInv, NodesOwned, WithNode
  <1>2. Chain' = Chain /\ Linked' BY <1>1, ClearKeeps DEF ListInv
  <1>3. \A t \in Sessions \ {s} : pc[t] \in WithNode => node[t] # node[s]
    BY DEF ListInv, NodesOwned, WithNode
  <1>4. NodesOwned'
    BY <1>2, <1>3 DEF ListInv, NodesOwned, WithNode, ClearNode, ChainTypeOK
  <1>5. PoolOwned'
    <2>1. ASSUME NEW n \in Nodes, pooled'[n] > 0, ~Disposing(n)' PROVE next'[n] = Null
      <3>1. CASE n = node[s] BY <3>1 DEF ClearNode, ChainTypeOK
      <3>2. CASE n # node[s]
        <4>1. ~Disposing(n) BY <2>1, <3>2 DEF Disposing
        <4> QED BY <4>1, <2>1, <3>2 DEF ListInv, PoolOwned, ClearNode, ChainTypeOK
      <3> QED BY <3>1, <3>2
    <2>2. \A t \in Sessions : pc'[t] \in WithNode /\ pooled'[node'[t]] > 0 => pc'[t] = "clear"
      BY DEF ListInv, PoolOwned, WithNode
    <2> QED BY <1>2, <2>1, <2>2 DEF ListInv, PoolOwned
  <1> QED BY <1>2, <1>4, <1>5 DEF ListInv

LEMMA WatchdogDisposeList ==
  ASSUME HubTypeOK, ListInv, NEW w \in 1..MaxStalls, WatchdogDispose(w)
  PROVE  ListInv' /\ Chain' = Chain
  <1> USE DEF HubTypeOK, SessionTypeOK, sessionVars
  <1> DEFINE n == watchdog[w].node
  <1>1. CASE watchdog[w].stage = "dispose" /\ ~bound[n]
    <2>1. /\ UNCHANGED <<head, next, previous, pooled, pc, node>>
          /\ watchdog' = [watchdog EXCEPT ![w] = NoWatch]
      BY <1>1 DEF WatchdogDispose, WatchEnds
    <2>2. \A v \in 1..MaxStalls : watchdog[v].stage = "clear" \/ watchdog'[v].stage \in Disposal =>
             watchdog'[v] = watchdog[v]
      BY <1>1, <2>1 DEF WatchTypeOK, NoWatch, Watch, Disposal
    <2>3. ListInv' BY <2>1, <2>2, ListKept
    <2> QED BY <2>1, <2>3 DEF Chain
  <1>2. CASE watchdog[w].stage = "dispose" /\ bound[n]
    <2>1. /\ UNCHANGED <<head, next, previous, pc, node>> /\ pooled' = [pooled EXCEPT ![n] = @ + 1]
          /\ watchdog' = [watchdog EXCEPT ![w].stage = "clear"]
      BY <1>2 DEF WatchdogDispose, WatchGoto, PoolNode
    <2>2. Chain' = Chain BY <2>1 DEF Chain
    <2>3. n \in Nodes /\ n \notin Chain /\ pooled[n] = 0
      BY <1>2 DEF ListInv, NodesOwned, PoolOwned, Disposal, ChainTypeOK, WatchTypeOK
    <2>4. /\ \A v \in 1..MaxStalls : watchdog'[v].node = watchdog[v].node
          /\ \A v \in 1..MaxStalls : v # w => watchdog'[v].stage = watchdog[v].stage
          /\ watchdog'[w].stage = "clear"
      BY <2>1 DEF WatchTypeOK, WatchRecords
    <2>5. Linked' BY <2>1, <2>2 DEF ListInv, Linked
    <2>6. NodesOwned' BY <1>2, <2>1, <2>2, <2>4 DEF ListInv, NodesOwned, Disposal
    <2>7. PoolOwned'
      <3>1. \A k \in Nodes : pooled'[k] <= 1 /\ (pooled'[k] > 0 => k \notin Chain)
        BY <2>1, <2>3 DEF ListInv, PoolOwned, ChainTypeOK
      <3>2. \A t \in Sessions : pc'[t] \in WithNode /\ pooled'[node'[t]] > 0 => pc'[t] = "clear"
        BY <1>2, <2>1 DEF ListInv, NodesOwned, PoolOwned, ChainTypeOK, Disposal
      <3>3. \A v \in 1..MaxStalls : v # w /\ watchdog[v].stage \in Disposal => watchdog[v].node # n
        BY <1>2 DEF ListInv, NodesOwned, Disposal
      <3>4. \A v \in 1..MaxStalls :
               watchdog'[v].stage \in Disposal /\ pooled'[watchdog'[v].node] > 0 => watchdog'[v].stage = "clear"
        BY <2>1, <2>4, <3>3 DEF ListInv, PoolOwned, ChainTypeOK, WatchTypeOK, Disposal
      <3>5. ASSUME NEW k \in Nodes, pooled'[k] > 0, ~Disposing(k)' PROVE next'[k] = Null
        <4>1. k # n /\ ~Disposing(k) BY <3>5, <1>2, <2>1, <2>4 DEF Disposing
        <4> QED BY <4>1, <3>5, <2>1 DEF ListInv, PoolOwned, ChainTypeOK
      <3> QED BY <2>2, <3>1, <3>2, <3>4, <3>5 DEF PoolOwned
    <2> QED BY <2>2, <2>5, <2>6, <2>7 DEF ListInv
  <1>3. CASE watchdog[w].stage = "clear"
    <2>1. /\ UNCHANGED <<head, pooled, pc, node>> /\ ClearNode(n)
          /\ watchdog' = [watchdog EXCEPT ![w].stage = "kill"]
      BY <1>3 DEF WatchdogDispose, WatchGoto
    <2>2. n \in Nodes /\ n \notin Chain
      BY <1>3 DEF ListInv, NodesOwned, Disposal, WatchTypeOK
    <2>3. Chain' = Chain /\ Linked' BY <2>1, <2>2, ClearKeeps DEF ListInv
    <2>4. /\ \A v \in 1..MaxStalls : watchdog'[v].node = watchdog[v].node
          /\ \A v \in 1..MaxStalls : v # w => watchdog'[v].stage = watchdog[v].stage
          /\ watchdog'[w].stage = "kill"
      BY <2>1 DEF WatchTypeOK, WatchRecords
    <2>5. \A k \in Nodes : k # n => next'[k] = next[k] BY <2>1 DEF ClearNode, ChainTypeOK
    <2>6. next'[n] = Null BY <2>1, <2>2 DEF ClearNode, ChainTypeOK
    <2>7. NodesOwned'
      BY <2>1, <2>3, <2>4, <2>5, <2>6 DEF ListInv, NodesOwned, Disposal, WithNode
    <2>8. PoolOwned'
      <3>1. ASSUME NEW k \in Nodes, pooled'[k] > 0, ~Disposing(k)' PROVE next'[k] = Null
        <4>1. CASE k = n BY <4>1, <2>6
        <4>2. CASE k # n
          <5>1. ~Disposing(k) BY <4>2, <3>1, <2>1, <2>4 DEF Disposing
          <5> QED BY <5>1, <4>2, <3>1, <2>1, <2>5 DEF ListInv, PoolOwned
        <4> QED BY <4>1, <4>2
      <3> QED BY <3>1, <2>1, <2>3, <2>4 DEF ListInv, PoolOwned, Disposal
    <2> QED BY <2>3, <2>7, <2>8 DEF ListInv
  <1> QED BY <1>1, <1>2, <1>3 DEF WatchdogDispose

\* A node rented from the pool, not in the middle of Dispose, belongs to nobody else.
LEMMA RentNodeList ==
  ASSUME HubTypeOK, ListInv, NEW s \in Sessions, RentNode(s), ~misused'
  PROVE  ListInv' /\ Chain' = Chain
  <1> USE DEF HubTypeOK, SessionTypeOK
  <1>1. PICK n \in Nodes : /\ pooled[n] > 0 /\ pooled' = [pooled EXCEPT ![n] = @ - 1]
                           /\ node' = [node EXCEPT ![s] = n] /\ ~Disposing(n)
                           /\ watchdog' = [TryReset(n) EXCEPT ![stalls'] = Watch("start", n, held[s])]
    BY DEF RentNode, Get
  <1>2. /\ pc[s] = "rent" /\ pc' = [pc EXCEPT ![s] = "link"] /\ UNCHANGED <<head, next, previous>>
        /\ stalls < MaxStalls /\ stalls' = stalls + 1
    BY DEF RentNode, Goto
  <1>3. Chain' = Chain BY <1>2 DEF Chain
  <1>4. n \notin Chain /\ next[n] = Null /\ pooled'[n] = 0
    BY <1>1 DEF ListInv, PoolOwned, ChainTypeOK
  <1>5. \A t \in Sessions : pc[t] \in WithNode => node[t] # n
    BY <1>1 DEF ListInv, PoolOwned, Disposing
  <1>6. \A v \in 1..MaxStalls : watchdog[v].stage \in Disposal => watchdog[v].node # n
    BY <1>1 DEF ListInv, PoolOwned, Disposing
  <1>7. /\ \A v \in 1..MaxStalls : watchdog'[v].stage \in Disposal =>
              watchdog[v].stage = watchdog'[v].stage /\ watchdog[v].node = watchdog'[v].node
        /\ \A v \in 1..MaxStalls : watchdog[v].stage = "clear" =>
              watchdog'[v].stage = "clear" /\ watchdog[v].node = watchdog'[v].node
    <2>1. ASSUME NEW v \in 1..MaxStalls, v # stalls'
          PROVE  /\ watchdog'[v].node = watchdog[v].node
                 /\ \/ watchdog'[v].stage = watchdog[v].stage
                    \/ watchdog[v].stage = "delay" /\ watchdog'[v].stage = "unregistered"
      <3>1. watchdog'[v] = TryReset(n)[v] BY <1>1, <2>1 DEF TryReset
      <3>2. watchdog[v] \in WatchRecords BY DEF WatchTypeOK
      <3> QED BY <3>1, <3>2 DEF TryReset, WatchRecords
    <2>2. stalls' \in 1..MaxStalls /\ watchdog[stalls'].stage = "none"
      BY <1>2, HubAssumption DEF WatchTypeOK
    <2>3. watchdog'[stalls'].stage = "start" BY <1>1, <2>2 DEF TryReset, Watch
    <2> QED BY <2>1, <2>2, <2>3 DEF Disposal
  <1> HIDE DEF TryReset
  <1>8. Linked' BY <1>2, <1>3 DEF ListInv, Linked
  <1>9. NodesOwned'
    <2>1. \A t \in Sessions : pc'[t] \in WithNode => node'[t] \notin Chain
      BY <1>1, <1>2, <1>4 DEF ListInv, NodesOwned
    <2>2. \A t, u \in Sessions :
             t # u /\ pc'[t] \in WithNode /\ pc'[u] \in WithNode => node'[t] # node'[u]
      BY <1>1, <1>2, <1>5 DEF ListInv, NodesOwned
    <2>3. \A v \in 1..MaxStalls : watchdog'[v].stage \in Disposal =>
             /\ watchdog'[v].node \notin Chain
             /\ \A t \in Sessions : pc'[t] \in WithNode => node'[t] # watchdog'[v].node
             /\ \A u \in 1..MaxStalls :
                   u # v /\ watchdog'[u].stage \in Disposal => watchdog'[u].node # watchdog'[v].node
      BY <1>1, <1>2, <1>6, <1>7 DEF ListInv, NodesOwned
    <2>4. \A t \in Sessions : pc'[t] = "link" => next'[node'[t]] = Null
      BY <1>1, <1>2, <1>4 DEF ListInv, NodesOwned
    <2> QED BY <1>3, <2>1, <2>2, <2>3, <2>4 DEF NodesOwned
  <1>10. PoolOwned'
    <2>1. \A k \in Nodes : pooled'[k] <= 1 /\ (pooled'[k] > 0 => pooled[k] > 0 /\ k # n)
      BY <1>1, <1>4 DEF ListInv, PoolOwned, ChainTypeOK
    <2>2. \A t \in Sessions : pc'[t] \in WithNode /\ pooled'[node'[t]] > 0 => pc'[t] = "clear"
      BY <1>1, <1>2, <2>1 DEF ListInv, PoolOwned, WithNode
    <2>3. \A v \in 1..MaxStalls :
             watchdog'[v].stage \in Disposal /\ pooled'[watchdog'[v].node] > 0 => watchdog'[v].stage = "clear"
      <3> TAKE v \in 1..MaxStalls
      <3>1. watchdog[v].stage \in Disposal => watchdog[v].node \in Nodes BY DEF WatchTypeOK, Disposal
      <3> QED BY <1>7, <2>1, <3>1 DEF ListInv, PoolOwned
    <2>4. ASSUME NEW k \in Nodes, pooled'[k] > 0, ~Disposing(k)' PROVE next'[k] = Null
      <3>1. ~Disposing(k) BY <2>4, <1>1, <1>2, <1>7 DEF Disposing
      <3> QED BY <3>1, <2>1, <2>4, <1>2 DEF ListInv, PoolOwned
    <2> QED BY <1>3, <2>1, <2>2, <2>3, <2>4 DEF ListInv, PoolOwned
  <1> QED BY <1>3, <1>8, <1>9, <1>10 DEF ListInv

LEMMA LinkList ==
  ASSUME HubTypeOK, ListInv, NEW s \in Sessions, Link(s)
  PROVE  ListInv' /\ Chain' = Chain \cup {node[s]}
  <1> USE DEF HubTypeOK, SessionTypeOK
  <1> DEFINE n == node[s]
  <1>0. Null \notin Nodes BY HubAssumption
  <1>1. /\ pc[s] = "link" /\ pc' = [pc EXCEPT ![s] = "idle"] /\ node' = [node EXCEPT ![s] = Null]
        /\ UNCHANGED <<pooled, watchdog>>
    BY DEF Link, Goto, Forget, watchVars
  <1>2. n \in Nodes /\ n \notin Chain /\ next[n] = Null /\ pooled[n] = 0
    BY <1>1 DEF ListInv, NodesOwned, PoolOwned, WithNode, ChainTypeOK
  <1>3. Chain \subseteq Nodes /\ head \in Chain \cup {Null} /\ \A m \in Chain : next[m] \in Chain \cup {Null}
    BY ChainClosed
  <1>4. /\ Chain' = Chain \cup {n} /\ Linked'
        /\ \A m \in Nodes \ Chain : next'[m] = next[m]
    <2>1. CASE head = Null
      <3>1. head' = n /\ UNCHANGED <<next, previous>> BY <2>1 DEF Link
      <3>2. Chain = {} BY <2>1, ReachableNull, ChainReachable
      <3>3. Chain' = {n} BY <1>2, <3>1, ReachableOne, ChainReachable DEF ChainTypeOK
      <3> QED BY <1>2, <3>1, <3>2, <3>3 DEF Linked
    <2>2. CASE head # Null
      <3> DEFINE l == LastNode
      <3>1. l \in Chain /\ next[l] = Null BY <2>2 DEF Link, LastNode
      <3>2. /\ next' = [next EXCEPT ![l] = n] /\ previous' = [previous EXCEPT ![n] = l] /\ UNCHANGED head
        BY <2>2 DEF Link
      <3> HIDE DEF l
      <3>3. next'[l] = n /\ next'[n] = Null /\ \A m \in Nodes : m # l => next'[m] = next[m]
        BY <1>2, <1>3, <3>1, <3>2 DEF ChainTypeOK
      <3>4. Chain' = Chain \cup {n}
        <4>1. head \in Nodes BY <2>2, <1>3
        <4>2. next \in [Nodes -> Nodes \cup {Null}] /\ next' \in [Nodes -> Nodes \cup {Null}]
          BY <1>2, <3>2 DEF ChainTypeOK
        <4>3. l \in Reachable(head, next) /\ n \notin Reachable(head, next)
          BY <1>2, <3>1, ChainReachable
        <4> HIDE DEF n
        <4>4. Reachable(head, next') = Reachable(head, next) \cup {n}
          BY <1>2, <3>1, <3>3, <4>1, <4>2, <4>3, ReachableAppend
        <4> QED BY <3>2, <4>4, ChainReachable
      <3>5. ASSUME NEW m \in Chain', next'[m] # Null PROVE previous'[next'[m]] = m /\ next'[m] # head'
        <4>1. CASE m = l BY <4>1, <1>2, <1>3, <2>2, <3>2, <3>3 DEF ChainTypeOK
        <4>2. CASE m # l
          <5>1. m \in Chain /\ next'[m] = next[m] /\ next[m] \in Chain BY <4>2, <3>4, <3>3, <3>5, <1>3
          <5>2. previous'[next[m]] = previous[next[m]] BY <5>1, <1>2, <3>2 DEF ChainTypeOK
          <5> QED BY <5>1, <5>2, <3>2, <3>5 DEF ListInv, Linked
        <4> QED BY <4>1, <4>2
      <3>6. Linked' BY <3>4, <3>3, <3>5 DEF Linked
      <3> QED BY <3>1, <3>4, <3>3, <3>6
    <2> QED BY <2>1, <2>2
  <1>5. \A t \in Sessions \ {s} : pc[t] \in WithNode => node[t] # n
    BY <1>1 DEF ListInv, NodesOwned, WithNode
  <1>6. \A v \in 1..MaxStalls : watchdog[v].stage \in Disposal => watchdog[v].node # n
    BY <1>1 DEF ListInv, NodesOwned, WithNode
  <1>7. NodesOwned'
    BY <1>1, <1>4, <1>5, <1>6 DEF ListInv, NodesOwned, WithNode
  <1>8. PoolOwned'
    <2>1. \A k \in Nodes : Disposing(k)' <=> Disposing(k) BY <1>1 DEF Disposing
    <2>2. \A t \in Sessions : pc'[t] \in WithNode /\ pooled'[node'[t]] > 0 => pc'[t] = "clear"
      BY <1>1 DEF ListInv, PoolOwned, WithNode
    <2>3. \A k \in Nodes : pooled[k] > 0 => k # n /\ k \notin Chain BY <1>2 DEF ListInv, PoolOwned
    <2> QED BY <1>1, <1>4, <2>1, <2>2, <2>3 DEF ListInv, PoolOwned
  <1> QED BY <1>4, <1>7, <1>8 DEF ListInv

\* A watchdog whose node is in the chain takes it out; when it is not, the node is misused.
LEMMA RemoveFromChainList ==
  ASSUME HubTypeOK, ListInv, NEW w \in 1..MaxStalls, RemoveFromChain(w), ~misused'
  PROVE  ListInv' /\ Chain' \subseteq Chain
  <1> USE DEF HubTypeOK, SessionTypeOK
  <1> DEFINE n == watchdog[w].node
             faults == RemoveFaults(n)
  <1>0. /\ Null \notin Nodes /\ watchdog[w].stage = "elapsed"
        /\ UNCHANGED <<pc, node, pooled>>
    BY HubAssumption DEF RemoveFromChain, sessionVars
  <1>1. CASE faults
    <2>1. UNCHANGED <<head, next, previous>> /\ watchdog' = [watchdog EXCEPT ![w] = NoWatch]
      BY <1>1 DEF RemoveFromChain, WatchEnds
    <2>2. \A v \in 1..MaxStalls : watchdog[v].stage = "clear" \/ watchdog'[v].stage \in Disposal =>
             watchdog'[v] = watchdog[v]
      BY <1>0, <2>1 DEF WatchTypeOK, NoWatch, Watch, Disposal
    <2>3. ListInv' BY <1>0, <2>1, <2>2, ListKept
    <2> QED BY <2>1, <2>3 DEF Chain
  <1>2. CASE ~faults
    <2>1. n \in Chain /\ watchdog' = [watchdog EXCEPT ![w].stage = "dispose"]
      BY <1>2 DEF RemoveFromChain, WatchGoto
    <2>2. /\ Chain \subseteq Nodes /\ head \in Chain \cup {Null}
          /\ \A m \in Chain : next[m] \in Chain \cup {Null}
      BY ChainClosed
    <2>3. \A m \in Chain : next[m] # Null => previous[next[m]] = m /\ next[m] # head
      BY DEF ListInv, Linked
    <2>4. PICK l \in Chain : next[l] = Null 
      BY <2>1, ReachableNull, ChainReachable DEF ListInv, Linked
    <2>5. /\ Chain' = Chain \ {n} /\ Linked'
          /\ \A m \in Nodes \ Chain : next'[m] = next[m]
      <3>1. CASE n = head
        <4>1. head' = next[head] /\ UNCHANGED <<next, previous>> BY <1>2, <3>1 DEF RemoveFromChain
        <4>2. Chain' = Chain \ {n}
          <5>1. \A m \in Reachable(head, next) : next[m] # head BY <1>0, <2>1, <2>2, <2>3, <3>1, ChainReachable
          <5>2. Reachable(next[head], next) = Reachable(head, next) \ {head}
            BY <2>1, <2>2, <3>1, <5>1, ReachablePop DEF ChainTypeOK
          <5> QED BY <3>1, <4>1, <5>2, ChainReachable
        <4>3. ASSUME NEW m \in Chain', next'[m] # Null PROVE previous'[next'[m]] = m /\ next'[m] # head'
          BY <4>1, <4>2, <4>3, <2>1, <2>3, <3>1
        <4>4. head' # Null => l \in Chain' BY <2>4, <3>1, <4>1, <4>2
        <4> QED BY <4>1, <4>2, <4>3, <4>4, <2>4 DEF Linked
      <3>2. CASE n # head
        <4>1. PICK p \in Chain : next[p] = n /\ p # n
          BY <2>1, <3>2, ReachableBefore, ChainReachable DEF ChainTypeOK
        <4>2. previous[n] = p /\ n # Null /\ \A m \in Chain : next[m] = n => m = p
          BY <1>0, <2>1, <2>2, <2>3, <4>1
        <4>3. /\ next' = [next EXCEPT ![p] = next[n]] /\ UNCHANGED head
              /\ previous' = IF next[n] = Null THEN previous ELSE [previous EXCEPT ![next[n]] = p]
          BY <1>2, <3>2, <4>2 DEF RemoveFromChain
        <4>4. next'[p] = next[n] /\ \A m \in Nodes : m # p => next'[m] = next[m]
          BY <2>2, <4>1, <4>3 DEF ChainTypeOK
        <4>5. Chain' = Chain \ {n}
          <5>1. \A m \in Reachable(head, next) : next[m] = n => m = p BY <4>2, ChainReachable
          <5>2. /\ head \in Nodes \cup {Null} /\ next \in [Nodes -> Nodes \cup {Null}]
                /\ next' \in [Nodes -> Nodes \cup {Null}]
            BY <2>1, <2>2, <4>3 DEF ChainTypeOK
          <5>3. n \in Reachable(head, next) /\ p \in Reachable(head, next)
            BY <2>1, <4>1, ChainReachable
          <5>4. /\ n # head /\ next[p] = n /\ p # n
                /\ next'[p] = next[n] /\ \A m \in Nodes : m # p => next'[m] = next[m]
            BY <3>2, <4>1, <4>4
          <5>5. Reachable(head, next') = Reachable(head, next) \ {n}
            <6> HIDE DEF n, faults, HubTypeOK, SessionTypeOK
            <6>1. ASSUME NEW nx \in [Nodes -> Nodes \cup {Null}], NEW ny \in [Nodes -> Nodes \cup {Null}],
                         NEW h \in Nodes \cup {Null}, NEW q \in Reachable(h, nx), q # h,
                         NEW r \in Reachable(h, nx), nx[r] = q, r # q,
                         \A m \in Reachable(h, nx) : nx[m] = q => m = r,
                         ny[r] = nx[q], \A m \in Nodes : m # r => ny[m] = nx[m]
                  PROVE  Reachable(h, ny) = Reachable(h, nx) \ {q}
              BY <6>1, ReachableUnlink
            <6> QED BY <5>1, <5>2, <5>3, <5>4, <6>1
          <5> QED BY <4>3, <5>5, ChainReachable
        <4>6. ASSUME NEW m \in Chain', next'[m] # Null PROVE previous'[next'[m]] = m /\ next'[m] # head'
          <5>1. CASE m = p
            <6>1. next'[m] = next[n] /\ next[n] \in Nodes BY <4>4, <4>6, <5>1, <2>1, <2>2
            <6>2. previous'[next[n]] = p BY <6>1, <4>3, <1>0 DEF ChainTypeOK
            <6> QED BY <6>1, <6>2, <5>1, <4>3, <4>6, <2>1, <2>3
          <5>2. CASE m # p
            <6>1. m \in Chain /\ m # n /\ next'[m] = next[m] /\ next[m] \in Nodes
              BY <4>5, <4>4, <4>6, <5>2, <2>2
            <6>2. next[m] # next[n] BY <6>1, <4>6, <2>1, <2>3
            <6>3. previous'[next[m]] = previous[next[m]] BY <6>1, <6>2, <4>3 DEF ChainTypeOK
            <6> QED BY <6>1, <6>3, <4>3, <4>6, <2>3
          <5> QED BY <5>1, <5>2
        <4>7. \E m \in Chain' : next'[m] = Null
          <5>1. CASE l = n BY <5>1, <2>4, <4>1, <4>5, <4>4
          <5>2. CASE l # n BY <5>2, <2>2, <2>4, <4>1, <4>2, <4>5, <4>4
          <5> QED BY <5>1, <5>2
        <4> QED BY <4>1, <4>5, <4>4, <4>6, <4>7 DEF Linked
      <3> QED BY <3>1, <3>2
    <2>6. /\ \A v \in 1..MaxStalls : watchdog'[v].node = watchdog[v].node
          /\ \A v \in 1..MaxStalls : v # w => watchdog'[v].stage = watchdog[v].stage
          /\ watchdog'[w].stage = "dispose"
      BY <2>1 DEF WatchTypeOK, WatchRecords
    <2>7. NodesOwned'
      <3>1. \A t \in Sessions : pc[t] \in WithNode => node[t] \in Nodes \ Chain
        BY DEF ListInv, NodesOwned
      <3>2. \A v \in 1..MaxStalls : v # w /\ watchdog[v].stage \in Disposal => watchdog[v].node # n
        BY <2>1 DEF ListInv, NodesOwned
      <3>3. \A t \in Sessions : pc'[t] = "link" => next'[node'[t]] = Null
        BY <1>0, <2>5, <3>1 DEF ListInv, NodesOwned, WithNode
      <3> QED BY <1>0, <2>1, <2>5, <2>6, <3>1, <3>2, <3>3 DEF ListInv, NodesOwned
    <2>8. PoolOwned'
      <3>1. \A k \in Nodes : Disposing(k)' <=> Disposing(k) BY <1>0, <2>6 DEF Disposing
      <3>2. n \in Nodes /\ ~(pooled[n] > 0) BY <2>1, <2>2 DEF ListInv, PoolOwned
      <3> QED BY <1>0, <2>5, <2>6, <3>1, <3>2 DEF ListInv, PoolOwned
    <2> QED BY <2>5, <2>7, <2>8 DEF ListInv
  <1> QED BY <1>1, <1>2

LEMMA SessionList ==
  ASSUME HubTypeOK, ListInv, NEW s \in Sessions, SessionStep(s), ~misused'
  PROVE  ListInv'
  <1> USE DEF HubTypeOK, SessionTypeOK, WithNode, Goto, chainVars, watchVars
  <1>1. CASE GetHub(s) BY <1>1, ListKept DEF GetHub
  <1>2. CASE Use(s) BY <1>2, ListKept DEF Use
  <1>3. CASE Unuse(s) BY <1>3, ListKept DEF Unuse
  <1>4. CASE ExchangeFails(s) BY <1>4, ListKept DEF ExchangeFails
  <1>5. CASE FindHead(s) BY <1>5, ListKept DEF FindHead
  <1>6. CASE PopHead(s)
    <2>1. CASE head = Null BY <1>6, <2>1, ListKept DEF PopHead
    <2> QED BY <1>6, <2>1, PopHeadList
  <1>20. CASE ReadClient(s) BY <1>20, ListKept DEF ReadClient
  <1>21. CASE ReadLogger(s) BY <1>21, ListKept DEF ReadLogger, Forget
  <1>7. CASE CheckConnect(s) BY <1>7, ListKept DEF CheckConnect, Forget
  <1>8. CASE CancelWatchdog(s)
    <2>1. \A v \in 1..MaxStalls : watchdog[v].stage = "clear" \/ watchdog'[v].stage \in Disposal =>
             watchdog'[v] = watchdog[v]
      BY <1>8 DEF CancelWatchdog, WatchdogCanceled, WatchTypeOK, NoWatch, Watch, Disposal
    <2> QED BY <1>8, <2>1, ListKept DEF CancelWatchdog
  <1>9. CASE AddRevived(s) BY <1>9, ListKept DEF AddRevived, Forget
  <1>10. CASE DisposeNode(s)
    <2>1. CASE ~bound[node[s]] BY <1>10, <2>1, ListKept DEF DisposeNode, Forget
    <2> QED BY <1>10, <2>1, DisposeNodeList
  <1>11. CASE ClearFields(s) BY <1>11, ClearFieldsList
  <1>12. CASE Create(s) BY <1>12, ListKept DEF Create
  <1>13. CASE Connect(s) BY <1>13, ListKept DEF Connect
  <1>14. CASE ConnectFails(s) BY <1>14, ListKept DEF ConnectFails
  <1>15. CASE UpdateMonitor(s) BY <1>15, ListKept DEF UpdateMonitor
  <1>22. CASE ReturnActive(s) BY <1>22, ListKept DEF ReturnActive
  <1>16. CASE RemoveActive(s) BY <1>16, ListKept DEF RemoveActive
  <1>17. CASE CheckReturned(s) BY <1>17, ListKept DEF CheckReturned
  <1>18. CASE RentNode(s) BY <1>18, RentNodeList
  <1>19. CASE Link(s) BY <1>19, LinkList
  <1> QED BY <1>1, <1>2, <1>3, <1>4, <1>5, <1>6, <1>7, <1>8, <1>9, <1>10, <1>11, <1>12, <1>13, <1>14, <1>15, <1>16, <1>17, <1>18, <1>19, <1>20, <1>21, <1>22 DEF SessionStep

LEMMA WatchList ==
  ASSUME HubTypeOK, ListInv, NEW w \in 1..MaxStalls, WatchdogStep(w), ~misused'
  PROVE  ListInv' /\ Chain' \subseteq Chain
  <1> USE DEF HubTypeOK, chainVars, sessionVars
  <1>1. CASE RemoveFromChain(w) BY <1>1, RemoveFromChainList
  <1>2. CASE WatchdogDispose(w) BY <1>2, WatchdogDisposeList
  <1>3. CASE StartWatchdog(w) \/ Elapse(w) \/ WatchdogKill(w)
    <2>1. /\ UNCHANGED <<head, next, previous, pooled, pc, node>>
          /\ watchdog[w].stage \in {"start", "delay", "unregistered", "kill"}
          /\ WatchEnds(w) \/ WatchGoto(w, "delay") \/ WatchGoto(w, "elapsed")
      BY <1>3 DEF StartWatchdog, Elapse, WatchdogKill
    <2>2. \A v \in 1..MaxStalls : watchdog[v].stage = "clear" \/ watchdog'[v].stage \in Disposal =>
             watchdog'[v] = watchdog[v]
      <3> TAKE v \in 1..MaxStalls
      <3>1. CASE v # w BY <2>1, <3>1 DEF WatchEnds, WatchGoto, WatchTypeOK
      <3>2. CASE v = w
        <4>1. watchdog'[w].stage \in {"none", "delay", "elapsed"}
          <5>1. watchdog \in [1..MaxStalls -> WatchRecords] BY DEF WatchTypeOK
          <5>2. CASE WatchEnds(w) BY <5>1, <5>2 DEF WatchEnds, NoWatch, Watch
          <5>3. CASE WatchGoto(w, "delay") BY <5>1, <5>3 DEF WatchGoto, WatchRecords
          <5>4. CASE WatchGoto(w, "elapsed") BY <5>1, <5>4 DEF WatchGoto, WatchRecords
          <5> QED BY <2>1, <5>2, <5>3, <5>4
        <4> QED BY <2>1, <3>2, <4>1 DEF Disposal
      <3> QED BY <3>1, <3>2
    <2>3. ListInv' BY <2>1, <2>2, ListKept
    <2> QED BY <2>1, <2>3 DEF Chain
  <1> QED BY <1>1, <1>2, <1>3 DEF WatchdogStep

-----------------------------------------------------------------------------
(* The connections and who has them *)

LEMMA ShelfKept ==
  ASSUME Chain' \subseteq Chain,
         \A t \in Sessions : pc'[t] \in Popped => pc[t] \in Popped /\ node'[t] = node[t]
  PROVE  Shelf' \subseteq Shelf
  BY DEF Shelf

\* A connection may be killed by a step after which nobody has it.
LEMMA UseKept ==
  ASSUME UseInv, HubTypeOK, HubTypeOK', timedOut \subseteq timedOut',
         Shelf' \subseteq Shelf, \A m \in Shelf' : client'[m] = client[m],
         \A t \in Sessions : held'[t] \in {held[t], Null},
         \A c \in Clean' : Killed(c)' /\ ~Killed(c) =>
             (\A t \in Sessions : held'[t] # c) /\ (\A m \in Shelf' : client[m] # c),
         \A c \in Clean' : killing'[c] <= 1 /\ (c \in disposed' => killing'[c] = 0),
         FoundHeld'
  PROVE  UseInv'
  <1> USE DEF UseInv, Clean
  <1>0. Null \notin Clients BY HubAssumption
  <1>1. HeldOnce' BY <1>0 DEF HeldOnce
  <1>2. ShelvedOnce' BY <1>0 DEF ShelvedOnce
  <1>3. \A c \in Clean' : Killed(c)' => Free(c)' BY <1>0 DEF KilledFree, Free
  <1>4. KilledFree' BY <1>3 DEF KilledFree
  <1> QED BY <1>1, <1>2, <1>4

\* The steps of a session that neither come by a connection nor kill one.
Quiet(s) ==
    \/ GetHub(s) \/ Use(s) \/ Unuse(s) \/ ExchangeFails(s) \/ FindHead(s) \/ ReadClient(s)
    \/ ReadLogger(s) \/ CancelWatchdog(s) \/ AddRevived(s) \/ DisposeNode(s) \/ ClearFields(s)
    \/ Connect(s) \/ UpdateMonitor(s) \/ ReturnActive(s) \/ RemoveActive(s) \/ RentNode(s)

LEMMA QuietUse ==
  ASSUME HubTypeOK, HubTypeOK', ListInv, UseInv, NEW s \in Sessions, Quiet(s), ~misused'
  PROVE  UseInv'
  <1> USE DEF Quiet, chainVars, connVars, objectVars, killVars, watchVars
  <1>1. UNCHANGED <<killing, disposed, timedOut>>
    BY DEF GetHub, Use, Unuse, ExchangeFails, FindHead, ReadClient, ReadLogger, CancelWatchdog, AddRevived,
           DisposeNode, ClearFields, Connect, UpdateMonitor, ReturnActive, RemoveActive, RentNode
  <1>2. held' = held
    <2>1. CASE ClearFields(s)
      <3>1. found[s] = held[s] BY <2>1 DEF ClearFields, UseInv, FoundHeld
      <3> QED BY <2>1, <3>1 DEF ClearFields, HubTypeOK, SessionTypeOK
    <2> QED BY <2>1
        DEF GetHub, Use, Unuse, ExchangeFails, FindHead, ReadClient, ReadLogger, CancelWatchdog, AddRevived,
            DisposeNode, Connect, UpdateMonitor, ReturnActive, RemoveActive, RentNode
  <1>3. /\ \E l \in SessionStates : Goto(s, l)
        /\ \/ node' = node \/ \E n : node' = [node EXCEPT ![s] = n]
        /\ \/ found' = found \/ \E c : found' = [found EXCEPT ![s] = c]
    BY DEF GetHub, Use, Unuse, ExchangeFails, FindHead, ReadClient, ReadLogger, CancelWatchdog, AddRevived,
           DisposeNode, ClearFields, Connect, UpdateMonitor, ReturnActive, RemoveActive, RentNode,
           SessionStates, Forget
  <1>4. \A t \in Sessions : t # s => node'[t] = node[t] /\ pc'[t] = pc[t] /\ found'[t] = found[t]
    BY <1>3 DEF Goto, HubTypeOK, SessionTypeOK
  <1>5. \/ pc'[s] \notin Popped \cup {"cancel", "add", "dispose", "clear"}
        \/ ReadClient(s) /\ pc'[s] = "logger" /\ pc[s] = "read" /\ found'[s] = client[node[s]]
        \/ ReadLogger(s) /\ pc'[s] = "revive" /\ pc[s] = "logger" /\ found' = found
        \/ /\ pc'[s] \in {"add", "dispose", "clear"} /\ pc[s] \in {"cancel", "add", "dispose"}
           /\ found' = found
    BY DEF GetHub, Use, Unuse, ExchangeFails, FindHead, ReadClient, ReadLogger, CancelWatchdog, AddRevived,
           DisposeNode, ClearFields, Connect, UpdateMonitor, ReturnActive, RemoveActive, RentNode,
           Popped, Goto, HubTypeOK, SessionTypeOK
  <1>6. pc'[s] \in Popped => pc[s] \in Popped /\ UNCHANGED <<client, node>>
    BY <1>5 DEF Popped, ReadClient, ReadLogger, Goto, HubTypeOK, SessionTypeOK
  <1>7. /\ Chain' = Chain /\ \A m \in Nodes : client'[m] = client[m] \/ (pc[s] = "clear" /\ m = node[s])
    <2>1. CASE ClearFields(s)
      BY <2>1, ClearFieldsList DEF ClearFields, ClearNode, HubTypeOK, ChainTypeOK
    <2>2. CASE RentNode(s) BY <2>2, RentNodeList DEF RentNode
    <2>3. CASE UNCHANGED <<head, next, client>> BY <2>3 DEF Chain
    <2> QED BY <2>1, <2>2, <2>3
        DEF GetHub, Use, Unuse, ExchangeFails, FindHead, ReadClient, ReadLogger, CancelWatchdog, AddRevived,
            DisposeNode, Connect, UpdateMonitor, ReturnActive, RemoveActive
  <1>8. Shelf' \subseteq Shelf BY <1>4, <1>6, <1>7, ShelfKept
  <1>9. \A m \in Shelf' : client'[m] = client[m]
    <2>1. pc[s] = "clear" => node[s] \notin Shelf
      <3>1. pc[s] = "clear" => node[s] \notin Chain BY DEF ListInv, NodesOwned, WithNode
      <3>2. \A t \in Sessions : pc[s] = "clear" /\ pc[t] \in Popped => node[t] # node[s]
        BY DEF ListInv, NodesOwned, WithNode, Popped
      <3> QED BY <3>1, <3>2 DEF Shelf
    <2>2. Shelf \subseteq Nodes
      BY ChainClosed DEF HubTypeOK, SessionTypeOK, Shelf, WithNode, Popped
    <2> QED BY <1>7, <1>8, <2>1, <2>2
  <1>10. \A c \in Clients : Killed(c)' <=> Killed(c) BY <1>1 DEF Killed
  <1>11. FoundHeld'
    <2>1. ASSUME NEW t \in Sessions, t # s
          PROVE  /\ pc'[t] \in {"logger", "revive"} => found'[t] = client'[node'[t]]
                 /\ pc'[t] \in {"cancel", "add", "dispose", "clear"} => found'[t] = held'[t]
      <3>1. pc'[t] \in {"logger", "revive"} => node'[t] \in Shelf' BY <2>1 DEF Shelf, Popped
      <3> QED BY <3>1, <2>1, <1>2, <1>4, <1>9 DEF UseInv, FoundHeld
    <2>2. /\ pc'[s] \in {"logger", "revive"} => found'[s] = client'[node'[s]]
          /\ pc'[s] \in {"cancel", "add", "dispose", "clear"} => found'[s] = held'[s]
      BY <1>2, <1>5, <1>6 DEF UseInv, FoundHeld, Popped
    <2> QED BY <2>1, <2>2 DEF FoundHeld
  <1>12. \A c \in Clean' : killing'[c] <= 1 /\ (c \in disposed' => killing'[c] = 0)
    BY <1>1 DEF UseInv, KilledFree, Clean
  <1> QED BY <1>1, <1>2, <1>8, <1>9, <1>10, <1>11, <1>12, UseKept DEF Clean

LEMMA PopHeadUse ==
  ASSUME HubTypeOK, HubTypeOK', ListInv, UseInv, NEW s \in Sessions, PopHead(s)
  PROVE  UseInv'
  <1> USE DEF connVars, objectVars, killVars, watchVars, HubTypeOK, SessionTypeOK, Goto
  <1>1. UNCHANGED <<held, found, killing, disposed, timedOut, client>>
    BY DEF PopHead, chainVars
  <1>2. /\ pc[s] = "pop" /\ pc'[s] \in {"read", "faulted"}
        /\ \A t \in Sessions : t # s => node'[t] = node[t] /\ pc'[t] = pc[t]
    BY DEF PopHead
  <1>3. Shelf' \subseteq Shelf
    <2>1. CASE head = Null
      <3>1. Chain' = Chain /\ pc'[s] = "faulted" BY <2>1 DEF PopHead, Chain, chainVars
      <3> QED BY <1>2, <3>1, ShelfKept DEF Popped
    <2>2. CASE head # Null
      <3>1. Chain' = Chain \ {head} /\ node'[s] = head BY <2>2, PopHeadList DEF PopHead
      <3>2. head \in Chain BY <2>2, ChainClosed
      <3> QED BY <1>2, <3>1, <3>2 DEF Shelf
    <2> QED BY <2>1, <2>2
  <1>4. \A c \in Clients : Killed(c)' <=> Killed(c) BY <1>1 DEF Killed
  <1>5. FoundHeld' BY <1>1, <1>2 DEF UseInv, FoundHeld
  <1>6. \A c \in Clean' : killing'[c] <= 1 /\ (c \in disposed' => killing'[c] = 0)
    BY <1>1 DEF UseInv, KilledFree, Clean
  <1> QED BY <1>1, <1>3, <1>4, <1>5, <1>6, UseKept DEF Clean

\* CheckConnect finds a connection that is not disposed; Kill adds one call at most.
LEMMA FoundFacts ==
  ASSUME ConnTypeOK, NEW c \in Clients
  PROVE  /\ FoundUp(c) => c \notin disposed /\ conn' = conn
         /\ FoundDown(c) => c \notin disposed
         /\ Kill(c) => /\ \A d \in Clients : d # c => killing'[d] = killing[d]
                       /\ killing'[c] \in {killing[c], killing[c] + 1}
  BY DEF ConnTypeOK, FoundUp, FoundDown, CheckThrows, Kill

\* A session that has a clean connection has it alone, and it is not killed.
LEMMA HeldAlone ==
  ASSUME HubTypeOK, UseInv, NEW s \in Sessions, held[s] \in Clean
  PROVE  /\ \A t \in Sessions : t # s => held[t] # held[s]
         /\ \A m \in Shelf : client[m] # held[s]
         /\ held[s] \in Clients /\ held[s] \notin disposed /\ killing[held[s]] = 0
  <1>1. \A t \in Sessions : t # s => held[t] # held[s] BY DEF UseInv, HeldOnce
  <1>2. \A m \in Shelf : client[m] # held[s] BY DEF UseInv, ShelvedOnce
  <1>3. held[s] \in Clients BY DEF Clean
  <1>4. ~Killed(held[s]) BY DEF UseInv, KilledFree, Free
  <1> QED BY <1>1, <1>2, <1>3, <1>4 DEF Killed, HubTypeOK, ConnTypeOK

\* A session that fails to open its connection disposes of it.
LEMMA ConnectFailsUse ==
  ASSUME HubTypeOK, HubTypeOK', ListInv, UseInv, NEW s \in Sessions, ConnectFails(s)
  PROVE  UseInv'
  <1> USE DEF watchVars, HubTypeOK, SessionTypeOK, Goto
  <1>1. /\ UNCHANGED <<killing, timedOut, client, node, found>> /\ Chain' = Chain
        /\ pc[s] = "connect" /\ pc'[s] = "faulted" /\ held'[s] = Null /\ held[s] \in Clients
        /\ \A t \in Sessions : t # s => held'[t] = held[t] /\ pc'[t] = pc[t]
        /\ disposed' = disposed \cup {held[s]}
    BY DEF ConnectFails, DisposeSocket, chainVars, Chain, WithClient
  <1>2. Shelf' \subseteq Shelf BY <1>1, ShelfKept DEF Popped
  <1>3. ASSUME NEW c \in Clean', Killed(c)', ~Killed(c)
        PROVE  (\A t \in Sessions : held'[t] # c) /\ (\A m \in Shelf' : client[m] # c)
    <2>1. c = held[s] /\ c \in Clean BY <1>1, <1>3 DEF Killed, Clean
    <2> QED BY <1>1, <1>2, <2>1, HeldAlone, HubAssumption
  <1>4. ASSUME NEW c \in Clean' PROVE killing'[c] <= 1 /\ (c \in disposed' => killing'[c] = 0)
    <2>1. c \in Clean BY <1>1 DEF Clean
    <2>2. CASE c = held[s] BY <2>1, <2>2, <1>1, HeldAlone
    <2>3. CASE c # held[s] BY <2>1, <2>3, <1>1 DEF UseInv, KilledFree
    <2> QED BY <2>2, <2>3
  <1>5. FoundHeld' BY <1>1 DEF UseInv, FoundHeld
  <1>6. \A t \in Sessions : held'[t] \in {held[t], Null} BY <1>1
  <1> QED BY <1>1, <1>2, <1>3, <1>4, <1>5, <1>6, UseKept

\* A connection that its session or its node gave up may be killed.
LEMMA KillFacts ==
  ASSUME HubTypeOK, UseInv, NEW c \in Clients, c \notin disposed, Kill(c), UNCHANGED <<disposed, timedOut>>,
         c \in Clean => killing[c] = 0
  PROVE  \A d \in Clean' : /\ killing'[d] <= 1 /\ (d \in disposed' => killing'[d] = 0)
                           /\ Killed(d)' /\ ~Killed(d) => d = c
  <1> TAKE d \in Clean'
  <1>1. d \in Clean /\ d \in Clients BY DEF Clean
  <1>2. killing[d] \in Nat /\ killing[d] <= 1 /\ (d \in disposed => killing[d] = 0)
    BY <1>1 DEF HubTypeOK, ConnTypeOK, UseInv, KilledFree
  <1>3. CASE d = c BY <1>1, <1>2, <1>3, FoundFacts DEF HubTypeOK
  <1>4. CASE d # c BY <1>1, <1>2, <1>4, FoundFacts DEF HubTypeOK, Killed
  <1> QED BY <1>3, <1>4

LEMMA CheckReturnedUse ==
  ASSUME HubTypeOK, HubTypeOK', ListInv, UseInv, NEW s \in Sessions, CheckReturned(s)
  PROVE  UseInv'
  <1> USE DEF objectVars, watchVars, HubTypeOK, SessionTypeOK, Goto, WithClient
  <1>1. /\ UNCHANGED <<disposed, timedOut, client, node, found>> /\ Chain' = Chain
        /\ pc[s] = "check" /\ held[s] \in Clients /\ pc'[s] \in {"idle", "rent", "faulted"}
        /\ \A t \in Sessions : t # s => held'[t] = held[t] /\ pc'[t] = pc[t]
    BY DEF CheckReturned, chainVars, Chain
  <1>2. Shelf' \subseteq Shelf BY <1>1, ShelfKept DEF Popped
  <1>3. FoundHeld' BY <1>1 DEF UseInv, FoundHeld
  <1>4. CASE UNCHANGED <<held, killing>>
    <2>1. \A c \in Clients : Killed(c)' <=> Killed(c) BY <1>1, <1>4 DEF Killed
    <2>2. \A c \in Clean' : killing'[c] <= 1 /\ (c \in disposed' => killing'[c] = 0)
      BY <1>1, <1>4 DEF UseInv, KilledFree, Clean
    <2> QED BY <1>1, <1>2, <1>3, <1>4, <2>1, <2>2, UseKept DEF Clean
  <1>5. CASE FoundDown(held[s]) /\ Kill(held[s]) /\ held' = [held EXCEPT ![s] = Null]
    <2>1. held'[s] = Null /\ held[s] \notin disposed BY <1>1, <1>5, FoundFacts
    <2>2. \A d \in Clean' : /\ killing'[d] <= 1 /\ (d \in disposed' => killing'[d] = 0)
                            /\ Killed(d)' /\ ~Killed(d) => d = held[s]
      BY <1>1, <1>5, <2>1, HeldAlone, KillFacts
    <2>3. ASSUME NEW c \in Clean', Killed(c)', ~Killed(c)
          PROVE  (\A t \in Sessions : held'[t] # c) /\ (\A m \in Shelf' : client[m] # c)
      <3>1. c = held[s] /\ c \in Clean BY <1>1, <2>2, <2>3 DEF Clean
      <3> QED BY <1>1, <1>2, <2>1, <3>1, HeldAlone, HubAssumption
    <2>4. \A t \in Sessions : held'[t] \in {held[t], Null} BY <1>1, <2>1
    <2> QED BY <1>1, <1>2, <1>3, <2>2, <2>3, <2>4, UseKept
  <1> QED BY <1>4, <1>5 DEF CheckReturned

\* A session gets the connection of the node it popped, or kills it.
LEMMA CheckConnectUse ==
  ASSUME HubTypeOK, HubTypeOK', ListInv, UseInv, NEW s \in Sessions, CheckConnect(s)
  PROVE  UseInv'
  <1> USE DEF objectVars, watchVars, HubTypeOK, SessionTypeOK, Goto
  <1> DEFINE n == node[s]
             c == client[n]
  <1>0. Null \notin Clients BY HubAssumption
  <1>1. /\ UNCHANGED <<disposed, timedOut, client>> /\ Chain' = Chain
        /\ pc[s] = "revive" /\ pc'[s] \in {"faulted", "cancel", "find"}
        /\ \A t \in Sessions : t # s => node'[t] = node[t] /\ pc'[t] = pc[t] /\ found'[t] = found[t]
    BY DEF CheckConnect, Forget, chainVars, Chain
  <1>2. n \in Nodes /\ n \notin Chain /\ n \in Shelf
    BY <1>1 DEF ListInv, NodesOwned, WithNode, Shelf, Popped
  <1>3. Shelf' \subseteq Shelf BY <1>1, ShelfKept DEF Popped
  <1>4. n \notin Shelf'
    <2>1. \A t \in Sessions : pc'[t] \in Popped => node'[t] # n
      BY <1>1 DEF ListInv, NodesOwned, WithNode, Popped
    <2> QED BY <1>1, <1>2, <2>1 DEF Shelf
  <1>5. c \in Clean => /\ \A m \in Shelf' : client[m] # c
                       /\ \A t \in Sessions : held[t] # c
                       /\ ~Killed(c) /\ killing[c] = 0
    <2>1. c \in Clean => /\ \A m \in Shelf' : client[m] # c
                         /\ \A t \in Sessions : held[t] # c
      BY <1>2, <1>3, <1>4 DEF UseInv, ShelvedOnce
    <2>2. c \in Clean => ~Killed(c) BY <1>2 DEF UseInv, KilledFree, Free
    <2> QED BY <2>1, <2>2 DEF Killed, Clean, ConnTypeOK
  <1>6. c \in Clients \cup {Null} BY <1>2 DEF ChainTypeOK
  <1>7. CASE UNCHANGED <<held, killing>> /\ pc'[s] = "faulted"
    <2>1. \A d \in Clients : Killed(d)' <=> Killed(d) BY <1>1, <1>7 DEF Killed
    <2>2. \A d \in Clean' : killing'[d] <= 1 /\ (d \in disposed' => killing'[d] = 0)
      BY <1>1, <1>7 DEF UseInv, KilledFree, Clean
    <2>3. FoundHeld' BY <1>1, <1>7 DEF UseInv, FoundHeld
    <2> QED BY <1>1, <1>3, <1>7, <2>1, <2>2, <2>3, UseKept DEF Clean
  <1>8. CASE c \in Clients /\ FoundDown(c) /\ Kill(c) /\ UNCHANGED held /\ pc'[s] = "find"
    <2>1. c \notin disposed BY <1>8, FoundFacts
    <2>2. \A d \in Clean' : /\ killing'[d] <= 1 /\ (d \in disposed' => killing'[d] = 0)
                            /\ Killed(d)' /\ ~Killed(d) => d = c
      BY <1>1, <1>5, <1>8, <2>1, KillFacts
    <2>3. FoundHeld' BY <1>1, <1>8 DEF UseInv, FoundHeld
    <2> HIDE DEF c
    <2>4. ASSUME NEW d \in Clean', Killed(d)', ~Killed(d)
          PROVE  (\A t \in Sessions : held'[t] # d) /\ (\A m \in Shelf' : client[m] # d)
      <3>1. d = c /\ d \in Clean BY <1>1, <2>2, <2>4 DEF Clean
      <3> QED BY <1>5, <1>8, <3>1
    <2> QED BY <1>1, <1>3, <1>8, <2>2, <2>3, <2>4, UseKept
  <1>9. CASE /\ c \in Clients /\ UNCHANGED <<killing, node, found>> /\ pc'[s] = "cancel"
             /\ held' = [held EXCEPT ![s] = c]
    <2>1. held'[s] = c /\ \A t \in Sessions : t # s => held'[t] = held[t] BY <1>9
    <2>2. \A d \in Clients : Killed(d)' <=> Killed(d) BY <1>1, <1>9 DEF Killed
    <2>3. found[s] = c BY <1>1 DEF UseInv, FoundHeld
    <2> HIDE DEF c
    <2>4. HeldOnce' BY <1>0, <1>1, <1>5, <1>9, <2>1 DEF UseInv, HeldOnce, Clean
    <2>5. ShelvedOnce' BY <1>0, <1>1, <1>3, <1>5, <1>9, <2>1 DEF UseInv, ShelvedOnce, Clean
    <2>6. \A d \in Clean' : Killed(d)' => Free(d)'
      <3> TAKE d \in Clean'
      <3>1. d \in Clean BY <1>1 DEF Clean
      <3>2. Killed(d)' => Free(d) /\ d # c BY <1>5, <2>2, <3>1 DEF UseInv, KilledFree, Clean
      <3> QED BY <1>1, <1>3, <2>1, <3>2 DEF Free
    <2>7. KilledFree' BY <1>1, <1>9, <2>6 DEF UseInv, KilledFree, Clean
    <2>8. FoundHeld' BY <1>1, <1>9, <2>1, <2>3 DEF UseInv, FoundHeld
    <2> QED BY <2>4, <2>5, <2>7, <2>8 DEF UseInv
  <1> QED BY <1>1, <1>6, <1>7, <1>8, <1>9 DEF CheckConnect

\* A connection that was rented was disposed, so that nobody has it if it is clean.
LEMMA CreateUse ==
  ASSUME HubTypeOK, HubTypeOK', ListInv, UseInv, NEW s \in Sessions, Create(s)
  PROVE  UseInv' /\ held'[s] \in Clients /\ disposed' = disposed \ {held'[s]} /\ pc'[s] = "connect"
  <1> USE DEF killVars, watchVars, HubTypeOK, SessionTypeOK, Goto
  <1>0. Null \notin Clients BY HubAssumption
  <1>1. PICK c \in Clients : /\ c \in disposed /\ disposed' = disposed \ {c}
                             /\ held' = [held EXCEPT ![s] = c] /\ pc' = [pc EXCEPT ![s] = "connect"]
    BY DEF Create, Rent, PoolTypeOK
  <1>2. UNCHANGED <<killing, timedOut, client, node, found>> /\ Chain' = Chain /\ pc[s] = "create"
    BY DEF Create, chainVars, Chain
  <1>3. Shelf' \subseteq Shelf BY <1>1, <1>2, ShelfKept DEF Popped
  <1>4. held'[s] = c /\ \A t \in Sessions : t # s => held'[t] = held[t] /\ pc'[t] = pc[t] BY <1>1
  <1>5. c \in Clean => Free(c) /\ killing[c] = 0 BY <1>1 DEF UseInv, KilledFree, Killed
  <1>6. Clean' = Clean BY <1>2 DEF Clean
  <1>7. HeldOnce' BY <1>4, <1>5, <1>6 DEF UseInv, HeldOnce, Free
  <1>8. ShelvedOnce' BY <1>2, <1>3, <1>4, <1>5, <1>6 DEF UseInv, ShelvedOnce, Free
  <1>9. KilledFree'
    <2> SUFFICES ASSUME NEW d \in Clean
                 PROVE  (Killed(d)' => Free(d)') /\ killing'[d] <= 1 /\ (d \in disposed' => killing'[d] = 0)
      BY <1>6 DEF KilledFree
    <2>1. Killed(d)' => Killed(d) /\ d # c BY <1>1, <1>2, <1>5 DEF Killed
    <2> QED BY <1>1, <1>2, <1>3, <1>4, <2>1 DEF UseInv, KilledFree, Free
  <1>10. FoundHeld' BY <1>1, <1>2, <1>4 DEF UseInv, FoundHeld
  <1> QED BY <1>1, <1>4, <1>7, <1>8, <1>9, <1>10 DEF UseInv

\* A returned connection passes from its session to the node that is linked.
LEMMA LinkUse ==
  ASSUME HubTypeOK, HubTypeOK', ListInv, UseInv, NEW s \in Sessions, Link(s)
  PROVE  UseInv'
  <1> USE DEF killVars, connVars, objectVars, watchVars, HubTypeOK, SessionTypeOK, Goto
  <1> DEFINE n == node[s]
             c == held[s]
  <1>0. Null \notin Clients BY HubAssumption
  <1>1. /\ UNCHANGED <<killing, disposed, timedOut>> /\ Chain' = Chain \cup {n}
        /\ pc[s] = "link" /\ pc'[s] = "idle" /\ held'[s] = Null
        /\ \A t \in Sessions : t # s =>
              node'[t] = node[t] /\ held'[t] = held[t] /\ pc'[t] = pc[t] /\ found'[t] = found[t]
        /\ client' = [client EXCEPT ![n] = c]
    BY LinkList DEF Link, Forget
  <1>2. n \in Nodes /\ c \in Clients /\ n \notin Chain
    BY <1>1 DEF ListInv, NodesOwned, WithNode, WithClient
  <1>3. Shelf' \subseteq Shelf \cup {n} BY <1>1 DEF Shelf, Popped
  <1>4. n \notin Shelf
    <2>1. \A t \in Sessions : pc[t] \in Popped => node[t] # n
      BY <1>1 DEF ListInv, NodesOwned, WithNode, Popped
    <2> QED BY <1>2, <2>1 DEF Shelf
  <1>5. client'[n] = c /\ \A m \in Shelf : client'[m] = client[m]
    <2>1. Shelf \subseteq Nodes BY ChainClosed DEF Shelf, WithNode, Popped
    <2> QED BY <1>1, <1>2, <1>4, <2>1 DEF ChainTypeOK
  <1>6. Clean' = Clean BY <1>1 DEF Clean
  <1>7. c \in Clean => /\ \A t \in Sessions : t # s => held[t] # c
                       /\ \A m \in Shelf : client[m] # c
                       /\ ~Killed(c)
    BY HeldAlone DEF Killed
  <1>8. \A d \in Clients : Killed(d)' <=> Killed(d) BY <1>1 DEF Killed
  <1>9. FoundHeld'
    <2>1. ASSUME NEW t \in Sessions, t # s, pc[t] \in {"logger", "revive"}
          PROVE  client'[node[t]] = client[node[t]]
      BY <2>1, <1>5 DEF Shelf, Popped
    <2> QED BY <1>1, <2>1 DEF UseInv, FoundHeld
  <1> HIDE DEF n, c
  <1>10. HeldOnce' BY <1>0, <1>1, <1>6 DEF UseInv, HeldOnce, Clean
  <1>11. ShelvedOnce' BY <1>0, <1>1, <1>2, <1>3, <1>5, <1>6, <1>7 DEF UseInv, ShelvedOnce, Clean
  <1>12. KilledFree'
    <2> SUFFICES ASSUME NEW d \in Clean
                 PROVE  (Killed(d)' => Free(d)') /\ killing'[d] <= 1 /\ (d \in disposed' => killing'[d] = 0)
      BY <1>6 DEF KilledFree
    <2>1. Killed(d)' => Free(d) /\ d # c BY <1>7, <1>8 DEF UseInv, KilledFree, Clean
    <2>2. d # Null BY <1>0 DEF Clean
    <2>3. Killed(d)' => Free(d)' BY <1>1, <1>3, <1>5, <2>1, <2>2 DEF Free
    <2> QED BY <1>1, <2>3 DEF UseInv, KilledFree
  <1> QED BY <1>9, <1>10, <1>11, <1>12 DEF UseInv

LEMMA WatchUse ==
  ASSUME HubTypeOK, HubTypeOK', ListInv, UseInv, NEW w \in 1..MaxStalls, WatchdogStep(w), ~misused'
  PROVE  UseInv'
  <1> USE DEF chainVars, connVars, objectVars, killVars, sessionVars, HubTypeOK
  <1>1. UNCHANGED <<held, pc, node, found, disposed>>
    BY DEF WatchdogStep, StartWatchdog, Elapse, RemoveFromChain, WatchdogDispose, WatchdogKill
  <1>2. Shelf' \subseteq Shelf BY <1>1, WatchList, ShelfKept
  <1>3. \A m \in Shelf' : client'[m] = client[m]
    <2>1. CASE UNCHANGED client BY <2>1
    <2>2. CASE watchdog[w].stage = "clear" /\ ClearNode(watchdog[w].node)
      <3>1. watchdog[w].node \notin Shelf
        BY <2>2 DEF ListInv, NodesOwned, Disposal, Shelf, WithNode, Popped
      <3>2. Shelf \subseteq Nodes BY ChainClosed DEF Shelf, SessionTypeOK, WithNode, Popped
      <3> QED BY <1>2, <2>2, <3>1, <3>2 DEF ClearNode, ChainTypeOK
    <2> QED BY <2>1, <2>2
        DEF WatchdogStep, StartWatchdog, Elapse, RemoveFromChain, WatchdogDispose, WatchdogKill
  <1>4. /\ timedOut \subseteq timedOut'
        /\ \A c \in Clean' : killing'[c] = killing[c] /\ c \in Clean
    <2>1. CASE UNCHANGED <<killing, timedOut>> BY <2>1 DEF Clean
    <2>2. CASE WatchdogKill(w)
      <3>1. watchdog[w].client \in Clients BY <2>2 DEF WatchdogKill, WatchTypeOK
      <3>2. timedOut' = timedOut \cup {watchdog[w].client} /\ Kill(watchdog[w].client)
        BY <2>2 DEF WatchdogKill
      <3> QED BY <3>1, <3>2, FoundFacts DEF Clean
    <2> QED BY <2>1, <2>2 DEF WatchdogStep, StartWatchdog, Elapse, RemoveFromChain, WatchdogDispose
  <1>5. \A c \in Clean' : Killed(c)' <=> Killed(c) BY <1>1, <1>4 DEF Killed
  <1>6. \A c \in Clean' : killing'[c] <= 1 /\ (c \in disposed' => killing'[c] = 0)
    BY <1>1, <1>4 DEF UseInv, KilledFree
  <1>7. FoundHeld'
    <2>1. \A t \in Sessions : pc[t] \in {"logger", "revive"} => node[t] \in Shelf'
      BY <1>1 DEF Shelf, Popped
    <2> QED BY <1>1, <1>3, <2>1 DEF UseInv, FoundHeld
  <1> QED BY <1>1, <1>2, <1>3, <1>4, <1>5, <1>6, <1>7, UseKept

LEMMA DisposeClientUse ==
  ASSUME HubTypeOK, HubTypeOK', UseInv, NEW c \in Clients, DisposeClient(c)
  PROVE  UseInv'
  <1> USE DEF HubTypeOK
  <1>1. UNCHANGED <<held, pc, node, found, client, timedOut>> /\ Shelf' = Shelf /\ Clean' = Clean
    BY DEF DisposeClient, chainVars, sessionVars, watchVars, Shelf, Chain, Clean
  <1>2. /\ killing[c] > 0 /\ disposed' = disposed \cup {c} /\ killing'[c] = killing[c] - 1
        /\ \A d \in Clients : d # c => killing'[d] = killing[d]
    BY DEF DisposeClient, DisposeSocket, ConnTypeOK
  <1>3. \A d \in Clean : Killed(d)' => Killed(d) BY <1>2 DEF Killed, Clean
  <1>4. ASSUME NEW d \in Clean PROVE killing'[d] <= 1 /\ (d \in disposed' => killing'[d] = 0)
    <2>1. d \in Clients /\ killing[d] \in Nat /\ killing[d] <= 1 /\ (d \in disposed => killing[d] = 0)
      BY DEF Clean, UseInv, KilledFree, ConnTypeOK
    <2> QED BY <1>2, <2>1
  <1>5. FoundHeld' BY <1>1 DEF UseInv, FoundHeld
  <1> QED BY <1>1, <1>3, <1>4, <1>5, UseKept

-----------------------------------------------------------------------------
(* The entries of activeConnections and their owners *)

Owning == {"dispose", "clear", "connect", "update", "active", "return", "remove", "faulted"}
LEMMA OwnsOwning == \A s, c : Owns(s, c) <=> held[s] = c /\ pc[s] \in Owning
  BY DEF Owns, Owning

\* The step of a session keeps the owners if the session is none, stays one, or gives up a
\* connection that is no longer active.
LEMMA EntriesKept ==
  ASSUME EntryOwned, NEW s \in Sessions, activeConnections' \subseteq activeConnections,
         UNCHANGED timedOut,
         \A t \in Sessions \ {s} : held'[t] = held[t] /\ pc'[t] = pc[t],
         \/ pc[s] \notin Owning
         \/ held'[s] = held[s] /\ pc'[s] \in Owning
         \/ \A k \in Keys : held[s] \in Clean => <<k, held[s]>> \notin activeConnections'
  PROVE  EntryOwned'
  <1> SUFFICES ASSUME NEW c \in Clean, NEW k \in Keys, <<k, c>> \in activeConnections'
               PROVE  /\ \E t \in Sessions : Owns(t, c)'
                      /\ \A j \in Keys : <<j, c>> \in activeConnections' => j = k
    BY DEF EntryOwned, Clean
  <1>1. PICK t \in Sessions : held[t] = c /\ pc[t] \in Owning BY OwnsOwning DEF EntryOwned
  <1>2. held'[t] = c /\ pc'[t] \in Owning BY <1>1
  <1>3. \A j \in Keys : <<j, c>> \in activeConnections' => j = k BY DEF EntryOwned
  <1>4. Owns(t, c)' BY <1>2, OwnsOwning DEF Owns, Owning
  <1> QED BY <1>3, <1>4

\* The owners find their entries as long as these and the keys stay.
LEMMA OwnersKept ==
  ASSUME OwnerFinds, UNCHANGED <<timedOut, robbed, Key>>,
         \A t \in Sessions, c \in Clean : Owns(t, c)' /\ pc'[t] # "faulted" =>
             /\ Owns(t, c) /\ pc[t] # "faulted"
             /\ <<Key[c], c>> \in activeConnections => <<Key[c], c>> \in activeConnections'
  PROVE  OwnerFinds'
  BY DEF OwnerFinds, Clean

\* The steps by which no entry comes or goes and no connection gets another owner.
Still(s) ==
    \/ GetHub(s) \/ Use(s) \/ Unuse(s) \/ ExchangeFails(s) \/ FindHead(s) \/ PopHead(s)
    \/ ReadClient(s) \/ ReadLogger(s) \/ CheckConnect(s) \/ CancelWatchdog(s) \/ DisposeNode(s)
    \/ ClearFields(s) \/ Connect(s) \/ UpdateMonitor(s) \/ ReturnActive(s) \/ CheckReturned(s)
    \/ RentNode(s) \/ Link(s)

LEMMA StillActive ==
  ASSUME HubTypeOK, UseInv, ActiveInv, NEW s \in Sessions, Still(s) PROVE ActiveInv'
  <1> USE DEF HubTypeOK, SessionTypeOK, connVars, keyVars, watchVars
  <1>1. UNCHANGED <<activeConnections, Key, robbed, timedOut>>
    BY DEF Still, GetHub, Use, Unuse, ExchangeFails, FindHead, PopHead, ReadClient, ReadLogger, CheckConnect,
           CancelWatchdog, DisposeNode, ClearFields, Connect, UpdateMonitor, ReturnActive,
           CheckReturned, RentNode, Link
  <1>2. pc' = [pc EXCEPT ![s] = pc'[s]]
    BY DEF Still, GetHub, Use, Unuse, ExchangeFails, FindHead, PopHead, ReadClient, ReadLogger, CheckConnect,
           CancelWatchdog, DisposeNode, ClearFields, Connect, UpdateMonitor, ReturnActive,
           CheckReturned, RentNode, Link, Goto
  <1>3. held' = held \/ \E c : held' = [held EXCEPT ![s] = c]
    BY DEF Still, GetHub, Use, Unuse, ExchangeFails, FindHead, PopHead, ReadClient, ReadLogger, CheckConnect,
           CancelWatchdog, DisposeNode, ClearFields, Connect, UpdateMonitor, ReturnActive,
           CheckReturned, RentNode, Link
  <1>4. \A t \in Sessions \ {s} : held'[t] = held[t] /\ pc'[t] = pc[t] BY <1>2, <1>3
  <1>5. \/ pc[s] \notin Owning /\ pc'[s] \notin Owning \ {"faulted"}
        \/ held'[s] = held[s] /\ pc[s] \in Owning \ {"faulted"} /\ pc'[s] \in Owning
    <2>1. CASE ClearFields(s)
      <3>1. found[s] = held[s] /\ pc[s] = "clear" BY <2>1 DEF ClearFields, UseInv, FoundHeld
      <3>2. pc'[s] \in {"update", "faulted"} BY <2>1 DEF ClearFields, Goto
      <3> QED BY <2>1, <3>1, <3>2 DEF ClearFields, Owning
    <2>2. CASE DisposeNode(s) \/ Connect(s) \/ UpdateMonitor(s) \/ ReturnActive(s) \/ Unuse(s) \/ ExchangeFails(s)
      BY <2>2 DEF DisposeNode, Connect, UpdateMonitor, ReturnActive, Unuse, ExchangeFails, Goto, Owning
    <2>3. CASE CheckConnect(s) \/ CheckReturned(s)
      BY <2>3 DEF CheckConnect, CheckReturned, Goto, Owning
    <2>4. CASE GetHub(s) \/ Use(s) \/ FindHead(s) \/ PopHead(s) \/ ReadClient(s) \/ ReadLogger(s)
      BY <2>4 DEF GetHub, Use, FindHead, PopHead, ReadClient, ReadLogger, Goto, Owning
    <2>5. CASE CancelWatchdog(s) \/ RentNode(s) \/ Link(s)
      BY <2>5 DEF CancelWatchdog, RentNode, Link, Goto, Owning
    <2> QED BY <2>1, <2>2, <2>3, <2>4, <2>5 DEF Still
  <1>6. EntryOwned' BY <1>1, <1>4, <1>5, EntriesKept DEF ActiveInv
  <1>7. \A t \in Sessions, c \in Clean : Owns(t, c)' /\ pc'[t] # "faulted" => Owns(t, c) /\ pc[t] # "faulted"
    <2> TAKE t \in Sessions, c \in Clean
    <2>1. Owns(t, c)' <=> held'[t] = c /\ pc'[t] \in Owning BY DEF Owns, Owning
    <2> QED BY <2>1, <1>4, <1>5, OwnsOwning
  <1>8. OwnerFinds' BY <1>1, <1>7, OwnersKept DEF ActiveInv
  <1> QED BY <1>6, <1>8 DEF ActiveInv

\* A session that has not added its clean connection finds no entry of it.
LEMMA NoEntry ==
  ASSUME HubTypeOK, UseInv, EntryOwned, NEW c \in Clean, NEW k \in Keys, <<k, c>> \in activeConnections,
         NEW s \in Sessions, held[s] = c
  PROVE  pc[s] \in Owning
  <1>1. PICK t \in Sessions : held[t] = c /\ pc[t] \in Owning BY OwnsOwning DEF EntryOwned
  <1> QED BY <1>1 DEF UseInv, HeldOnce

LEMMA AddRevivedActive ==
  ASSUME HubTypeOK, UseInv, ActiveInv, NEW s \in Sessions, AddRevived(s) PROVE ActiveInv'
  <1> USE DEF HubTypeOK, SessionTypeOK, keyVars, watchVars, Goto
  <1> DEFINE c == held[s]
  <1>1. /\ UNCHANGED <<held, Key, robbed, timedOut>> /\ pc[s] = "add" /\ pc'[s] \in {"dispose", "faulted"}
        /\ \A t \in Sessions \ {s} : pc'[t] = pc[t]
        /\ c \in Clients
    BY DEF AddRevived, WithClient
  <1>2. \A d : \A t \in Sessions : Owns(t, d)' <=> held[t] = d /\ pc'[t] \in Owning
    BY <1>1 DEF Owns, Owning
  <1>3. CASE UNCHANGED activeConnections /\ pc'[s] = "faulted"
    <2>1. EntryOwned' BY <1>1, <1>3, EntriesKept DEF ActiveInv, Owning
    <2>2. OwnerFinds' BY <1>1, <1>2, <1>3, OwnersKept, OwnsOwning DEF ActiveInv
    <2> QED BY <2>1, <2>2 DEF ActiveInv
  <1>4. CASE activeConnections' = activeConnections \cup {<<Key[c], c>>} /\ pc'[s] = "dispose"
    <2>1. c \in Clean => \A k \in Keys : <<k, c>> \notin activeConnections
      BY <1>1, NoEntry DEF ActiveInv, Owning
    <2>2. EntryOwned'
      <3> SUFFICES ASSUME NEW d \in Clean, NEW k \in Keys, <<k, d>> \in activeConnections'
                   PROVE  /\ \E t \in Sessions : Owns(t, d)'
                          /\ \A j \in Keys : <<j, d>> \in activeConnections' => j = k
        BY <1>1 DEF EntryOwned, Clean
      <3>1. CASE d = c
        <4>1. Owns(s, d)' BY <1>2, <1>4, <3>1 DEF Owning
        <4> QED BY <4>1, <2>1, <1>4, <3>1
      <3>2. CASE d # c
        <4>1. <<k, d>> \in activeConnections BY <1>4, <3>2
        <4>2. PICK t \in Sessions : held[t] = d /\ pc[t] \in Owning
          BY <4>1, OwnsOwning DEF ActiveInv, EntryOwned
        <4>3. Owns(t, d)' BY <1>1, <1>2, <4>2, <3>2
        <4>4. \A j \in Keys : <<j, d>> \in activeConnections' => j = k
          BY <4>1, <1>4, <3>2 DEF ActiveInv, EntryOwned
        <4> QED BY <4>3, <4>4
      <3> QED BY <3>1, <3>2
    <2>3. OwnerFinds'
      <3> SUFFICES ASSUME NEW d \in Clean, NEW t \in Sessions, held[t] = d, pc'[t] \in Owning,
                          pc'[t] # "faulted", d \notin robbed
                   PROVE  <<Key[d], d>> \in activeConnections'
        BY <1>1, <1>2 DEF OwnerFinds, Clean
      <3>1. CASE t = s BY <3>1, <1>4
      <3>2. CASE t # s BY <3>2, <1>1, <1>4, OwnsOwning DEF ActiveInv, OwnerFinds
      <3> QED BY <3>1, <3>2
    <2> QED BY <2>2, <2>3 DEF ActiveInv
  <1> QED BY <1>3, <1>4 DEF AddRevived

\* Nobody had the connection that is rented, so it has no entry.
LEMMA CreateActive ==
  ASSUME HubTypeOK, HubTypeOK', ListInv, UseInv, ActiveInv, NEW s \in Sessions, Create(s)
  PROVE  ActiveInv'
  <1> USE DEF HubTypeOK, SessionTypeOK, watchVars, Goto
  <1>1. PICK c \in Clients :
           /\ c \in disposed /\ held' = [held EXCEPT ![s] = c] /\ pc' = [pc EXCEPT ![s] = "connect"]
           /\ Key' = [Key EXCEPT ![c] = counterForId'] /\ robbed' = robbed \ {c}
           /\ activeConnections' = activeConnections \cup {<<counterForId', c>>}
    BY DEF Create, Rent, PoolTypeOK
  <1>2. UNCHANGED timedOut /\ pc[s] = "create" /\ counterForId' \in Keys BY DEF Create, ConnTypeOK
  <1>3. Clean' = Clean BY <1>2 DEF Clean
  <1>4. held'[s] = c /\ pc'[s] = "connect" /\ \A t \in Sessions \ {s} : held'[t] = held[t] /\ pc'[t] = pc[t]
    BY <1>1
  <1>5. c \in Clean => \A t \in Sessions : held[t] # c BY <1>1 DEF UseInv, KilledFree, Killed, Free
  <1>6. c \in Clean => \A k \in Keys : <<k, c>> \notin activeConnections
    BY <1>5, OwnsOwning DEF ActiveInv, EntryOwned
  <1>7. \A d : \A t \in Sessions : Owns(t, d)' <=> held'[t] = d /\ pc'[t] \in Owning
    BY DEF Owns, Owning
  <1>8. EntryOwned'
    <2> SUFFICES ASSUME NEW d \in Clean, NEW k \in Keys, <<k, d>> \in activeConnections'
                 PROVE  /\ \E t \in Sessions : Owns(t, d)'
                        /\ \A j \in Keys : <<j, d>> \in activeConnections' => j = k
      BY <1>3 DEF EntryOwned
    <2>1. CASE d = c
      <3>1. Owns(s, d)' BY <1>4, <1>7, <2>1 DEF Owning
      <3> QED BY <3>1, <1>1, <1>6, <2>1
    <2>2. CASE d # c
      <3>1. <<k, d>> \in activeConnections BY <1>1, <2>2
      <3>2. PICK t \in Sessions : held[t] = d /\ pc[t] \in Owning
        BY <3>1, OwnsOwning DEF ActiveInv, EntryOwned
      <3>3. t # s BY <3>2, <1>2 DEF Owning
      <3>4. Owns(t, d)' BY <1>4, <1>7, <3>2, <3>3
      <3>5. \A j \in Keys : <<j, d>> \in activeConnections' => j = k
        BY <3>1, <1>1, <2>2 DEF ActiveInv, EntryOwned
      <3> QED BY <3>4, <3>5
    <2> QED BY <2>1, <2>2
  <1>9. OwnerFinds'
    <2> SUFFICES ASSUME NEW d \in Clean, NEW t \in Sessions, held'[t] = d, pc'[t] \in Owning,
                        pc'[t] # "faulted", d \notin robbed'
                 PROVE  <<Key'[d], d>> \in activeConnections'
      BY <1>3, <1>7 DEF OwnerFinds
    <2>1. CASE t = s BY <2>1, <1>1, <1>4 DEF ConnTypeOK
    <2>2. CASE t # s
      <3>1. d # c /\ held[t] = d /\ pc[t] = pc'[t] BY <2>2, <1>4, <1>5
      <3>2. Key'[d] = Key[d] /\ d \notin robbed BY <3>1, <1>1 DEF ConnTypeOK, Clean
      <3> QED BY <3>1, <3>2, <1>1, OwnsOwning DEF ActiveInv, OwnerFinds
    <2> QED BY <2>1, <2>2
  <1> QED BY <1>8, <1>9 DEF ActiveInv

\* A session takes its own entry out, the only one of its connection.
LEMMA RemoveActiveInv ==
  ASSUME HubTypeOK, UseInv, ActiveInv, NEW s \in Sessions, RemoveActive(s) \/ ConnectFails(s)
  PROVE  ActiveInv'
  <1> USE DEF HubTypeOK, SessionTypeOK, keyVars, watchVars, Goto
  <1> DEFINE c == held[s]
  <1>1. /\ UNCHANGED <<Key, robbed, timedOut>> /\ pc'[s] \in {"check", "faulted"} /\ c \in Clients
        /\ \A t \in Sessions \ {s} : held'[t] = held[t] /\ pc'[t] = pc[t]
        /\ <<Key[c], c>> \in activeConnections
        /\ activeConnections' = activeConnections \ {<<Key[c], c>>}
    BY DEF RemoveActive, ConnectFails, TryRemove, WithClient
  <1>2. Key[c] \in Keys BY <1>1 DEF ConnTypeOK
  <1>3. \A k \in Keys : c \in Clean => <<k, c>> \notin activeConnections'
    BY <1>1, <1>2 DEF ActiveInv, EntryOwned
  <1>4. EntryOwned' BY <1>1, <1>3, EntriesKept DEF ActiveInv
  <1>5. ASSUME NEW t \in Sessions, NEW d \in Clean, Owns(t, d)', pc'[t] # "faulted"
        PROVE  /\ Owns(t, d) /\ pc[t] # "faulted"
               /\ <<Key[d], d>> \in activeConnections => <<Key[d], d>> \in activeConnections'
    <2>1. held'[t] = d /\ pc'[t] \in Owning BY <1>5 DEF Owns, Owning
    <2>2. t # s BY <1>1, <1>5, <2>1 DEF Owning
    <2>3. held[t] = d /\ pc[t] = pc'[t] BY <1>1, <2>1, <2>2
    <2>4. d # c BY <2>2, <2>3 DEF UseInv, HeldOnce
    <2> QED BY <1>1, <1>5, <2>1, <2>3, <2>4, OwnsOwning
  <1>6. OwnerFinds' BY <1>1, <1>5, OwnersKept DEF ActiveInv
  <1> QED BY <1>4, <1>6 DEF ActiveInv

\* The other steps leave entries and sessions alone; a late Dispose may clear a key.
LEMMA OtherActive ==
  ASSUME HubTypeOK, UseInv, ActiveInv, UNCHANGED <<activeConnections, held, pc>>,
         timedOut \subseteq timedOut',
         \/ UNCHANGED <<Key, robbed>>
         \/ \E c \in Clients : ClearKey(c)
  PROVE  ActiveInv'
  <1>1. \A t \in Sessions, d \in Clients : Owns(t, d)' <=> Owns(t, d) BY DEF Owns
  <1>2. Clean' \subseteq Clean /\ Clean \subseteq Clients BY DEF Clean
  <1>3. EntryOwned' BY <1>1, <1>2 DEF ActiveInv, EntryOwned, Clean
  <1>4. ASSUME NEW d \in Clean', NEW t \in Sessions, Owns(t, d), pc[t] # "faulted", d \notin robbed'
        PROVE  <<Key'[d], d>> \in activeConnections
    <2>1. CASE UNCHANGED <<Key, robbed>> BY <1>2, <1>4, <2>1 DEF ActiveInv, OwnerFinds
    <2>2. ASSUME NEW c \in Clients, ClearKey(c) PROVE <<Key'[d], d>> \in activeConnections
      <3>1. held[t] = d BY <1>4 DEF Owns
      <3>2. d \notin disposed BY <1>2, <3>1 DEF UseInv, KilledFree, Killed, Free
      <3>3. d # c /\ d \notin robbed BY <1>4, <2>2, <3>2 DEF ClearKey
      <3>4. Key'[d] = Key[d] BY <1>2, <2>2, <3>3 DEF ClearKey, HubTypeOK, ConnTypeOK
      <3> QED BY <1>2, <1>4, <3>3, <3>4 DEF ActiveInv, OwnerFinds
    <2> QED BY <2>1, <2>2
  <1>5. OwnerFinds' BY <1>1, <1>2, <1>4 DEF OwnerFinds
  <1> QED BY <1>3, <1>5 DEF ActiveInv

-----------------------------------------------------------------------------
(* The invariant and what follows from it *)

LEMMA HubInit == Init => HubInv
  <1> SUFFICES ASSUME Init PROVE HubInv
    OBVIOUS
  <1>1. HubTypeOK BY TypeInit
  <1>2. ActiveInv BY DEF Init, ActiveInv, EntryOwned, OwnerFinds, Owns
  <1>3. Chain = {} BY ChainReachable, ReachableNull DEF Init
  <1>4. Shelf = {} BY <1>3 DEF Init, Shelf, Popped
  <1>5. ListInv
    <2>1. Linked BY <1>3 DEF Init, Linked
    <2>2. NodesOwned BY <1>3 DEF Init, NodesOwned, WithNode, Disposal, NoWatch, Watch
    <2>3. PoolOwned BY <1>3 DEF Init, PoolOwned, WithNode, Disposal, NoWatch, Watch
    <2> QED BY <2>1, <2>2, <2>3 DEF ListInv
  <1>6. UseInv
    <2>1. HeldOnce /\ ShelvedOnce BY <1>4, HubAssumption DEF Init, HeldOnce, ShelvedOnce, Clean
    <2>2. KilledFree BY <1>4, HubAssumption DEF Init, KilledFree, Free, Clean
    <2>3. FoundHeld BY DEF Init, FoundHeld
    <2> QED BY <2>1, <2>2, <2>3 DEF UseInv
  <1> QED BY <1>1, <1>2, <1>5, <1>6 DEF HubInv

LEMMA HubStep == HubInv /\ [Next]_vars => HubInv'
  <1> SUFFICES ASSUME HubInv, [Next]_vars PROVE HubInv'
    OBVIOUS
  <1> USE DEF chainVars, connVars, objectVars, keyVars, killVars, sessionVars, watchVars
  <1>1. HubTypeOK /\ HubTypeOK' BY TypeStep DEF HubInv
  <1> SUFFICES ASSUME ~misused' PROVE ListInv' /\ UseInv' /\ ActiveInv'
    BY <1>1 DEF HubInv
  <1>2. ~misused
    <2>1. CASE UNCHANGED misused BY <2>1
    <2>2. CASE \E s \in Sessions : RentNode(s) BY <2>2, <1>1 DEF RentNode, HubTypeOK, ConnTypeOK
    <2>3. CASE \E w \in 1..MaxStalls : RemoveFromChain(w)
      BY <2>3, <1>1 DEF RemoveFromChain, HubTypeOK, ConnTypeOK
    <2> QED BY <2>1, <2>2, <2>3
      DEF Next, SessionStep, WatchdogStep, DisposeClient, ClearKey, CheckDispose, vars,
        GetHub, Use, Unuse, ExchangeFails, FindHead, PopHead, ReadClient, ReadLogger, CheckConnect,
        CancelWatchdog, AddRevived, DisposeNode, ClearFields, Create, Connect, ConnectFails,
        UpdateMonitor, ReturnActive, RemoveActive, CheckReturned, Link, StartWatchdog, Elapse,
        WatchdogDispose, WatchdogKill
  <1>3. ListInv /\ UseInv /\ ActiveInv BY <1>2 DEF HubInv
  <1>4. ASSUME NEW s \in Sessions, SessionStep(s) PROVE ListInv' /\ UseInv' /\ ActiveInv'
    <2>1. ListInv' BY <1>1, <1>3, <1>4, SessionList
    <2>2. UseInv'
      <3>1. CASE Quiet(s) BY <3>1, <2>1, <1>1, <1>3, QuietUse
      <3>2. CASE PopHead(s) BY <3>2, <2>1, <1>1, <1>3, PopHeadUse
      <3>3. CASE ConnectFails(s) BY <3>3, <2>1, <1>1, <1>3, ConnectFailsUse
      <3>4. CASE CheckReturned(s) BY <3>4, <2>1, <1>1, <1>3, CheckReturnedUse
      <3>5. CASE CheckConnect(s) BY <3>5, <2>1, <1>1, <1>3, CheckConnectUse
      <3>6. CASE Create(s) BY <3>6, <2>1, <1>1, <1>3, CreateUse
      <3>7. CASE Link(s) BY <3>7, <2>1, <1>1, <1>3, LinkUse
      <3> QED BY <1>4, <3>1, <3>2, <3>3, <3>4, <3>5, <3>6, <3>7 DEF SessionStep, Quiet
    <2>3. ActiveInv'
      <3>1. CASE Still(s) BY <3>1, <1>1, <1>3, StillActive
      <3>2. CASE AddRevived(s) BY <3>2, <1>1, <1>3, AddRevivedActive
      <3>3. CASE Create(s) BY <3>3, <1>1, <1>3, CreateActive
      <3>4. CASE RemoveActive(s) \/ ConnectFails(s) BY <3>4, <1>1, <1>3, RemoveActiveInv
      <3> QED BY <1>4, <3>1, <3>2, <3>3, <3>4 DEF SessionStep, Still
    <2> QED BY <2>1, <2>2, <2>3
  <1>5. ASSUME NEW w \in 1..MaxStalls, WatchdogStep(w) PROVE ListInv' /\ UseInv' /\ ActiveInv'
    <2>1. ListInv' /\ UseInv' BY <1>1, <1>3, <1>5, WatchList, WatchUse
    <2>2. UNCHANGED <<activeConnections, held, pc, Key, robbed>> /\ timedOut \subseteq timedOut'
      BY <1>5 DEF WatchdogStep, StartWatchdog, Elapse, RemoveFromChain, WatchdogDispose, WatchdogKill
    <2> QED BY <1>1, <1>3, <2>1, <2>2, OtherActive
  <1>6. ASSUME UNCHANGED <<chainVars, sessionVars, watchVars, activeConnections>>,
               \/ CheckDispose \/ UNCHANGED vars
               \/ \E c \in Clients : DisposeClient(c) \/ ClearKey(c)
        PROVE  ListInv' /\ UseInv' /\ ActiveInv'
    <2>1. ListInv' BY <1>3, <1>6, ListKept
    <2>2. CASE \E c \in Clients : DisposeClient(c)
      <3>1. UseInv' BY <1>1, <1>3, <2>2, DisposeClientUse
      <3>2. UNCHANGED <<Key, robbed>> BY <2>2 DEF DisposeClient
      <3> QED BY <1>1, <1>3, <1>6, <2>1, <3>1, <3>2, OtherActive
    <2>3. CASE CheckDispose \/ UNCHANGED vars \/ \E c \in Clients : ClearKey(c)
      <3>1. UNCHANGED <<killing, disposed>> BY <2>3 DEF CheckDispose, ClearKey, vars
      <3>2. Shelf' = Shelf /\ Clean' = Clean BY <1>6 DEF Shelf, Chain, Clean
      <3>3. UseInv'
        <4>1. HeldOnce' /\ ShelvedOnce' /\ FoundHeld'
          BY <1>3, <1>6, <3>2 DEF UseInv, HeldOnce, ShelvedOnce, FoundHeld
        <4>2. KilledFree' BY <1>3, <1>6, <3>1, <3>2 DEF UseInv, KilledFree, Killed, Free
        <4> QED BY <4>1, <4>2 DEF UseInv
      <3>4. UNCHANGED <<Key, robbed>> \/ \E c \in Clients : ClearKey(c) BY <2>3 DEF CheckDispose, vars
      <3> QED BY <1>1, <1>3, <1>6, <2>1, <3>3, <3>4, OtherActive
    <2> QED BY <1>6, <2>2, <2>3
  <1> QED BY <1>4, <1>5, <1>6 DEF Next, DisposeClient, ClearKey, CheckDispose, vars

\* A connection object that no watchdog has killed is never with two sessions, whatever they do
\* and although objects are pooled before their Dispose has ended and rented again, until a
\* StalledData is rented before its Dispose has cleared it or unlinked when it is not in the chain.
THEOREM ExclusiveUseHolds == Spec => []ExclusiveUse
  <1>1. HubInv => ExclusiveUse
    BY DEF HubInv, HubTypeOK, SessionTypeOK, UseInv, HeldOnce, Clean, ExclusiveUse
  <1> QED BY <1>1, HubInit, HubStep, PTL DEF Spec

\* Until then the connection of a session is closed under it by its watchdog only.
THEOREM KilledOnlyByTimeoutHolds == Spec => []KilledOnlyByTimeout
  <1>1. HubInv => KilledOnlyByTimeout
    BY DEF HubInv, HubTypeOK, SessionTypeOK, UseInv, KilledFree, Clean, Free, KilledOnlyByTimeout
  <1> QED BY <1>1, HubInit, HubStep, PTL DEF Spec

\* Until then every entry of a connection that no watchdog has killed has a session that will
\* remove it or faulted with it, and this session finds the entry under the key of the
\* connection unless a late Dispose has cleared the key.
THEOREM ActiveIsHeldHolds == Spec => []ActiveIsHeld
  <1>1. HubInv => ActiveIsHeld
    BY DEF HubInv, ActiveInv, EntryOwned, OwnerFinds, Clean, Keys, ActiveIsHeld
  <1> QED BY <1>1, HubInit, HubStep, PTL DEF Spec

\* Until then the loop of MoveToStalled finds the end of the chain.
THEOREM ChainEndsHolds == Spec => []ChainEnds
  <1>1. HubInv => ChainEnds BY DEF HubInv, ListInv, Linked, ChainEnds
  <1> QED BY <1>1, HubInit, HubStep, PTL DEF Spec
=============================================================================

------------------------------ MODULE InfoPage ------------------------------
(***************************************************************************)
(* The table of connections of the proxy's web GUI: wwwroot/js/site.js and the    *)
(* broadcasts of SignalRInfoService that feed it (ProxyServerWebGUI).  A row       *)
(* keeps the id of its element, the number it shows and the data it shows.          *)
(***************************************************************************)
EXTENDS PageSession

CONSTANTS Connections,   \* ids of connections of the proxy
          Values,        \* what the other columns may show
          MaxEvents      \* bound on the broadcasts

VARIABLES live,      \* the proxy's connections: id -> what its columns should show
          rows,      \* the rows after the template, in order
          missed,    \* history: ids of which a broadcast did not reach the table
          events
ivars == <<live, rows, missed, events>>

InfoInit == live = << >> /\ rows = << >> /\ missed = {} /\ events = 0

\* element.id of a row whose message had no Id, and what getElementById(undefined) looks for
Undefined == 0

\* JavaScript's undefined is the id of no connection.
ASSUME ConnectionsAssumption == Undefined \notin Connections

-----------------------------------------------------------------------------
(* SignalRInfoService *)

Notify(kind, id, data) ==
    /\ events < MaxEvents /\ events' = events + 1
    /\ Broadcast([kind |-> kind, id |-> id, data |-> data])
    /\ missed' = IF joined THEN missed ELSE missed \cup {id}
    /\ UNCHANGED rows

\* AddForAll(data), UpdateForAll(data), RemoveForAll(data)
AddForAll(id, v) ==
    /\ id \notin DOMAIN live
    /\ live' = [i \in DOMAIN live \cup {id} |-> IF i = id THEN v ELSE live[i]]
    /\ Notify("connectionAdd", id, v)

UpdateForAll(id, v) ==
    /\ id \in DOMAIN live
    /\ live' = [live EXCEPT ![id] = v]
    /\ Notify("connectionUpdateAll", id, v)

RemoveForAll(id) ==
    /\ id \in DOMAIN live
    /\ live' = [i \in DOMAIN live \ {id} |-> live[i]]
    /\ Notify("connectionRemove", id, live[id])

\* AddForAll(int) and UpdateForAllStatus send a bare number where the page wants an object, so
\* the page finds no Id in it; the table does not learn what they say.
AddNumberForAll ==
    /\ UNCHANGED live
    /\ Notify("connectionAdd", Undefined, Undefined)

UpdateStatusForAll(id, v) ==
    /\ id \in DOMAIN live
    /\ events < MaxEvents /\ events' = events + 1
    /\ live' = [live EXCEPT ![id] = v] /\ missed' = missed \cup {id}
    /\ Broadcast([kind |-> "connectionUpdateAll", id |-> Undefined, data |-> Undefined])
    /\ UNCHANGED rows

-----------------------------------------------------------------------------
(* The handlers of site.js.  One that throws leaves the table as it is. *)

Numbered(table) == [i \in DOMAIN table |-> [table[i] EXCEPT !.num = i]]

\* getElementById: the first row with this id
Found(id) == {i \in DOMAIN rows : rows[i].id = id /\ \A j \in 1..i - 1 : rows[j].id # id}

\* Mutant: the clone keeps the id of the template.
ConnectionAddKeepsId(m) ==
    Append(rows, [id |-> Undefined, num |-> Len(rows) + 1, data |-> m.data])

ConnectionAdd(m) == Append(rows, [id |-> m.id, num |-> Len(rows) + 1, data |-> m.data])

ConnectionRemove(m) ==
    IF Found(m.id) = {} THEN rows
    ELSE LET i == CHOOSE j \in Found(m.id) : TRUE
         IN  Numbered(SubSeq(rows, 1, i - 1) \o SubSeq(rows, i + 1, Len(rows)))

ConnectionUpdateAll(m) ==
    [i \in DOMAIN rows |->
        IF i \in Found(m.id) THEN [rows[i] EXCEPT !.num = i, !.data = m.data] ELSE rows[i]]

HandleInfo ==
    /\ inbox # << >>
    /\ LET m == Head(inbox)
       IN  rows' = CASE m.kind = "connectionAdd" -> ConnectionAdd(m)
                     [] m.kind = "connectionRemove" -> ConnectionRemove(m)
                     [] m.kind = "connectionUpdateAll" -> ConnectionUpdateAll(m)
    /\ Handled /\ UNCHANGED <<live, missed, events>>

-----------------------------------------------------------------------------

\* What is in transit is lost when the connection ends.
Lost == missed' = missed \cup {inbox[i].id : i \in DOMAIN inbox} /\ UNCHANGED <<live, rows, events>>

\* start() opens the connection; NotifyStart and SubscribeConnectionsAdd only join groups that
\* the service never sends to.
InfoNext ==
    \/ (Load \/ Join \/ Open \/ Drop) /\ UNCHANGED ivars
    \/ (Fail \/ CloseAndStart) /\ Lost
    \/ \E id \in Connections :
           \/ RemoveForAll(id)
           \/ \E v \in Values : AddForAll(id, v) \/ UpdateForAll(id, v) \/ UpdateStatusForAll(id, v)
    \/ AddNumberForAll
    \/ HandleInfo

\* The first column numbers the rows, whatever was removed, missed or added twice.  And once
\* everything sent has been handled, a connection of which no broadcast was missed has
\* exactly one row, with its current data, if it is live and none if it is not: a handler that
\* throws for one connection harms no other.
TableMatches ==
    /\ \A i \in DOMAIN rows : rows[i].num = i
    /\ inbox = << >> =>
        \A id \in Connections \ missed :
            LET shown == {i \in DOMAIN rows : rows[i].id = id}
            IN  IF id \in DOMAIN live
                THEN \E i \in shown : shown = {i} /\ rows[i].data = live[id]
                ELSE shown = {}
=============================================================================

---------------------------- MODULE Pages_proofs ----------------------------
(***************************************************************************)
(* Proofs about the two pages, for any consoles, connections and values and      *)
(* any number of broadcasts, clicks and reconnections.  The invariants say what    *)
(* the messages in transit still have to do: InTransit for each connection in the *)
(* table, LogsComing for each open tab, ButtonsComing for the consoles together.  *)
(***************************************************************************)
EXTENDS Pages, FiniteSetTheorems, SequenceTheorems, TLAPS

-----------------------------------------------------------------------------
(* The table of connections *)

Rows == [id : Connections \cup {Undefined}, num : Nat, data : Values \cup {Undefined}]

\* The table shows v in the one row of this id; the table has no row of this id.
Shows(table, id, v) ==
    \E i \in DOMAIN table : /\ table[i].id = id /\ table[i].data = v
                            /\ \A j \in DOMAIN table : table[j].id = id => j = i
Lacks(table, id) == \A i \in DOMAIN table : table[i].id # id

\* The messages in transit about one connection tell a story that the table can follow: the first
\* one adds the connection if and only if the table lacks it, the next one adds it if and only if
\* it has just been removed, and the last one leaves what the proxy has.  Without a message the
\* table shows what the proxy has.
About(id) == {i \in DOMAIN inbox : inbox[i].id = id}
InTransit(id) ==
    /\ Lacks(rows, id) \/ \E v \in Values \cup {Undefined} : Shows(rows, id, v)
    /\ \A i \in About(id) : 
           /\ (\A j \in About(id) : i <= j) =>
                  (inbox[i].kind = "connectionAdd" <=> Lacks(rows, id))
           /\ \A j \in About(id) :
                  i < j /\ (\A k \in About(id) : k <= i \/ j <= k) =>
                      (inbox[j].kind = "connectionAdd" <=> inbox[i].kind = "connectionRemove")
           /\ (\A j \in About(id) : j <= i) =>
                  IF id \in DOMAIN live
                  THEN inbox[i].kind # "connectionRemove" /\ inbox[i].data = live[id]
                  ELSE inbox[i].kind = "connectionRemove"
    /\ About(id) = {} => IF id \in DOMAIN live THEN Shows(rows, id, live[id]) ELSE Lacks(rows, id)

InfoTypeOK ==
    /\ inbox \in Seq(InfoMessages) /\ rows \in Seq(Rows) /\ joined \in BOOLEAN
    /\ DOMAIN live \subseteq Connections /\ live \in [DOMAIN live -> Values]
InfoInv ==
    /\ InfoTypeOK
    /\ \A i \in DOMAIN rows : rows[i].num = i
    /\ \A id \in Connections \ missed : InTransit(id)

-----------------------------------------------------------------------------
(* The page of the consoles *)

Announcement == [kind |-> "connect-console", id |-> NoId]
ConsoleSends ==
    [kind : {"completion"}] \cup [kind : {"initilize"}, ids : Seq(Consoles)]
    \cup [kind : {"write-line"}, id : Consoles] \cup {Announcement}
    \cup [kind : {"fill-console"}, id : Consoles, lines : Nat]
Requests == [name : {"NotifyStart", "RequestInitilization", "GetLogs"}, id : Consoles \cup {NoId}]

\* A button names a console that the manager has, a tab was opened by a button, and until the
\* connection is open the page has asked for logs only.
ConsoleTypeOK ==
    /\ inbox \in Seq(ConsoleSends) /\ requests \in Seq(Requests)
    /\ status \in {"idle", "starting", "open"} /\ joined \in BOOLEAN /\ sessions \in Nat
    /\ initialised \in 0..sessions
    /\ DOMAIN consoles \subseteq Consoles /\ consoles \in [DOMAIN consoles -> Nat]
    /\ IsFiniteSet(DOMAIN consoles) /\ announced \subseteq DOMAIN consoles
    /\ buttons \in Seq(DOMAIN consoles \cup {NoId})
    /\ tabs \in [DOMAIN tabs -> [fills : Seq(Nat), session : 0..sessions]]
ConsoleCalls ==
    /\ \A i \in DOMAIN requests :
           /\ requests[i].id \in DOMAIN consoles \cup {NoId}
           /\ status # "open" => requests[i].name = "GetLogs"
    /\ \A i \in DOMAIN inbox :
           /\ inbox[i].kind = "initilize" => inbox[i].ids \in Seq(DOMAIN consoles)
           /\ status # "open" => inbox[i].kind \notin {"completion", "initilize"}

\* The logs of an open tab are there, or asked for, or on their way.
LogsComing ==
    status = "open" =>
        \A id \in DOMAIN tabs \ (failed \cup {NoId}) :
            tabs[id].session = sessions /\ tabs[id].fills = << >> =>
                \/ \E i \in DOMAIN requests : requests[i].name = "GetLogs" /\ requests[i].id = id
                \/ \E i \in DOMAIN inbox : inbox[i].kind = "fill-console" /\ inbox[i].id = id

\* From the snapshot of the session on, a console without a button of its name has an
\* announcement, handled or on its way; no two consoles share one.
Occurrences(s, x) == Cardinality({i \in DOMAIN s : s[i] = x})
Snapshots == {i \in DOMAIN inbox : inbox[i].kind = "initilize"}
Listed == UNION {ToSet(inbox[i].ids) : i \in Snapshots}
Named == ToSet(buttons) \cup Listed
ButtonsComing ==
    status = "open" /\ joined /\ (initialised = sessions \/ Snapshots # {}) =>
        Cardinality(announced \ Named)
            <= Occurrences(buttons, NoId) + Occurrences(inbox, Announcement)

ConsoleInv == ConsoleTypeOK /\ ConsoleCalls /\ LogsComing /\ ButtonsComing

PagesInv ==
    /\ site = "info" => InfoInv
    /\ site = "console" => ConsoleInv /\ live = << >> /\ rows = << >>
    /\ site = "info" => tabs = << >> /\ announced = {} /\ buttons = << >>
    /\ site \in {"info", "console"}

-----------------------------------------------------------------------------
(* The handlers of site.js *)

\* What a handler does to the rows of the other connections: nothing, but for their numbers.
Keeps(table, id) ==
    /\ table \in Seq(Rows) /\ \A i \in DOMAIN table : table[i].num = i
    /\ \A other : other # id =>
           /\ Lacks(rows, other) => Lacks(table, other)
           /\ \A v : Shows(rows, other, v) => Shows(table, other, v)

\* connectionAdd makes the one row of a connection that has none.
LEMMA AddMakesRow ==
  ASSUME rows \in Seq(Rows), \A i \in DOMAIN rows : rows[i].num = i, NEW m \in InfoMessages
  PROVE  /\ Keeps(ConnectionAdd(m), m.id)
         /\ Lacks(rows, m.id) => Shows(ConnectionAdd(m), m.id, m.data)
  <1> DEFINE row == [id |-> m.id, num |-> Len(rows) + 1, data |-> m.data]
             n == Len(rows)
             t == ConnectionAdd(m)
  <1>1. row \in Rows /\ n \in Nat
    BY DEF Rows, InfoMessages
  <1>2. /\ t \in Seq(Rows) /\ DOMAIN t = 1..n + 1 /\ DOMAIN rows = 1..n
        /\ t[n + 1] = row /\ \A i \in 1..n : t[i] = rows[i]
    BY <1>1 DEF ConnectionAdd
  <1> HIDE DEF t
  <1>3. \A i \in DOMAIN t : t[i].num = i
    BY <1>1, <1>2
  <1>4. ASSUME NEW other, other # m.id
        PROVE  /\ Lacks(rows, other) => Lacks(t, other)
               /\ \A v : Shows(rows, other, v) => Shows(t, other, v)
    BY <1>1, <1>2, <1>4 DEF Lacks, Shows
  <1>5. Lacks(rows, m.id) => Shows(t, m.id, m.data)
    BY <1>1, <1>2 DEF Lacks, Shows
  <1> QED BY <1>2, <1>3, <1>4, <1>5 DEF Keeps, t

\* connectionUpdateAll changes the row it finds.
LEMMA UpdateChangesRow ==
  ASSUME rows \in Seq(Rows), \A i \in DOMAIN rows : rows[i].num = i, NEW m \in InfoMessages
  PROVE  /\ Keeps(ConnectionUpdateAll(m), m.id)
         /\ \A v : Shows(rows, m.id, v) => Shows(ConnectionUpdateAll(m), m.id, m.data)
  <1> DEFINE n == Len(rows)
             t == ConnectionUpdateAll(m)
  <1>1. n \in Nat /\ DOMAIN rows = 1..n /\ \A i \in 1..n : rows[i] \in Rows
    OBVIOUS
  <1> HIDE DEF n
  <1>2. /\ DOMAIN t = 1..n /\ \A i \in 1..n : i \notin Found(m.id) => t[i] = rows[i]
        /\ \A i \in Found(m.id) : i \in 1..n /\ t[i] = [id |-> m.id, num |-> i, data |-> m.data]
    <2>1. ASSUME NEW i \in 1..n, i \in Found(m.id)
          PROVE  [rows[i] EXCEPT !.num = i, !.data = m.data] = [id |-> m.id, num |-> i, data |-> m.data]
      <3> DEFINE row == rows[i]
                 data == m.data
      <3>1. row \in Rows /\ row.id = m.id
        BY <1>1, <2>1 DEF Found
      <3> HIDE DEF row, data
      <3>2. [row EXCEPT !.num = i] = [id |-> m.id, num |-> i, data |-> row.data]
        BY <3>1 DEF Rows
      <3>3. [row EXCEPT !.num = i, !.data = data] = [[row EXCEPT !.num = i] EXCEPT !.data = data]
        BY <3>1 DEF Rows
      <3>4. [[row EXCEPT !.num = i] EXCEPT !.data = data] = [id |-> m.id, num |-> i, data |-> data]
        <4>1. [[id |-> m.id, num |-> i, data |-> row.data] EXCEPT !.data = data] =
                  [id |-> m.id, num |-> i, data |-> data]
          OBVIOUS
        <4> QED BY <3>2, <4>1
      <3> QED BY <3>3, <3>4 DEF row, data
    <2>2. Found(m.id) \subseteq 1..n
      BY <1>1 DEF Found
    <2> QED BY <1>1, <2>1, <2>2 DEF ConnectionUpdateAll
  <1>3. ASSUME NEW i \in 1..n PROVE t[i] \in Rows /\ t[i].num = i /\ t[i].id = rows[i].id
    <2>1. CASE i \in Found(m.id)
      <3>0. i \in Nat
        BY <1>1
      <3>1. t[i] = [id |-> m.id, num |-> i, data |-> m.data]
        BY <2>1, <1>2, Zenon
      <3>2. rows[i].id = m.id
        BY <2>1 DEF Found
      <3> HIDE DEF t
      <3> QED BY <3>0, <3>1, <3>2 DEF Rows, InfoMessages
    <2>2. CASE i \notin Found(m.id)
      BY <2>2, <1>1, <1>2
    <2> QED BY <2>1, <2>2
  <1>4. t \in Seq(Rows)
    <2>1. t = [i \in 1..n |-> t[i]]
      BY <1>1 DEF ConnectionUpdateAll
    <2> HIDE DEF t
    <2>2. t \in [1..n -> Rows]
      BY <2>1, <1>3
    <2> QED BY <2>2, <1>1, SeqDef
  <1> HIDE DEF t
  <1>5. ASSUME NEW other, other # m.id
        PROVE  /\ Lacks(rows, other) => Lacks(t, other)
               /\ \A v : Shows(rows, other, v) => Shows(t, other, v)
    BY <1>1, <1>2, <1>3, <1>5 DEF Lacks, Shows, Found
  <1>6. ASSUME NEW v, Shows(rows, m.id, v) PROVE Shows(t, m.id, m.data)
    <2>1. PICK i \in 1..n : rows[i].id = m.id /\ \A j \in 1..n : rows[j].id = m.id => j = i
      BY <1>1, <1>6 DEF Shows
    <2>2. i \in Found(m.id)
      BY <2>1, <1>1 DEF Found
    <2>3. t[i].id = m.id /\ t[i].data = m.data /\ \A j \in DOMAIN t : t[j].id = m.id => j = i
      <3>1. t[i].id = m.id /\ t[i].data = m.data
        <4>1. t[i] = [id |-> m.id, num |-> i, data |-> m.data]
          BY <2>2, <1>2
        <4> QED BY <4>1
      <3>2. \A j \in DOMAIN t : t[j].id = m.id => j = i
        BY <2>1, <1>2, <1>3
      <3> QED BY <3>1, <3>2
    <2> QED BY <2>1, <2>3, <1>2 DEF Shows
  <1> QED BY <1>2, <1>3, <1>4, <1>5, <1>6 DEF Keeps, t

\* connectionRemove takes the one row of a connection out and numbers the others again.
LEMMA RemoveTakesRow ==
  ASSUME rows \in Seq(Rows), \A i \in DOMAIN rows : rows[i].num = i, NEW m \in InfoMessages
  PROVE  /\ Keeps(ConnectionRemove(m), m.id)
         /\ \A v : Shows(rows, m.id, v) => Lacks(ConnectionRemove(m), m.id)
  <1> DEFINE n == Len(rows)
             t == ConnectionRemove(m)
  <1>1. n \in Nat /\ DOMAIN rows = 1..n /\ \A i \in 1..n : rows[i] \in Rows
    OBVIOUS
  <1> HIDE DEF n
  <1>2. CASE Found(m.id) = {}
    <2>1. t = rows
      BY <1>2 DEF ConnectionRemove
    <2>2. ASSUME NEW v, Shows(rows, m.id, v) PROVE FALSE
      <3>1. PICK i \in 1..n : rows[i].id = m.id /\ \A j \in 1..n : rows[j].id = m.id => j = i
        BY <1>1, <2>2 DEF Shows
      <3>2. i \in Found(m.id)
        BY <3>1, <1>1 DEF Found
      <3> QED BY <3>2, <1>2
    <2> QED BY <2>1, <2>2 DEF Keeps
  <1>3. CASE Found(m.id) # {}
    <2>0. n = Len(rows)
      BY DEF n
    <2> DEFINE f == CHOOSE j \in Found(m.id) : TRUE
               k(j) == IF j < f THEN j ELSE j + 1
               a == SubSeq(rows, 1, f - 1)
               b == SubSeq(rows, f + 1, n)
               cut == a \o b
    <2>1. f \in 1..n /\ rows[f].id = m.id
      BY <1>3, <1>1 DEF Found
    <2>2. t = Numbered(cut)
      BY <1>3, <2>0 DEF ConnectionRemove
    <2> HIDE DEF f, t
    <2>3. a \in Seq(Rows) /\ Len(a) = f - 1 /\ \A j \in 1..f - 1 : a[j] = rows[j]
      <3>1. \A j \in 1..f - 1 : rows[j] \in Rows
        BY <2>1, <1>1
      <3>2. /\ SubSeq(rows, 1, f - 1) \in Seq(Rows)
            /\ Len(SubSeq(rows, 1, f - 1)) = IF 1 <= f - 1 THEN f - 1 - 1 + 1 ELSE 0
            /\ \A j \in 1..f - 1 - 1 + 1 : SubSeq(rows, 1, f - 1)[j] = rows[1 + j - 1]
        <4>1. f - 1 \in Int
          BY <2>1, <1>1
        <4> QED BY <3>1, <4>1, SubSeqProperties
      <3> QED BY <3>2, <2>1, <1>1
    <2>4. b \in Seq(Rows) /\ Len(b) = n - f /\ \A j \in 1..n - f : b[j] = rows[f + j]
      <3>1. \A j \in f + 1..n : rows[j] \in Rows
        BY <2>1, <1>1
      <3>2. /\ SubSeq(rows, f + 1, n) \in Seq(Rows)
            /\ Len(SubSeq(rows, f + 1, n)) = IF f + 1 <= n THEN n - (f + 1) + 1 ELSE 0
            /\ \A j \in 1..n - (f + 1) + 1 : SubSeq(rows, f + 1, n)[j] = rows[f + 1 + j - 1]
        <4>1. f + 1 \in Int /\ n \in Int
          BY <2>1, <1>1
        <4> QED BY <3>1, <4>1, SubSeqProperties
      <3> QED BY <3>2, <2>1, <1>1
    <2> HIDE DEF a, b
    <2>5. /\ cut \in Seq(Rows) /\ Len(cut) = n - 1 /\ DOMAIN cut = 1..n - 1
          /\ \A j \in 1..n - 1 : cut[j] = rows[k(j)] /\ k(j) \in 1..n /\ k(j) # f
      <3>1. /\ cut \in Seq(Rows) /\ Len(cut) = Len(a) + Len(b)
            /\ \A j \in 1..Len(a) + Len(b) :
                   cut[j] = IF j <= Len(a) THEN a[j] ELSE b[j - Len(a)]
        BY <2>3, <2>4, ConcatProperties
      <3> HIDE DEF cut
      <3>2. /\ Len(cut) = n - 1 /\ DOMAIN cut = 1..n - 1
            /\ \A j \in 1..n - 1 : cut[j] = IF j <= Len(a) THEN a[j] ELSE b[j - Len(a)]
        <4>1. Len(a) + Len(b) = n - 1
          BY <2>1, <2>3, <2>4, <1>1
        <4> QED BY <4>1, <3>1
      <3>3. \A j \in 1..n - 1 : k(j) \in 1..n /\ k(j) # f
        BY <2>1, <1>1
      <3>4. ASSUME NEW j \in 1..n - 1 PROVE cut[j] = rows[k(j)]
        <4>1. CASE j < f
          BY <4>1, <3>2, <2>1, <2>3, <1>1
        <4>2. CASE ~(j < f)
          <5>1. ~(j <= Len(a)) /\ j - Len(a) \in 1..n - f /\ f + (j - Len(a)) = j + 1
            BY <4>2, <2>1, <2>3, <1>1
          <5> QED BY <5>1, <4>2, <3>2, <2>4
        <4> QED BY <4>1, <4>2
      <3> QED BY <3>1, <3>2, <3>3, <3>4
    <2> HIDE DEF cut
    <2>6. t = [j \in 1..n - 1 |-> [id |-> rows[k(j)].id, num |-> j, data |-> rows[k(j)].data]]
      <3>1. t = [j \in 1..n - 1 |-> [cut[j] EXCEPT !.num = j]]
        BY <2>2, <2>5 DEF Numbered
      <3>2. \A j \in 1..n - 1 : [cut[j] EXCEPT !.num = j] =
                [id |-> rows[k(j)].id, num |-> j, data |-> rows[k(j)].data]
        <4>1. \A j \in 1..n - 1 : cut[j] = rows[k(j)] /\ rows[k(j)] \in Rows
          BY <2>5, <1>1
        <4> HIDE DEF k
        <4> QED BY <4>1 DEF Rows
      <3> QED BY <3>1, <3>2
    <2>7. /\ DOMAIN t = 1..n - 1
          /\ \A j \in 1..n - 1 : /\ t[j].num = j /\ t[j].id = rows[k(j)].id
                                 /\ t[j].data = rows[k(j)].data /\ t[j] \in Rows
      <3>1. \A j \in 1..n - 1 : k(j) \in 1..n /\ j \in Nat
        BY <2>1, <1>1
      <3> HIDE DEF k
      <3> QED BY <2>6, <3>1, <1>1 DEF Rows
    <2>8. t \in Seq(Rows)
      <3>1. t \in [1..n - 1 -> Rows]
        BY <2>6, <2>7, Zenon
      <3> QED BY <3>1, <2>1, <1>1, SeqDef
    <2>9. ASSUME NEW other, Lacks(rows, other) PROVE Lacks(t, other)
      BY <2>1, <2>7, <2>9, <1>1 DEF Lacks
    <2>10. ASSUME NEW other, other # m.id, NEW v, Shows(rows, other, v) PROVE Shows(t, other, v)
      <3>1. PICK i \in 1..n : /\ rows[i].id = other /\ rows[i].data = v
                              /\ \A j \in 1..n : rows[j].id = other => j = i
        BY <2>10, <1>1 DEF Shows
      <3> DEFINE p == IF i < f THEN i ELSE i - 1
      <3>2. i # f
        BY <3>1, <2>1, <2>10
      <3>3. p \in 1..n - 1 /\ k(p) = i
        BY <3>2, <2>1, <1>1
      <3>4. \A j \in 1..n - 1 : k(j) = i => j = p
        BY <3>2, <2>1, <1>1
      <3>5. \A j \in 1..n - 1 : k(j) \in 1..n
        BY <2>1, <1>1
      <3> HIDE DEF k, p
      <3>6. t[p].id = other /\ t[p].data = v /\ \A j \in DOMAIN t : t[j].id = other => j = p
        BY <3>1, <3>3, <3>4, <3>5, <2>7
      <3> QED BY <3>3, <3>6, <2>7 DEF Shows
    <2>11. ASSUME NEW v, Shows(rows, m.id, v) PROVE Lacks(t, m.id)
      <3>1. \A j \in 1..n : rows[j].id = m.id => j = f
        BY <2>11, <2>1, <1>1 DEF Shows
      <3>2. \A j \in 1..n - 1 : k(j) \in 1..n /\ k(j) # f
        BY <2>1, <1>1
      <3> QED BY <3>1, <3>2, <2>7 DEF Lacks
    <2>12. \A i \in DOMAIN t : t[i].num = i
      BY <2>7
    <2>13. Keeps(t, m.id)
      BY <2>8, <2>9, <2>10, <2>12, Zenon DEF Keeps
    <2> QED BY <2>11, <2>13 DEF t
  <1> QED BY <1>2, <1>3

-----------------------------------------------------------------------------
(* Messages about a connection *)

\* A broadcast continues the story of its connection and leaves the others alone.
LEMMA BroadcastContinues ==
  ASSUME InfoTypeOK, NEW m \in InfoMessages, inbox' = Append(inbox, m), rows' = rows,
         NEW id, InTransit(id),
         id # m.id => /\ id \in DOMAIN live' <=> id \in DOMAIN live
                      /\ id \in DOMAIN live => live'[id] = live[id],
         id = m.id => /\ m.kind = "connectionAdd" <=> id \notin DOMAIN live
                      /\ IF id \in DOMAIN live'
                         THEN m.kind # "connectionRemove" /\ m.data = live'[id]
                         ELSE m.kind = "connectionRemove"
  PROVE  InTransit(id)'
  <1> DEFINE n == Len(inbox)
  <1>1. /\ n \in Nat /\ DOMAIN inbox = 1..n /\ DOMAIN inbox' = 1..n + 1
        /\ inbox'[n + 1] = m /\ \A i \in 1..n : inbox'[i] = inbox[i]
    BY DEF InfoTypeOK
  <1> HIDE DEF n
  <1>2. \A i \in About(id) : i \in 1..n /\ i \in Int /\ inbox'[i] = inbox[i] /\ i \in About(id)'
    BY <1>1 DEF About
  <1>3. CASE id # m.id
    <2>1. About(id)' = About(id)
      BY <1>1, <1>3 DEF About
    <2>2. \A i \in About(id) : inbox'[i] = inbox[i]
      BY <1>2
    <2> QED BY <1>3, <2>1, <2>2, ZenonT(60) DEF InTransit
  <1>4. CASE id = m.id
    <2>1. About(id)' = About(id) \cup {n + 1} /\ n + 1 \notin About(id)
      BY <1>1, <1>4 DEF About
    <2>2. Lacks(rows, id) \/ \E v \in Values \cup {Undefined} : Shows(rows, id, v)
      BY DEF InTransit
    <2>3. ASSUME NEW i \in About(id)', \A j \in About(id)' : i <= j
          PROVE  inbox'[i].kind = "connectionAdd" <=> Lacks(rows, id)
      <3>1. CASE i \in About(id)
        BY <3>1, <2>1, <2>3, <1>2 DEF InTransit
      <3>2. CASE i = n + 1
        <4>1. About(id) = {}
          BY <3>2, <2>1, <2>3, <1>1, <1>2
        <4>2. IF id \in DOMAIN live THEN Shows(rows, id, live[id]) ELSE Lacks(rows, id)
          BY <4>1 DEF InTransit
        <4>3. id \notin DOMAIN live <=> Lacks(rows, id)
          BY <4>2 DEF Shows, Lacks
        <4> QED BY <4>3, <3>2, <1>1, <1>4
      <3> QED BY <3>1, <3>2, <2>1
    <2>4. ASSUME NEW i \in About(id)', NEW j \in About(id)', i < j,
                 \A k \in About(id)' : k <= i \/ j <= k
          PROVE  inbox'[j].kind = "connectionAdd" <=> inbox'[i].kind = "connectionRemove"
      <3>1. i \in About(id)
        BY <2>1, <2>4, <1>1, <1>2
      <3>2. CASE j \in About(id)
        <4>1. \A k \in About(id) : k <= i \/ j <= k
          BY <2>1, <2>4
        <4> QED BY <3>1, <3>2, <4>1, <2>4, <1>2 DEF InTransit
      <3>3. CASE j = n + 1
        <4>1. \A k \in About(id) : k <= i
          BY <3>3, <2>1, <2>4, <1>1, <1>2
        <4>2. id \notin DOMAIN live <=> inbox[i].kind = "connectionRemove"
          BY <4>1, <3>1 DEF InTransit
        <4> QED BY <4>2, <3>1, <3>3, <1>1, <1>2, <1>4
      <3> QED BY <3>2, <3>3, <2>1
    <2>5. ASSUME NEW i \in About(id)', \A j \in About(id)' : j <= i
          PROVE  IF id \in DOMAIN live'
                 THEN inbox'[i].kind # "connectionRemove" /\ inbox'[i].data = live'[id]
                 ELSE inbox'[i].kind = "connectionRemove"
      <3>1. i = n + 1
        BY <2>1, <2>5, <1>1, <1>2
      <3> QED BY <3>1, <1>1, <1>4
    <2>6. About(id)' # {}
      BY <2>1
    <2> QED BY <2>2, <2>3, <2>4, <2>5, <2>6 DEF InTransit
  <1> QED BY <1>3, <1>4

\* Handling a message takes the first part of its connection's story into the table.
LEMMA HandlingAdvances ==
  ASSUME InfoTypeOK, inbox # << >>, inbox' = Tail(inbox), live' = live,
         NEW id \in Connections, InTransit(id), Keeps(rows', Head(inbox).id),
         id = Head(inbox).id =>
            LET m == Head(inbox)
            IN  IF m.kind = "connectionAdd" THEN Lacks(rows, id) => Shows(rows', id, m.data)
                ELSE \A v : Shows(rows, id, v) =>
                         IF m.kind = "connectionRemove" THEN Lacks(rows', id)
                         ELSE Shows(rows', id, m.data)
  PROVE  InTransit(id)'
  <1> DEFINE n == Len(inbox)
             m == Head(inbox)
  <1>1. /\ n \in Nat \ {0} /\ DOMAIN inbox = 1..n /\ DOMAIN inbox' = 1..n - 1
        /\ m = inbox[1] /\ m \in InfoMessages /\ \A i \in 1..n - 1 : inbox'[i] = inbox[i + 1]
    BY DEF InfoTypeOK
  <1>2. m.data \in Values \cup {Undefined}
    BY <1>1 DEF InfoMessages
  <1> HIDE DEF n, m
  <1>3. /\ \A i \in About(id)' : /\ i \in 1..n - 1 /\ i + 1 \in About(id)
                                 /\ inbox'[i] = inbox[i + 1]
        /\ \A i \in About(id) : i \in 1..n /\ (i = 1 \/ i - 1 \in About(id)')
    BY <1>1 DEF About
  <1>4. Lacks(rows, id) \/ \E v \in Values \cup {Undefined} : Shows(rows, id, v)
    BY DEF InTransit
  <1>5. ASSUME NEW v, Shows(rows, id, v) PROVE ~Lacks(rows, id)
    BY <1>5 DEF Shows, Lacks
  <1>6. ASSUME NEW v, Shows(rows', id, v) PROVE ~Lacks(rows', id)
    BY <1>6 DEF Shows, Lacks
  <1>7. ASSUME NEW i \in About(id)', NEW j \in About(id)', i < j,
               \A k \in About(id)' : k <= i \/ j <= k
        PROVE  inbox'[j].kind = "connectionAdd" <=> inbox'[i].kind = "connectionRemove"
    <2>1. i + 1 < j + 1 /\ \A k \in About(id) : k <= i + 1 \/ j + 1 <= k
      BY <1>1, <1>3, <1>7
    <2> QED BY <2>1, <1>3, ZenonT(60) DEF InTransit
  <1>8. ASSUME NEW i \in About(id)', \A j \in About(id)' : j <= i
        PROVE  IF id \in DOMAIN live
               THEN inbox'[i].kind # "connectionRemove" /\ inbox'[i].data = live[id]
               ELSE inbox'[i].kind = "connectionRemove"
    <2>1. ASSUME NEW j \in About(id) PROVE j <= i + 1
      <3>1. j \in Int /\ i \in Int /\ 1 <= i
        BY <1>1, <1>3
      <3>2. j = 1 \/ j - 1 <= i
        BY <1>3, <1>8
      <3> QED BY <3>1, <3>2
    <2> QED BY <2>1, <1>3 DEF InTransit
  <1>9. CASE id # m.id
    <2>1. /\ Lacks(rows, id) => Lacks(rows', id)
          /\ \A v : Shows(rows, id, v) => Shows(rows', id, v)
      BY <1>9 DEF Keeps, m
    <2>2. 1 \notin About(id)
      BY <1>9, <1>1 DEF About
    <2>3. Lacks(rows, id) <=> Lacks(rows', id)
      BY <2>1, <1>4, <1>5, <1>6
    <2>4. ASSUME NEW i \in About(id)', \A j \in About(id)' : i <= j
          PROVE  inbox'[i].kind = "connectionAdd" <=> Lacks(rows', id)
      <3>1. \A j \in About(id) : i + 1 <= j
        BY <1>1, <1>3, <2>2, <2>4
      <3> QED BY <3>1, <2>3, <1>3 DEF InTransit
    <2>5. About(id)' = {} => About(id) = {}
      BY <2>2, <1>3
    <2>6. About(id)' = {} => IF id \in DOMAIN live THEN Shows(rows', id, live[id]) ELSE Lacks(rows', id)
      BY <2>1, <2>5 DEF InTransit
    <2>7. Lacks(rows', id) \/ \E v \in Values \cup {Undefined} : Shows(rows', id, v)
      BY <2>1, <1>4
    <2> QED BY <2>4, <2>6, <2>7, <1>7, <1>8 DEF InTransit
  <1>10. CASE id = m.id
    <2>1. 1 \in About(id) /\ \A j \in About(id) : 1 <= j
      BY <1>10, <1>1 DEF About
    <2>2. m.kind = "connectionAdd" <=> Lacks(rows, id)
      BY <2>1, <1>1 DEF InTransit
    <2>3. IF m.kind = "connectionRemove" THEN Lacks(rows', id) ELSE Shows(rows', id, m.data)
      BY <2>2, <1>4, <1>10 DEF m
    <2>4. m.kind = "connectionRemove" <=> Lacks(rows', id)
      BY <2>3, <1>6
    <2>5. ASSUME NEW i \in About(id)', \A j \in About(id)' : i <= j
          PROVE  inbox'[i].kind = "connectionAdd" <=> Lacks(rows', id)
      <3>1. 1 < i + 1 /\ \A k \in About(id) : k <= 1 \/ i + 1 <= k
        BY <1>1, <1>3, <2>5
      <3> QED BY <3>1, <2>1, <2>4, <1>1, <1>3 DEF InTransit
    <2>6. ASSUME About(id)' = {}
          PROVE  IF id \in DOMAIN live THEN Shows(rows', id, live[id]) ELSE Lacks(rows', id)
      <3>1. \A j \in About(id) : j <= 1
        BY <1>3, <2>6
      <3>2. IF id \in DOMAIN live THEN m.kind # "connectionRemove" /\ m.data = live[id]
            ELSE m.kind = "connectionRemove"
        BY <3>1, <2>1, <1>1 DEF InTransit
      <3> QED BY <3>2, <2>3
    <2>7. Lacks(rows', id) \/ \E v \in Values \cup {Undefined} : Shows(rows', id, v)
      BY <2>3, <1>2
    <2> QED BY <2>5, <2>6, <2>7, <1>7, <1>8 DEF InTransit
  <1> QED BY <1>9, <1>10

\* A broadcast keeps the invariant whether it reaches the page or not.
LEMMA NotifyKeepsInfoInv ==
  ASSUME InfoInv, NEW kind, NEW id, NEW data, [kind |-> kind, id |-> id, data |-> data] \in InfoMessages,
         Broadcast([kind |-> kind, id |-> id, data |-> data]),
         missed \subseteq missed', ~joined => id \in missed', rows' = rows,
         DOMAIN live' \subseteq Connections, live' \in [DOMAIN live' -> Values],
         \A other \in Connections \ {id} :
            /\ other \in DOMAIN live' <=> other \in DOMAIN live
            /\ other \in DOMAIN live => live'[other] = live[other],
         id \in Connections \ missed' =>
            /\ kind = "connectionAdd" <=> id \notin DOMAIN live
            /\ IF id \in DOMAIN live' THEN kind # "connectionRemove" /\ data = live'[id]
               ELSE kind = "connectionRemove"
  PROVE  InfoInv'
  <1> DEFINE m == [kind |-> kind, id |-> id, data |-> data]
  <1>1. m \in InfoMessages /\ m.kind = kind /\ m.id = id /\ m.data = data
    OBVIOUS
  <1>2. inbox' = IF joined THEN Append(inbox, m) ELSE inbox
    BY DEF Broadcast
  <1>3. InfoTypeOK
    BY DEF InfoInv
  <1>4. InfoTypeOK'
    <2>1. joined' \in BOOLEAN
      BY <1>3 DEF InfoTypeOK, Broadcast
    <2>2. inbox' \in Seq(InfoMessages)
      BY <1>1, <1>2, <1>3 DEF InfoTypeOK
    <2> QED BY <1>3, <2>1, <2>2 DEF InfoTypeOK
  <1> HIDE DEF m
  <1>5. ASSUME NEW other \in Connections \ missed' PROVE InTransit(other)'
    <2>1. InTransit(other)
      BY <1>5 DEF InfoInv
    <2>2. CASE joined
      <3>1. inbox' = Append(inbox, m)
        BY <2>2, <1>2
      <3>2. other # m.id => /\ other \in DOMAIN live' <=> other \in DOMAIN live
                            /\ other \in DOMAIN live => live'[other] = live[other]
        BY <1>1
      <3>3. other = m.id => /\ m.kind = "connectionAdd" <=> other \notin DOMAIN live
                            /\ IF other \in DOMAIN live'
                               THEN m.kind # "connectionRemove" /\ m.data = live'[other]
                               ELSE m.kind = "connectionRemove"
        BY <1>1, <1>5
      <3> QED BY <3>1, <3>2, <3>3, <2>1, <1>1, <1>3, BroadcastContinues
    <2>3. CASE ~joined
      <3>1. inbox' = inbox /\ other # id
        BY <2>3, <1>2
      <3>2. About(other)' = About(other)
        BY <3>1 DEF About
      <3> QED BY <3>1, <3>2, <2>1 DEF InTransit
    <2> QED BY <2>2, <2>3
  <1> QED BY <1>4, <1>5 DEF InfoInv

LEMMA InfoStep ==
  ASSUME InfoInv, InfoNext
  PROVE  InfoInv'
  <1> USE DEF InfoInv
  <1>1. CASE (Load \/ Join \/ Open \/ Drop) /\ UNCHANGED ivars
    <2>1. inbox' = inbox /\ joined' \in BOOLEAN /\ UNCHANGED <<live, rows, missed>>
      BY <1>1 DEF Load, Join, Open, Drop, ivars, InfoTypeOK
    <2>2. \A id : About(id)' = About(id)
      BY <2>1 DEF About
    <2>3. \A id : InTransit(id) => InTransit(id)'
      BY <2>1, <2>2 DEF InTransit
    <2>4. InfoTypeOK'
      BY <2>1 DEF InfoTypeOK
    <2> QED BY <2>1, <2>3, <2>4
  <1>2. CASE (Fail \/ CloseAndStart) /\ Lost
    <2>1. inbox' = << >> /\ joined' = FALSE /\ UNCHANGED <<live, rows>>
      BY <1>2 DEF Fail, CloseAndStart, Lost
    <2>2. missed' = missed \cup {inbox[i].id : i \in DOMAIN inbox}
      BY <1>2 DEF Lost
    <2>3. ASSUME NEW id \in Connections \ missed' PROVE InTransit(id)'
      <3>1. About(id) = {} /\ InTransit(id)
        BY <2>2, <2>3 DEF About
      <3>2. About(id)' = {}
        BY <2>1 DEF About
      <3> QED BY <3>1, <3>2, <2>1 DEF InTransit
    <2>4. InfoTypeOK'
      <3>1. inbox' \in Seq(InfoMessages)
        BY <2>1
      <3> QED BY <3>1, <2>1 DEF InfoTypeOK
    <2> QED BY <2>1, <2>3, <2>4
  <1>3. ASSUME NEW id \in Connections, RemoveForAll(id) PROVE InfoInv'
    <2>1. id \in DOMAIN live /\ live' = [i \in DOMAIN live \ {id} |-> live[i]]
      BY <1>3 DEF RemoveForAll
    <2>2. /\ Broadcast([kind |-> "connectionRemove", id |-> id, data |-> live[id]])
          /\ missed \subseteq missed' /\ (~joined => id \in missed') /\ rows' = rows
      BY <1>3 DEF RemoveForAll, Notify
    <2>3. [kind |-> "connectionRemove", id |-> id, data |-> live[id]] \in InfoMessages
      BY <2>1 DEF InfoMessages, InfoTypeOK
    <2>4. /\ DOMAIN live' \subseteq Connections /\ live' \in [DOMAIN live' -> Values]
          /\ DOMAIN live' = DOMAIN live \ {id}
          /\ \A other \in Connections \ {id} : other \in DOMAIN live => live'[other] = live[other]
      BY <2>1 DEF InfoTypeOK
    <2> QED BY <2>1, <2>2, <2>3, <2>4, NotifyKeepsInfoInv
  <1>4. ASSUME NEW id \in Connections, NEW v \in Values, AddForAll(id, v) PROVE InfoInv'
    <2>1. /\ id \notin DOMAIN live
          /\ live' = [i \in DOMAIN live \cup {id} |-> IF i = id THEN v ELSE live[i]]
      BY <1>4 DEF AddForAll
    <2>2. /\ Broadcast([kind |-> "connectionAdd", id |-> id, data |-> v])
          /\ missed \subseteq missed' /\ (~joined => id \in missed') /\ rows' = rows
      BY <1>4 DEF AddForAll, Notify
    <2>3. [kind |-> "connectionAdd", id |-> id, data |-> v] \in InfoMessages
      BY DEF InfoMessages
    <2>4. /\ DOMAIN live' \subseteq Connections /\ live' \in [DOMAIN live' -> Values]
          /\ DOMAIN live' = DOMAIN live \cup {id} /\ live'[id] = v
          /\ \A other \in Connections \ {id} : other \in DOMAIN live => live'[other] = live[other]
      BY <2>1 DEF InfoTypeOK
    <2> QED BY <2>1, <2>2, <2>3, <2>4, NotifyKeepsInfoInv
  <1>5. ASSUME NEW id \in Connections, NEW v \in Values, UpdateForAll(id, v) PROVE InfoInv'
    <2>1. id \in DOMAIN live /\ live' = [live EXCEPT ![id] = v]
      BY <1>5 DEF UpdateForAll
    <2>2. /\ Broadcast([kind |-> "connectionUpdateAll", id |-> id, data |-> v])
          /\ missed \subseteq missed' /\ (~joined => id \in missed') /\ rows' = rows
      BY <1>5 DEF UpdateForAll, Notify
    <2>3. [kind |-> "connectionUpdateAll", id |-> id, data |-> v] \in InfoMessages
      BY DEF InfoMessages
    <2>4. /\ DOMAIN live' \subseteq Connections /\ live' \in [DOMAIN live' -> Values]
          /\ DOMAIN live' = DOMAIN live /\ live'[id] = v
          /\ \A other \in Connections \ {id} : other \in DOMAIN live => live'[other] = live[other]
      BY <2>1 DEF InfoTypeOK
    <2> QED BY <2>1, <2>2, <2>3, <2>4, NotifyKeepsInfoInv
  <1>6. ASSUME NEW id \in Connections, NEW v \in Values, UpdateStatusForAll(id, v) PROVE InfoInv'
    <2>1. id \in DOMAIN live /\ live' = [live EXCEPT ![id] = v] /\ missed' = missed \cup {id}
      BY <1>6 DEF UpdateStatusForAll
    <2> DEFINE m == [kind |-> "connectionUpdateAll", id |-> Undefined, data |-> Undefined]
    <2>2. Broadcast(m) /\ rows' = rows
      BY <1>6 DEF UpdateStatusForAll
    <2>3. m \in InfoMessages /\ m.id = Undefined
      BY DEF InfoMessages
    <2>4. /\ DOMAIN live' \subseteq Connections /\ live' \in [DOMAIN live' -> Values]
          /\ DOMAIN live' = DOMAIN live
          /\ \A other \in Connections \ {id} : other \in DOMAIN live => live'[other] = live[other]
      BY <2>1 DEF InfoTypeOK
    <2>5. inbox' = (IF joined THEN Append(inbox, m) ELSE inbox) /\ joined' = joined
      BY <2>2 DEF Broadcast
    <2> HIDE DEF m
    <2>6. InfoTypeOK'
      <3>1. inbox' \in Seq(InfoMessages)
        BY <2>3, <2>5 DEF InfoTypeOK
      <3> QED BY <3>1, <2>2, <2>4, <2>5 DEF InfoTypeOK
    <2>7. ASSUME NEW other \in Connections \ missed' PROVE InTransit(other)'
      <3>1. InTransit(other) /\ other # id /\ other # m.id
        BY <2>1, <2>3, <2>7, ConnectionsAssumption
      <3>2. CASE joined
        <4>1. /\ other \in DOMAIN live' <=> other \in DOMAIN live
              /\ other \in DOMAIN live => live'[other] = live[other]
          BY <3>1, <2>4
        <4> QED BY <3>1, <3>2, <4>1, <2>2, <2>3, <2>5, BroadcastContinues
      <3>3. CASE ~joined
        <4>1. inbox' = inbox /\ About(other)' = About(other)
          BY <3>3, <2>5 DEF About
        <4>2. /\ other \in DOMAIN live' <=> other \in DOMAIN live
              /\ other \in DOMAIN live => live'[other] = live[other]
          BY <3>1, <2>4
        <4> QED BY <4>1, <4>2, <3>1, <2>2 DEF InTransit
      <3> QED BY <3>2, <3>3
    <2> QED BY <2>2, <2>6, <2>7
  <1>7. CASE AddNumberForAll
    <2>1. /\ Broadcast([kind |-> "connectionAdd", id |-> Undefined, data |-> Undefined])
          /\ missed \subseteq missed' /\ (~joined => Undefined \in missed')
          /\ rows' = rows /\ live' = live
      BY <1>7 DEF AddNumberForAll, Notify
    <2>2. [kind |-> "connectionAdd", id |-> Undefined, data |-> Undefined] \in InfoMessages
      BY DEF InfoMessages
    <2>3. DOMAIN live' \subseteq Connections /\ live' \in [DOMAIN live' -> Values]
      BY <2>1 DEF InfoTypeOK
    <2> QED BY <2>1, <2>2, <2>3, ConnectionsAssumption, NotifyKeepsInfoInv
  <1>8. CASE HandleInfo
    <2> DEFINE m == Head(inbox)
    <2>1. inbox # << >> /\ inbox' = Tail(inbox) /\ UNCHANGED <<live, missed, joined>>
      BY <1>8 DEF HandleInfo, Handled
    <2>2. /\ m \in InfoMessages
          /\ m.kind \in {"connectionAdd", "connectionRemove", "connectionUpdateAll"}
      <3>1. inbox \in Seq(InfoMessages)
        BY DEF InfoTypeOK
      <3>2. m \in InfoMessages
        BY <3>1, <2>1
      <3> QED BY <3>2 DEF InfoMessages
    <2>3. rows \in Seq(Rows)
      BY DEF InfoTypeOK
    <2>4. CASE m.kind = "connectionAdd"
      <3>1. rows' = ConnectionAdd(m)
        BY <1>8, <2>4 DEF HandleInfo
      <3>2. Keeps(rows', m.id) /\ (Lacks(rows, m.id) => Shows(rows', m.id, m.data))
        BY <3>1, <2>2, <2>3, AddMakesRow
      <3>3. ASSUME NEW id \in Connections \ missed' PROVE InTransit(id)'
        BY <3>2, <3>3, <2>1, <2>4, HandlingAdvances
      <3>4. InfoTypeOK'
        BY <3>2, <2>1 DEF InfoTypeOK, Keeps
      <3> QED BY <3>2, <3>3, <3>4 DEF Keeps
    <2>5. CASE m.kind = "connectionRemove"
      <3>1. rows' = ConnectionRemove(m)
        BY <1>8, <2>5 DEF HandleInfo
      <3>2. Keeps(rows', m.id) /\ (\A v : Shows(rows, m.id, v) => Lacks(rows', m.id))
        BY <3>1, <2>2, <2>3, RemoveTakesRow
      <3>3. ASSUME NEW id \in Connections \ missed' PROVE InTransit(id)'
        BY <3>2, <3>3, <2>1, <2>5, HandlingAdvances
      <3>4. InfoTypeOK'
        BY <3>2, <2>1 DEF InfoTypeOK, Keeps
      <3> QED BY <3>2, <3>3, <3>4 DEF Keeps
    <2>6. CASE m.kind = "connectionUpdateAll"
      <3>1. rows' = ConnectionUpdateAll(m)
        BY <1>8, <2>6 DEF HandleInfo
      <3>2. Keeps(rows', m.id) /\ (\A v : Shows(rows, m.id, v) => Shows(rows', m.id, m.data))
        BY <3>1, <2>2, <2>3, UpdateChangesRow
      <3>3. ASSUME NEW id \in Connections \ missed' PROVE InTransit(id)'
        BY <3>2, <3>3, <2>1, <2>6, HandlingAdvances
      <3>4. InfoTypeOK'
        BY <3>2, <2>1 DEF InfoTypeOK, Keeps
      <3> QED BY <3>2, <3>3, <3>4 DEF Keeps
    <2> QED BY <2>2, <2>4, <2>5, <2>6
  <1> QED BY <1>1, <1>2, <1>3, <1>4, <1>5, <1>6, <1>7, <1>8 DEF InfoNext

-----------------------------------------------------------------------------
(* Counting *)

LEMMA OccurrencesType ==
  ASSUME NEW S, NEW s \in Seq(S), NEW x
  PROVE  IsFiniteSet({i \in DOMAIN s : s[i] = x}) /\ Occurrences(s, x) \in Nat
  <1>1. Len(s) \in Nat /\ DOMAIN s = 1..Len(s)
    OBVIOUS
  <1>2. IsFiniteSet(DOMAIN s)
    BY <1>1, FS_Interval
  <1>3. {i \in DOMAIN s : s[i] = x} \in SUBSET DOMAIN s
    OBVIOUS
  <1> QED BY <1>2, <1>3, FS_Subset, FS_CardinalityType DEF Occurrences

\* What is appended takes nothing away.
LEMMA OccurrencesConcat ==
  ASSUME NEW S, NEW s \in Seq(S), NEW t \in Seq(S), NEW x
  PROVE  Occurrences(s, x) <= Occurrences(s \o t, x)
  <1>1. s \o t \in Seq(S) /\ DOMAIN s \subseteq DOMAIN (s \o t) /\ \A i \in DOMAIN s : (s \o t)[i] = s[i]
    OBVIOUS
  <1>2. {i \in DOMAIN s : s[i] = x} \in SUBSET {i \in DOMAIN (s \o t) : (s \o t)[i] = x}
    BY <1>1
  <1>3. IsFiniteSet({i \in DOMAIN (s \o t) : (s \o t)[i] = x})
    BY <1>1, OccurrencesType
  <1>4. Cardinality({i \in DOMAIN s : s[i] = x}) <= Cardinality({i \in DOMAIN (s \o t) : (s \o t)[i] = x})
    BY <1>2, <1>3, FS_Subset
  <1> QED BY <1>4 DEF Occurrences

\* One more of x is one more occurrence of it.
LEMMA OccurrencesAppend ==
  ASSUME NEW S, NEW s \in Seq(S), NEW x \in S
  PROVE  Occurrences(Append(s, x), x) = Occurrences(s, x) + 1
  <1> DEFINE A == {i \in DOMAIN s : s[i] = x}
             n == Len(s)
             t == Append(s, x)
  <1>1. n \in Nat /\ DOMAIN s = 1..n /\ DOMAIN t = 1..n + 1 /\ t[n + 1] = x /\ \A i \in 1..n : t[i] = s[i]
    OBVIOUS
  <1> HIDE DEF n, t
  <1>2. {i \in DOMAIN t : t[i] = x} = A \cup {n + 1} /\ n + 1 \notin A
    BY <1>1
  <1>3. IsFiniteSet(A)
    BY OccurrencesType
  <1> HIDE DEF A
  <1>4. Cardinality(A \cup {n + 1}) = Cardinality(A) + 1
    BY <1>2, <1>3, FS_AddElement
  <1> QED BY <1>2, <1>4 DEF Occurrences, A, t

\* The tail has lost the head only.
LEMMA OccurrencesTail ==
  ASSUME NEW S, NEW s \in Seq(S), s # << >>, NEW x
  PROVE  Occurrences(s, x) <= Occurrences(Tail(s), x) + (IF Head(s) = x THEN 1 ELSE 0)
  <1> DEFINE A == {i \in DOMAIN s : s[i] = x}
             t == Tail(s)
             B == {i \in DOMAIN t : t[i] = x}
             n == Len(s)
             f == [i \in A \ {1} |-> i - 1]
  <1>1. /\ n \in Nat \ {0} /\ DOMAIN s = 1..n /\ DOMAIN t = 1..n - 1 /\ Head(s) = s[1]
        /\ \A i \in 1..n - 1 : t[i] = s[i + 1]
        /\ t \in Seq(S)
    OBVIOUS
  <1> HIDE DEF n, t
  <1>2. IsFiniteSet(A) /\ IsFiniteSet(B) /\ Cardinality(A) \in Nat /\ Cardinality(B) \in Nat
    <2>1. IsFiniteSet(A) /\ Cardinality(A) \in Nat
      BY OccurrencesType DEF Occurrences
    <2>2. IsFiniteSet(B) /\ Cardinality(B) \in Nat
      BY <1>1, OccurrencesType DEF Occurrences
    <2> QED BY <2>1, <2>2
  <1>3. \A i \in A \ {1} : i \in Int /\ i - 1 \in B
    BY <1>1
  <1> HIDE DEF A, B
  <1>4. f \in Injection(A \ {1}, B)
    BY <1>3 DEF Injection, IsInjective
  <1>5. Cardinality(A \ {1}) <= Cardinality(B)
    BY <1>2, <1>4, FS_Injection
  <1>6. Cardinality(A \ {1}) = IF 1 \in A THEN Cardinality(A) - 1 ELSE Cardinality(A)
    BY <1>2, FS_RemoveElement
  <1>7. 1 \in A <=> Head(s) = x
    BY <1>1 DEF A
  <1>8. Cardinality(A) <= Cardinality(B) + (IF Head(s) = x THEN 1 ELSE 0)
    BY <1>2, <1>5, <1>6, <1>7
  <1> QED BY <1>8 DEF Occurrences, A, B, t

\* The list of a snapshot names every console.
LEMMA SnapshotIsComplete ==
  ASSUME NEW S, IsFiniteSet(S), NEW s \in SetToSeqs(S)
  PROVE  s \in Seq(S) /\ ToSet(s) = S
  <1> DEFINE n == Cardinality(S)
  <1>1. n \in Nat /\ IsFiniteSet(1..n) /\ Cardinality(1..n) = n
    BY FS_CardinalityType, FS_Interval
  <1>2. s \in [1..n -> S] /\ \A i, j \in 1..n : i # j => s[i] # s[j]
    BY DEF SetToSeqs
  <1> HIDE DEF n
  <1>3. s \in Injection(1..n, S)
    BY <1>2 DEF Injection, IsInjective
  <1>4. s \in Surjection(1..n, S)
    BY <1>1, <1>3, FS_Injection DEF n
  <1>5. \A c \in S : \E i \in 1..n : s[i] = c
    BY <1>4 DEF Surjection
  <1> QED BY <1>1, <1>2, <1>5, SeqDef DEF ToSet

-----------------------------------------------------------------------------
(* What the console page is sent *)

LEMMA SendsShape ==
  ASSUME NEW m \in ConsoleSends
  PROVE  /\ m.kind \in {"completion", "initilize", "write-line", "connect-console", "fill-console"}
         /\ m.kind = "initilize" => m.ids \in Seq(Consoles)
         /\ m.kind = "connect-console" => m = Announcement
         /\ m.kind = "fill-console" => m.id \in Consoles /\ m.lines \in Nat
  BY DEF ConsoleSends, Announcement

LEMMA SeqWidens ==
  ASSUME NEW S, NEW T, S \subseteq T, NEW s \in Seq(S)
  PROVE  s \in Seq(T)
  OBVIOUS

\* A message that is no snapshot names no further console.
LEMMA MessageAppended ==
  ASSUME inbox \in Seq(ConsoleSends), NEW m \in ConsoleSends, inbox' = Append(inbox, m)
  PROVE  /\ inbox' \in Seq(ConsoleSends)
         /\ Len(inbox) \in Nat /\ DOMAIN inbox = 1..Len(inbox) /\ DOMAIN inbox' = 1..Len(inbox) + 1
         /\ inbox'[Len(inbox) + 1] = m /\ \A i \in DOMAIN inbox : i \in DOMAIN inbox' /\ inbox'[i] = inbox[i]
         /\ Occurrences(inbox, Announcement) <= Occurrences(inbox', Announcement)
         /\ m.kind # "initilize" => Snapshots' = Snapshots /\ Listed' = Listed
         /\ m.kind = "initilize" => Snapshots' # {} /\ Listed' = Listed \cup ToSet(m.ids)
  <1> DEFINE n == Len(inbox)
  <1>1. /\ inbox' \in Seq(ConsoleSends) /\ n \in Nat /\ DOMAIN inbox = 1..n /\ DOMAIN inbox' = 1..n + 1
        /\ inbox'[n + 1] = m /\ \A i \in 1..n : inbox'[i] = inbox[i]
    OBVIOUS
  <1>2. Occurrences(inbox, Announcement) <= Occurrences(inbox', Announcement)
    <2>1. inbox' = inbox \o <<m>> /\ <<m>> \in Seq(ConsoleSends)
      OBVIOUS
    <2> QED BY <2>1, OccurrencesConcat
  <1> HIDE DEF n
  <1>3. \A i \in Snapshots : i \in 1..n /\ inbox'[i] = inbox[i]
    BY <1>1 DEF Snapshots
  <1>4. CASE m.kind # "initilize"
    <2>1. Snapshots' = Snapshots
      BY <1>1, <1>4 DEF Snapshots
    <2>2. Listed' = Listed
      BY <1>3, <2>1 DEF Listed
    <2> QED BY <1>1, <1>2, <1>4, <2>1, <2>2 DEF n
  <1>5. CASE m.kind = "initilize"
    <2>1. Snapshots' = Snapshots \cup {n + 1}
      BY <1>1, <1>5 DEF Snapshots
    <2>2. Listed' = Listed \cup ToSet(m.ids)
      BY <1>1, <1>3, <2>1 DEF Listed
    <2> QED BY <1>1, <1>2, <1>5, <2>1, <2>2 DEF n
  <1> QED BY <1>4, <1>5

LEMMA MessageTaken ==
  ASSUME inbox \in Seq(ConsoleSends), inbox # << >>, inbox' = Tail(inbox), NEW m, m = Head(inbox)
  PROVE  /\ inbox' \in Seq(ConsoleSends) /\ m \in ConsoleSends
         /\ Len(inbox) \in Nat \ {0} /\ DOMAIN inbox = 1..Len(inbox) /\ DOMAIN inbox' = 1..Len(inbox) - 1
         /\ m = inbox[1] /\ \A i \in DOMAIN inbox' : i + 1 \in DOMAIN inbox /\ inbox'[i] = inbox[i + 1]
         /\ Occurrences(inbox, Announcement) <=
                Occurrences(inbox', Announcement) + (IF m = Announcement THEN 1 ELSE 0)
         /\ m.kind # "initilize" => (Snapshots' = {} <=> Snapshots = {}) /\ Listed' = Listed
         /\ m.kind = "initilize" => Listed = Listed' \cup ToSet(m.ids)
  <1> DEFINE n == Len(inbox)
  <1>1. /\ inbox' \in Seq(ConsoleSends) /\ m \in ConsoleSends
        /\ n \in Nat \ {0} /\ DOMAIN inbox = 1..n /\ DOMAIN inbox' = 1..n - 1
        /\ m = inbox[1] /\ \A i \in 1..n - 1 : inbox'[i] = inbox[i + 1]
    OBVIOUS
  <1>2. Occurrences(inbox, Announcement) <=
            Occurrences(inbox', Announcement) + (IF m = Announcement THEN 1 ELSE 0)
    BY OccurrencesTail
  <1> HIDE DEF n
  <1>3. \A i \in Snapshots' : i + 1 \in Snapshots /\ inbox'[i] = inbox[i + 1]
    BY <1>1 DEF Snapshots
  <1>4. \A i \in Snapshots : i = 1 \/ (i - 1 \in Snapshots' /\ inbox'[i - 1] = inbox[i])
    BY <1>1 DEF Snapshots
  <1>5. CASE m.kind # "initilize"
    <2>1. 1 \notin Snapshots
      BY <1>1, <1>5 DEF Snapshots
    <2>2. Snapshots' = {} <=> Snapshots = {}
      BY <1>3, <1>4, <2>1
    <2>3. Listed' = Listed
      <3>1. ASSUME NEW c \in Listed' PROVE c \in Listed
        BY <3>1, <1>3 DEF Listed
      <3>2. ASSUME NEW c \in Listed PROVE c \in Listed'
        BY <3>2, <1>4, <2>1 DEF Listed
      <3> QED BY <3>1, <3>2
    <2> QED BY <1>1, <1>2, <1>5, <2>2, <2>3 DEF n
  <1>6. CASE m.kind = "initilize"
    <2>1. 1 \in Snapshots
      BY <1>1, <1>6 DEF Snapshots
    <2>2. Listed = Listed' \cup ToSet(m.ids)
      <3>1. ASSUME NEW c \in Listed' \cup ToSet(m.ids) PROVE c \in Listed
        <4>1. CASE c \in Listed'
          BY <4>1, <1>3 DEF Listed
        <4>2. CASE c \in ToSet(m.ids)
          BY <4>2, <2>1, <1>1 DEF Listed
        <4> QED BY <3>1, <4>1, <4>2
      <3>2. ASSUME NEW c \in Listed PROVE c \in Listed' \cup ToSet(m.ids)
        BY <3>2, <1>1, <1>4 DEF Listed
      <3> QED BY <3>1, <3>2
    <2> QED BY <1>1, <1>2, <1>6, <2>2 DEF n
  <1> QED BY <1>5, <1>6

-----------------------------------------------------------------------------
(* The steps of the console page *)

LEMMA ConnectionStep ==
  ASSUME ConsoleInv, (Load \/ Join \/ Drop) /\ UNCHANGED cvars
  PROVE  ConsoleInv'
  <1>1. /\ UNCHANGED <<inbox, sessions>> /\ UNCHANGED cvars
        /\ status' \in {"idle", "starting", "open"} /\ joined' \in BOOLEAN
        /\ status' = "open" => status = "open"
        /\ status # "open" => status' # "open"
        /\ status' = "open" /\ joined' => joined
    BY DEF Load, Join, Drop, Session!Start, ConsoleInv, ConsoleTypeOK
  <1>2. ConsoleTypeOK'
    BY <1>1 DEF ConsoleInv, ConsoleTypeOK, cvars
  <1>3. ConsoleCalls'
    BY <1>1 DEF ConsoleInv, ConsoleCalls, cvars, Load, Join, Drop, Session!Start
  <1>4. LogsComing'
    BY <1>1 DEF ConsoleInv, LogsComing, cvars
  <1>5. ButtonsComing'
    <2>1. Snapshots' = Snapshots /\ Named' = Named
      BY <1>1 DEF Snapshots, Listed, Named, cvars
    <2> QED BY <1>1, <2>1 DEF ConsoleInv, ButtonsComing, cvars
  <1> QED BY <1>2, <1>3, <1>4, <1>5 DEF ConsoleInv

LEMMA StartedStep ==
  ASSUME ConsoleInv, Started
  PROVE  ConsoleInv'
  <1>1. /\ UNCHANGED <<inbox, joined, consoles, announced, buttons, tabs, initialised>>
        /\ status = "starting" /\ status' = "open" /\ sessions' = sessions + 1
        /\ requests' = Append(requests, request("NotifyStart", NoId))
    BY DEF Started, Open, Session!Opens, pageVars
  <1>2. request("NotifyStart", NoId) \in Requests
    BY DEF request, Requests
  <1>3. requests \in Seq(Requests) /\ sessions \in Nat
    BY DEF ConsoleInv, ConsoleTypeOK
  <1>4. ConsoleTypeOK'
    <2>1. requests' \in Seq(Requests)
      BY <1>1, <1>2, <1>3
    <2>2. tabs' \in [DOMAIN tabs' -> [fills : Seq(Nat), session : 0..sessions']]
      <3>1. \A r \in [fills : Seq(Nat), session : 0..sessions] :
                r \in [fills : Seq(Nat), session : 0..sessions']
        BY <1>1, <1>3
      <3> QED BY <1>1, <3>1 DEF ConsoleInv, ConsoleTypeOK
    <2>3. initialised' \in 0..sessions' /\ sessions' \in Nat
      BY <1>1, <1>3 DEF ConsoleInv, ConsoleTypeOK
    <2> QED BY <1>1, <2>1, <2>2, <2>3 DEF ConsoleInv, ConsoleTypeOK
  <1>5. ConsoleCalls'
    <2>1. \A i \in DOMAIN requests' : requests'[i].id \in DOMAIN consoles \cup {NoId}
      <3>1. \A i \in DOMAIN requests : requests[i].id \in DOMAIN consoles \cup {NoId}
        BY DEF ConsoleInv, ConsoleCalls
      <3>2. request("NotifyStart", NoId).id = NoId
        BY DEF request
      <3>3. ASSUME NEW i \in DOMAIN requests'
            PROVE  requests'[i] = request("NotifyStart", NoId) \/ (i \in DOMAIN requests /\ requests'[i] = requests[i])
        BY <1>1, <1>2, <1>3
      <3> QED BY <3>1, <3>2, <3>3
    <2> QED BY <1>1, <2>1 DEF ConsoleInv, ConsoleCalls
  <1>6. LogsComing'
    <2>1. \A id \in DOMAIN tabs : tabs[id].session # sessions'
      BY <1>1, <1>3 DEF ConsoleInv, ConsoleTypeOK
    <2> QED BY <1>1, <2>1 DEF LogsComing
  <1>7. ButtonsComing'
    <2>1. Snapshots' = {}
      BY <1>1 DEF ConsoleInv, ConsoleCalls, Snapshots
    <2>2. initialised' # sessions'
      BY <1>1, <1>3 DEF ConsoleInv, ConsoleTypeOK
    <2> QED BY <2>1, <2>2 DEF ButtonsComing
  <1> QED BY <1>4, <1>5, <1>6, <1>7 DEF ConsoleInv

LEMMA EndedStep ==
  ASSUME ConsoleInv, Ended
  PROVE  ConsoleInv'
  <1>1. /\ UNCHANGED <<sessions, consoles, announced, buttons, tabs, initialised>>
        /\ inbox' = << >> /\ requests' = << >> /\ joined' = FALSE /\ status' \in {"idle", "starting"}
    BY DEF Ended, Fail, CloseAndStart, Session!StartFails, Session!Closes, serverVars, pageVars
  <1>2. inbox' \in Seq(ConsoleSends) /\ requests' \in Seq(Requests)
    BY <1>1
  <1>3. ConsoleTypeOK'
    BY <1>1, <1>2 DEF ConsoleInv, ConsoleTypeOK
  <1>4. ConsoleCalls'
    BY <1>1 DEF ConsoleCalls
  <1>5. LogsComing' /\ ButtonsComing'
    BY <1>1 DEF LogsComing, ButtonsComing
  <1> QED BY <1>3, <1>4, <1>5 DEF ConsoleInv

LEMMA ConsoleConnectsStep ==
  ASSUME ConsoleInv, NEW c \in Consoles, ConsoleConnects(c)
  PROVE  ConsoleInv'
  <1>1. UNCHANGED <<pvars, announced, failed, requests, buttons, tabs, initialised>>
    BY DEF ConsoleConnects, pageVars
  <1>2. consoles' = consoles \/ (c \notin DOMAIN consoles /\ consoles' = entered(consoles, c, 0))
    BY DEF ConsoleConnects
  <1>3. /\ DOMAIN consoles \subseteq Consoles /\ consoles \in [DOMAIN consoles -> Nat]
        /\ IsFiniteSet(DOMAIN consoles)
    BY DEF ConsoleInv, ConsoleTypeOK
  <1>4. /\ DOMAIN consoles' \subseteq Consoles /\ consoles' \in [DOMAIN consoles' -> Nat]
        /\ IsFiniteSet(DOMAIN consoles') /\ DOMAIN consoles \subseteq DOMAIN consoles'
    <2>1. CASE consoles' = entered(consoles, c, 0)
      <3>1. DOMAIN consoles' = DOMAIN consoles \cup {c} /\ consoles' \in [DOMAIN consoles' -> Nat]
        BY <2>1, <1>3 DEF entered
      <3> QED BY <3>1, <1>3, FS_AddElement
    <2> QED BY <2>1, <1>2, <1>3
  <1>5. ConsoleTypeOK'
    <2>1. buttons' \in Seq(DOMAIN consoles' \cup {NoId})
      BY <1>1, <1>4, SeqWidens DEF ConsoleInv, ConsoleTypeOK
    <2> QED BY <1>1, <1>4, <2>1 DEF ConsoleInv, ConsoleTypeOK, pvars
  <1>6. ConsoleCalls'
    <2>1. \A s \in Seq(DOMAIN consoles) : s \in Seq(DOMAIN consoles')
      BY <1>4, SeqWidens
    <2> QED BY <1>1, <1>4, <2>1 DEF ConsoleInv, ConsoleCalls, pvars
  <1>7. LogsComing'
    BY <1>1 DEF ConsoleInv, LogsComing, pvars
  <1>8. ButtonsComing'
    <2>1. Snapshots' = Snapshots /\ Named' = Named
      BY <1>1 DEF Snapshots, Listed, Named, pvars
    <2> QED BY <1>1, <2>1 DEF ConsoleInv, ButtonsComing, pvars
  <1> QED BY <1>5, <1>6, <1>7, <1>8 DEF ConsoleInv

LEMMA AnnounceStep ==
  ASSUME ConsoleInv, NEW c \in Consoles, Announce(c)
  PROVE  ConsoleInv'
  <1>1. /\ UNCHANGED <<status, sessions, joined, consoles, failed, requests, buttons, tabs, initialised>>
        /\ c \in DOMAIN consoles /\ announced' = announced \cup {c}
        /\ inbox' = IF joined THEN Append(inbox, Announcement) ELSE inbox
    BY DEF Announce, Broadcast, pageVars, Announcement
  <1>2. /\ Announcement \in ConsoleSends /\ Announcement.kind = "connect-console"
        /\ inbox \in Seq(ConsoleSends)
    BY DEF ConsoleSends, Announcement, ConsoleInv, ConsoleTypeOK
  <1>3. joined => inbox' = Append(inbox, Announcement)
    BY <1>1
  <1>4. ConsoleTypeOK'
    <2>1. inbox' \in Seq(ConsoleSends)
      BY <1>1, <1>2
    <2> QED BY <1>1, <2>1 DEF ConsoleInv, ConsoleTypeOK
  <1>5. CASE ~joined
    <2>1. inbox' = inbox /\ ~joined'
      BY <1>1, <1>5
    <2>2. ConsoleCalls' /\ LogsComing'
      BY <1>1, <2>1 DEF ConsoleInv, ConsoleCalls, LogsComing
    <2> QED BY <1>4, <2>1, <2>2 DEF ConsoleInv, ButtonsComing
  <1>6. CASE joined
    <2>1. inbox' = Append(inbox, Announcement)
      BY <1>3, <1>6
    <2>2. /\ \A i \in DOMAIN inbox : i \in DOMAIN inbox' /\ inbox'[i] = inbox[i]
          /\ \A i \in DOMAIN inbox' : i \in DOMAIN inbox \/ inbox'[i] = Announcement
          /\ Snapshots' = Snapshots /\ Listed' = Listed
      BY <1>2, <2>1, MessageAppended
    <2>3. ConsoleCalls'
      BY <1>1, <1>2, <2>2 DEF ConsoleInv, ConsoleCalls
    <2>4. LogsComing'
      BY <1>1, <2>2 DEF ConsoleInv, LogsComing
    <2>5. ButtonsComing'
      <3>1. SUFFICES ASSUME status = "open", initialised = sessions \/ Snapshots # {}
                     PROVE  Cardinality(announced' \ Named) <=
                                Occurrences(buttons, NoId) + Occurrences(inbox', Announcement)
        BY <1>1, <2>2 DEF ButtonsComing, Named
      <3>2. Cardinality(announced \ Named) <=
                Occurrences(buttons, NoId) + Occurrences(inbox, Announcement)
        BY <1>6, <3>1 DEF ConsoleInv, ButtonsComing
      <3>3. /\ Occurrences(inbox', Announcement) = Occurrences(inbox, Announcement) + 1
            /\ Occurrences(inbox, Announcement) \in Nat
        BY <1>2, <2>1, OccurrencesAppend, OccurrencesType
      <3>4. Occurrences(buttons, NoId) \in Nat
        BY OccurrencesType DEF ConsoleInv, ConsoleTypeOK
      <3>5. IsFiniteSet(announced \ Named) /\ Cardinality(announced \ Named) \in Nat
        <4>1. announced \ Named \in SUBSET DOMAIN consoles /\ IsFiniteSet(DOMAIN consoles)
          BY DEF ConsoleInv, ConsoleTypeOK
        <4> QED BY <4>1, FS_Subset, FS_CardinalityType
      <3>6. Cardinality((announced \ Named) \cup {c}) <= Cardinality(announced \ Named) + 1
        <4> DEFINE U == announced \ Named
        <4> HIDE DEF U
        <4>1. IsFiniteSet(U) /\ Cardinality(U) \in Nat
          BY <3>5 DEF U
        <4>2. Cardinality(U \cup {c}) = IF c \in U THEN Cardinality(U) ELSE Cardinality(U) + 1
          BY <4>1, FS_AddElement
        <4>3. Cardinality(U \cup {c}) <= Cardinality(U) + 1
          BY <4>1, <4>2
        <4> QED BY <4>3 DEF U
      <3>7. Cardinality(announced' \ Named) <= Cardinality((announced \ Named) \cup {c})
        <4>1. announced' \ Named \in SUBSET ((announced \ Named) \cup {c})
          BY <1>1
        <4>2. IsFiniteSet((announced \ Named) \cup {c})
          BY <3>5, FS_AddElement
        <4> QED BY <4>1, <4>2, FS_Subset
      <3>8. Cardinality(announced' \ Named) \in Nat /\ Cardinality((announced \ Named) \cup {c}) \in Nat
        <4>1. announced' \ Named \in SUBSET ((announced \ Named) \cup {c})
          BY <1>1
        <4>2. IsFiniteSet((announced \ Named) \cup {c})
          BY <3>5, FS_AddElement
        <4> QED BY <4>1, <4>2, FS_Subset, FS_CardinalityType
      <3> QED BY <3>2, <3>3, <3>4, <3>5, <3>6, <3>7, <3>8
    <2> QED BY <1>4, <2>3, <2>4, <2>5 DEF ConsoleInv
  <1> QED BY <1>5, <1>6

\* A message that is neither a snapshot nor the answer to NotifyStart, of any kind
LEMMA PlainMessage ==
  ASSUME ConsoleInv, NEW m \in ConsoleSends, m.kind \notin {"completion", "initilize"},
         inbox' = Append(inbox, m),
         UNCHANGED <<status, sessions, joined, announced, failed, requests, buttons, tabs, initialised>>,
         DOMAIN consoles' = DOMAIN consoles
  PROVE  ConsoleCalls' /\ LogsComing' /\ ButtonsComing'
  <1>1. inbox \in Seq(ConsoleSends)
    BY DEF ConsoleInv, ConsoleTypeOK
  <1>2. /\ \A i \in DOMAIN inbox : i \in DOMAIN inbox' /\ inbox'[i] = inbox[i]
        /\ \A i \in DOMAIN inbox' : i \in DOMAIN inbox \/ inbox'[i] = m
        /\ Snapshots' = Snapshots /\ Listed' = Listed
        /\ Occurrences(inbox, Announcement) <= Occurrences(inbox', Announcement)
    BY <1>1, MessageAppended
  <1>3. ConsoleCalls'
    BY <1>2 DEF ConsoleInv, ConsoleCalls
  <1>4. LogsComing'
    BY <1>2 DEF ConsoleInv, LogsComing
  <1>5. ButtonsComing'
    <2>1. SUFFICES ASSUME status = "open", joined, initialised = sessions \/ Snapshots # {}
                   PROVE  Cardinality(announced \ Named) <=
                              Occurrences(buttons, NoId) + Occurrences(inbox', Announcement)
      BY <1>2 DEF ButtonsComing, Named
    <2>2. Cardinality(announced \ Named) <=
              Occurrences(buttons, NoId) + Occurrences(inbox, Announcement)
      BY <2>1 DEF ConsoleInv, ButtonsComing
    <2>3. /\ Occurrences(buttons, NoId) \in Nat /\ Occurrences(inbox, Announcement) \in Nat
      BY OccurrencesType DEF ConsoleInv, ConsoleTypeOK
    <2>4. Occurrences(inbox', Announcement) \in Nat
      BY <1>1, MessageAppended, OccurrencesType
    <2>5. Cardinality(announced \ Named) \in Nat
      <3>1. announced \ Named \in SUBSET DOMAIN consoles /\ IsFiniteSet(DOMAIN consoles)
        BY DEF ConsoleInv, ConsoleTypeOK
      <3> QED BY <3>1, FS_Subset, FS_CardinalityType
    <2> QED BY <1>2, <2>2, <2>3, <2>4, <2>5
  <1> QED BY <1>3, <1>4, <1>5

LEMMA WriteLineStep ==
  ASSUME ConsoleInv, NEW c \in Consoles, WriteLine(c)
  PROVE  ConsoleInv'
  <1> DEFINE m == [kind |-> "write-line", id |-> c]
  <1>1. /\ UNCHANGED <<status, sessions, joined, announced, failed, requests, buttons, tabs, initialised>>
        /\ c \in DOMAIN consoles /\ consoles' = [consoles EXCEPT ![c] = @ + 1]
        /\ inbox' = IF joined THEN Append(inbox, m) ELSE inbox
    BY DEF WriteLine, Broadcast, pageVars
  <1>2. m \in ConsoleSends /\ m.kind = "write-line"
    BY DEF ConsoleSends
  <1> HIDE DEF m
  <1>3. DOMAIN consoles' = DOMAIN consoles /\ consoles' \in [DOMAIN consoles -> Nat]
    <2>1. consoles \in [DOMAIN consoles -> Nat]
      BY DEF ConsoleInv, ConsoleTypeOK
    <2>2. consoles[c] + 1 \in Nat
      BY <1>1, <2>1
    <2> QED BY <1>1, <2>1, <2>2
  <1>4. ConsoleTypeOK'
    <2>1. inbox' \in Seq(ConsoleSends)
      BY <1>1, <1>2 DEF ConsoleInv, ConsoleTypeOK
    <2> QED BY <1>1, <1>3, <2>1 DEF ConsoleInv, ConsoleTypeOK
  <1>5. CASE joined
    BY <1>1, <1>2, <1>3, <1>4, <1>5, PlainMessage DEF ConsoleInv
  <1>6. CASE ~joined
    <2>1. inbox' = inbox /\ ~joined'
      BY <1>1, <1>6
    <2>2. ConsoleCalls' /\ LogsComing'
      BY <1>1, <1>3, <2>1 DEF ConsoleInv, ConsoleCalls, LogsComing
    <2> QED BY <1>4, <2>1, <2>2 DEF ConsoleInv, ButtonsComing
  <1> QED BY <1>5, <1>6

LEMMA RequestTaken ==
  ASSUME requests \in Seq(Requests), requests # << >>, requests' = Tail(requests)
  PROVE  /\ requests' \in Seq(Requests) /\ Head(requests) \in Requests
         /\ 1 \in DOMAIN requests /\ Head(requests) = requests[1]
         /\ \A i \in DOMAIN requests' : i + 1 \in DOMAIN requests /\ requests'[i] = requests[i + 1]
         /\ \A i \in DOMAIN requests : i = 1 \/ (i - 1 \in DOMAIN requests' /\ requests'[i - 1] = requests[i])
  <1> DEFINE n == Len(requests)
  <1>1. /\ requests' \in Seq(Requests) /\ Head(requests) \in Requests /\ n \in Nat \ {0}
        /\ DOMAIN requests = 1..n /\ DOMAIN requests' = 1..n - 1 /\ Head(requests) = requests[1]
        /\ \A i \in 1..n - 1 : requests'[i] = requests[i + 1]
    OBVIOUS
  <1> HIDE DEF n
  <1> QED BY <1>1

\* What the hub answers, by the request
LEMMA AnswerShape ==
  ASSUME NEW r \in Requests, NEW answer \in Answers(r)
  PROVE  \/ r.name = "NotifyStart" /\ answer = <<[kind |-> "completion"]>>
         \/ /\ r.name = "RequestInitilization"
            /\ \E s \in SetToSeqs(DOMAIN consoles) : answer = <<[kind |-> "initilize", ids |-> s]>>
         \/ /\ r.name = "GetLogs" /\ r.id \in DOMAIN consoles
            /\ answer = <<[kind |-> "fill-console", id |-> r.id, lines |-> consoles[r.id]]>>
         \/ r.name = "GetLogs" /\ r.id \notin DOMAIN consoles /\ answer = << >>
  <1>1. r.name \in {"NotifyStart", "RequestInitilization", "GetLogs"}
    BY DEF Requests
  <1>2. CASE r.name = "NotifyStart"
    BY <1>2 DEF Answers
  <1>3. CASE r.name = "RequestInitilization"
    BY <1>3 DEF Answers
  <1>4. CASE r.name = "GetLogs" /\ r.id \in DOMAIN consoles
    BY <1>4 DEF Answers
  <1>5. CASE r.name = "GetLogs" /\ r.id \notin DOMAIN consoles
    BY <1>5 DEF Answers
  <1> QED BY <1>1, <1>2, <1>3, <1>4, <1>5

LEMMA HubHandlesStep ==
  ASSUME ConsoleInv, HubHandles
  PROVE  ConsoleInv'
  <1> DEFINE r == Head(requests)
  <1>1. /\ UNCHANGED <<status, sessions, joined, consoles, announced, failed, buttons, tabs, initialised>>
        /\ joined /\ requests # << >> /\ requests' = Tail(requests)
    BY DEF HubHandles, serverVars, pageVars
  <1>2. PICK answer \in Answers(r) : inbox' = inbox \o answer
    BY DEF HubHandles
  <1>3. /\ inbox \in Seq(ConsoleSends) /\ requests \in Seq(Requests) /\ IsFiniteSet(DOMAIN consoles)
        /\ DOMAIN consoles \subseteq Consoles /\ consoles \in [DOMAIN consoles -> Nat]
        /\ announced \subseteq DOMAIN consoles
    BY DEF ConsoleInv, ConsoleTypeOK
  <1>4. /\ requests' \in Seq(Requests) /\ r \in Requests /\ 1 \in DOMAIN requests /\ r = requests[1]
        /\ \A i \in DOMAIN requests' : i + 1 \in DOMAIN requests /\ requests'[i] = requests[i + 1]
        /\ \A i \in DOMAIN requests : i = 1 \/ (i - 1 \in DOMAIN requests' /\ requests'[i - 1] = requests[i])
    BY <1>1, <1>3, RequestTaken
  <1>5. status # "open" => r.name = "GetLogs"
    BY <1>4 DEF ConsoleInv, ConsoleCalls
  <1> HIDE DEF r
  <1>6. ASSUME answer = << >> PROVE inbox' = inbox
    BY <1>2, <1>3, <1>6
  <1>7. ASSUME NEW m \in ConsoleSends, answer = <<m>> PROVE inbox' = Append(inbox, m)
    BY <1>2, <1>3, <1>7
  \* The requests that are left
  <1>8. \A i \in DOMAIN requests' : /\ requests'[i].id \in DOMAIN consoles' \cup {NoId}
                                    /\ status' # "open" => requests'[i].name = "GetLogs"
    BY <1>1, <1>4 DEF ConsoleInv, ConsoleCalls
  <1>9. ASSUME inbox' \in Seq(ConsoleSends) PROVE ConsoleTypeOK'
    BY <1>1, <1>4, <1>9 DEF ConsoleInv, ConsoleTypeOK
  \* Logs that are coming still come, unless the request was for them.
  <1>10. ASSUME \A i \in DOMAIN inbox : i \in DOMAIN inbox' /\ inbox'[i] = inbox[i],
                r.name = "GetLogs" /\ r.id # NoId =>
                    \E i \in DOMAIN inbox' : inbox'[i].kind = "fill-console" /\ inbox'[i].id = r.id
         PROVE  LogsComing'
    <2>1. SUFFICES ASSUME status = "open", NEW id \in DOMAIN tabs \ (failed \cup {NoId}),
                          tabs[id].session = sessions, tabs[id].fills = << >>
                   PROVE  \/ \E i \in DOMAIN requests' :
                                 requests'[i].name = "GetLogs" /\ requests'[i].id = id
                          \/ \E i \in DOMAIN inbox' : inbox'[i].kind = "fill-console" /\ inbox'[i].id = id
      BY <1>1 DEF LogsComing
    <2>2. \/ \E i \in DOMAIN requests : requests[i].name = "GetLogs" /\ requests[i].id = id
          \/ \E i \in DOMAIN inbox : inbox[i].kind = "fill-console" /\ inbox[i].id = id
      BY <2>1 DEF ConsoleInv, LogsComing
    <2>3. CASE \E i \in DOMAIN requests : requests[i].name = "GetLogs" /\ requests[i].id = id
      <3>1. PICK i \in DOMAIN requests : requests[i].name = "GetLogs" /\ requests[i].id = id
        BY <2>3
      <3>2. CASE i = 1
        BY <3>1, <3>2, <1>4, <1>10
      <3>3. CASE i # 1
        BY <3>1, <3>3, <1>4
      <3> QED BY <3>2, <3>3
    <2>4. CASE \E i \in DOMAIN inbox : inbox[i].kind = "fill-console" /\ inbox[i].id = id
      BY <2>4, <1>10
    <2> QED BY <2>2, <2>3, <2>4
  <1>11. CASE r.name = "NotifyStart" /\ answer = <<[kind |-> "completion"]>>
    <2> DEFINE m == [kind |-> "completion"]
    <2>1. m \in ConsoleSends /\ m.kind = "completion" /\ status = "open"
      BY <1>5, <1>11 DEF ConsoleSends
    <2>2. inbox' = Append(inbox, m)
      BY <1>7, <1>11, <2>1
    <2> HIDE DEF m
    <2>3. /\ \A i \in DOMAIN inbox : i \in DOMAIN inbox' /\ inbox'[i] = inbox[i]
          /\ \A i \in DOMAIN inbox' : i \in DOMAIN inbox \/ inbox'[i] = m
          /\ Snapshots' = Snapshots /\ Listed' = Listed /\ inbox' \in Seq(ConsoleSends)
          /\ Occurrences(inbox, Announcement) <= Occurrences(inbox', Announcement)
      BY <1>3, <2>1, <2>2, MessageAppended
    <2>4. ConsoleCalls'
      BY <1>1, <1>8, <2>1, <2>3 DEF ConsoleInv, ConsoleCalls
    <2>5. LogsComing'
      BY <1>10, <1>11, <2>3
    <2>6. ButtonsComing'
      <3>1. SUFFICES ASSUME initialised = sessions \/ Snapshots # {}
                     PROVE  Cardinality(announced \ Named) <=
                                Occurrences(buttons, NoId) + Occurrences(inbox', Announcement)
        BY <1>1, <2>3 DEF ButtonsComing, Named
      <3>2. Cardinality(announced \ Named) <=
                Occurrences(buttons, NoId) + Occurrences(inbox, Announcement)
        BY <1>1, <2>1, <3>1 DEF ConsoleInv, ButtonsComing
      <3>3. /\ Occurrences(buttons, NoId) \in Nat /\ Occurrences(inbox, Announcement) \in Nat
        BY OccurrencesType DEF ConsoleInv, ConsoleTypeOK
      <3>4. Occurrences(inbox', Announcement) \in Nat
        BY <2>3, OccurrencesType
      <3>5. Cardinality(announced \ Named) \in Nat
        BY <1>3, FS_Subset, FS_CardinalityType
      <3> QED BY <2>3, <3>2, <3>3, <3>4, <3>5
    <2> QED BY <1>9, <2>3, <2>4, <2>5, <2>6 DEF ConsoleInv
  <1>12. ASSUME r.name = "RequestInitilization", NEW s \in SetToSeqs(DOMAIN consoles),
                answer = <<[kind |-> "initilize", ids |-> s]>>
         PROVE  ConsoleInv'
    <2> DEFINE m == [kind |-> "initilize", ids |-> s]
    <2>1. s \in Seq(DOMAIN consoles) /\ ToSet(s) = DOMAIN consoles /\ s \in Seq(Consoles)
      BY <1>3, SnapshotIsComplete, SeqWidens
    <2>2. m \in ConsoleSends /\ m.kind = "initilize" /\ m.ids = s /\ status = "open"
      BY <1>5, <1>12, <2>1 DEF ConsoleSends
    <2>3. inbox' = Append(inbox, m)
      BY <1>7, <1>12, <2>2
    <2> HIDE DEF m
    <2>4. /\ \A i \in DOMAIN inbox : i \in DOMAIN inbox' /\ inbox'[i] = inbox[i]
          /\ \A i \in DOMAIN inbox' : i \in DOMAIN inbox \/ inbox'[i] = m
          /\ Listed' = Listed \cup ToSet(s) /\ inbox' \in Seq(ConsoleSends)
      BY <1>3, <2>2, <2>3, MessageAppended
    <2>5. ConsoleCalls'
      BY <1>1, <1>8, <2>1, <2>2, <2>4 DEF ConsoleInv, ConsoleCalls
    <2>6. LogsComing'
      BY <1>10, <1>12, <2>4
    <2>7. ButtonsComing'
      <3>1. announced' \ Named' = {}
        BY <1>1, <1>3, <2>1, <2>4 DEF Named
      <3>2. Occurrences(buttons', NoId) \in Nat /\ Occurrences(inbox', Announcement) \in Nat
        BY <1>1, <2>4, OccurrencesType DEF ConsoleInv, ConsoleTypeOK
      <3>3. Cardinality(announced' \ Named') = 0
        BY <3>1, FS_EmptySet
      <3>4. Cardinality(announced' \ Named') <=
                Occurrences(buttons', NoId) + Occurrences(inbox', Announcement)
        BY <3>2, <3>3
      <3> QED BY <3>4 DEF ButtonsComing
    <2> QED BY <1>9, <2>4, <2>5, <2>6, <2>7 DEF ConsoleInv
  <1>13. CASE /\ r.name = "GetLogs" /\ r.id \in DOMAIN consoles
              /\ answer = <<[kind |-> "fill-console", id |-> r.id, lines |-> consoles[r.id]]>>
    <2> DEFINE m == [kind |-> "fill-console", id |-> r.id, lines |-> consoles[r.id]]
    <2>1. m \in ConsoleSends /\ m.kind = "fill-console" /\ m.id = r.id
      BY <1>3, <1>13 DEF ConsoleSends
    <2>2. inbox' = Append(inbox, m)
      BY <1>7, <1>13, <2>1
    <2> HIDE DEF m
    <2>3. /\ \A i \in DOMAIN inbox : i \in DOMAIN inbox' /\ inbox'[i] = inbox[i]
          /\ \A i \in DOMAIN inbox' : i \in DOMAIN inbox \/ inbox'[i] = m
          /\ \E i \in DOMAIN inbox' : inbox'[i] = m
          /\ Snapshots' = Snapshots /\ Listed' = Listed /\ inbox' \in Seq(ConsoleSends)
          /\ Occurrences(inbox, Announcement) <= Occurrences(inbox', Announcement)
      BY <1>3, <2>1, <2>2, MessageAppended
    <2>4. ConsoleCalls'
      BY <1>1, <1>8, <2>1, <2>3 DEF ConsoleInv, ConsoleCalls
    <2>5. LogsComing'
      BY <1>10, <2>1, <2>3
    <2>6. ButtonsComing'
      <3>1. SUFFICES ASSUME status = "open", initialised = sessions \/ Snapshots # {}
                     PROVE  Cardinality(announced \ Named) <=
                                Occurrences(buttons, NoId) + Occurrences(inbox', Announcement)
        BY <1>1, <2>3 DEF ButtonsComing, Named
      <3>2. Cardinality(announced \ Named) <=
                Occurrences(buttons, NoId) + Occurrences(inbox, Announcement)
        BY <1>1, <3>1 DEF ConsoleInv, ButtonsComing
      <3>3. /\ Occurrences(buttons, NoId) \in Nat /\ Occurrences(inbox, Announcement) \in Nat
        BY OccurrencesType DEF ConsoleInv, ConsoleTypeOK
      <3>4. Occurrences(inbox', Announcement) \in Nat
        BY <2>3, OccurrencesType
      <3>5. Cardinality(announced \ Named) \in Nat
        BY <1>3, FS_Subset, FS_CardinalityType
      <3> QED BY <2>3, <3>2, <3>3, <3>4, <3>5
    <2> QED BY <1>9, <2>3, <2>4, <2>5, <2>6 DEF ConsoleInv
  <1>14. CASE r.name = "GetLogs" /\ r.id \notin DOMAIN consoles /\ answer = << >>
    <2>1. inbox' = inbox
      BY <1>6, <1>14
    <2>2. r.id = NoId
      BY <1>4, <1>14 DEF ConsoleInv, ConsoleCalls
    <2>3. ConsoleCalls'
      BY <1>1, <1>8, <2>1 DEF ConsoleInv, ConsoleCalls
    <2>4. LogsComing'
      BY <1>10, <2>1, <2>2
    <2>5. Snapshots' = Snapshots /\ Named' = Named
      BY <1>1, <2>1 DEF Snapshots, Listed, Named
    <2>6. ButtonsComing'
      BY <1>1, <2>1, <2>5 DEF ConsoleInv, ButtonsComing
    <2> QED BY <1>3, <1>9, <2>1, <2>3, <2>4, <2>6 DEF ConsoleInv
  <1> QED BY <1>2, <1>4, <1>11, <1>12, <1>13, <1>14, AnswerShape

LEMMA HubThrowsStep ==
  ASSUME ConsoleInv, HubThrows
  PROVE  ConsoleInv'
  <1> DEFINE r == Head(requests)
  <1>1. /\ UNCHANGED <<pvars, consoles, announced, buttons, tabs, initialised>>
        /\ requests # << >> /\ requests' = Tail(requests) /\ failed' = failed \cup {r.id}
    BY DEF HubThrows, pageVars
  <1>2. requests \in Seq(Requests)
    BY DEF ConsoleInv, ConsoleTypeOK
  <1>3. /\ requests' \in Seq(Requests) /\ r = requests[1]
        /\ \A i \in DOMAIN requests' : i + 1 \in DOMAIN requests /\ requests'[i] = requests[i + 1]
        /\ \A i \in DOMAIN requests : i = 1 \/ (i - 1 \in DOMAIN requests' /\ requests'[i - 1] = requests[i])
    BY <1>1, <1>2, RequestTaken
  <1> HIDE DEF r
  <1>4. ConsoleTypeOK'
    BY <1>1, <1>3 DEF ConsoleInv, ConsoleTypeOK, pvars
  <1>5. ConsoleCalls'
    BY <1>1, <1>3 DEF ConsoleInv, ConsoleCalls, pvars
  <1>6. LogsComing'
    <2>1. SUFFICES ASSUME status = "open", NEW id \in DOMAIN tabs \ (failed \cup {NoId}), id # r.id,
                          tabs[id].session = sessions, tabs[id].fills = << >>
                   PROVE  \/ \E i \in DOMAIN requests' :
                                 requests'[i].name = "GetLogs" /\ requests'[i].id = id
                          \/ \E i \in DOMAIN inbox : inbox[i].kind = "fill-console" /\ inbox[i].id = id
      BY <1>1 DEF LogsComing, pvars
    <2>2. \/ \E i \in DOMAIN requests : requests[i].name = "GetLogs" /\ requests[i].id = id
          \/ \E i \in DOMAIN inbox : inbox[i].kind = "fill-console" /\ inbox[i].id = id
      BY <2>1 DEF ConsoleInv, LogsComing
    <2> QED BY <1>3, <2>1, <2>2
  <1>7. ButtonsComing'
    <2>1. Snapshots' = Snapshots /\ Named' = Named
      BY <1>1 DEF Snapshots, Listed, Named, pvars
    <2> QED BY <1>1, <2>1 DEF ConsoleInv, ButtonsComing, pvars
  <1> QED BY <1>4, <1>5, <1>6, <1>7 DEF ConsoleInv

\* Logs that have been asked for or sent are not lost when another message is handled.
LEMMA LogsStillComing ==
  ASSUME ConsoleInv, UNCHANGED <<status, sessions, failed>>, inbox # << >>, inbox' = Tail(inbox),
         \A i \in DOMAIN requests : i \in DOMAIN requests' /\ requests'[i] = requests[i],
         \A id \in DOMAIN tabs' :
            \/ id \in DOMAIN tabs /\ tabs'[id] = tabs[id] /\
                   (Head(inbox).kind = "fill-console" => Head(inbox).id # id)
            \/ tabs'[id].fills # << >>
  PROVE  LogsComing'
  <1> DEFINE m == Head(inbox)
  <1>1. inbox \in Seq(ConsoleSends)
    BY DEF ConsoleInv, ConsoleTypeOK
  <1>2. /\ m = inbox[1] /\ Len(inbox) \in Nat \ {0}
        /\ DOMAIN inbox = 1..Len(inbox) /\ DOMAIN inbox' = 1..Len(inbox) - 1
        /\ \A i \in DOMAIN inbox' : inbox'[i] = inbox[i + 1]
    BY <1>1, MessageTaken
  <1>3. \A i \in DOMAIN inbox : i = 1 \/ (i - 1 \in DOMAIN inbox' /\ inbox'[i - 1] = inbox[i])
    BY <1>2
  <1>4. SUFFICES ASSUME status = "open", NEW id \in DOMAIN tabs' \ (failed \cup {NoId}),
                        tabs'[id].session = sessions, tabs'[id].fills = << >>
                 PROVE  \/ \E i \in DOMAIN requests' :
                               requests'[i].name = "GetLogs" /\ requests'[i].id = id
                        \/ \E i \in DOMAIN inbox' : inbox'[i].kind = "fill-console" /\ inbox'[i].id = id
    BY DEF LogsComing
  <1>5. id \in DOMAIN tabs /\ tabs'[id] = tabs[id] /\ (m.kind = "fill-console" => m.id # id)
    BY <1>4
  <1>6. \/ \E i \in DOMAIN requests : requests[i].name = "GetLogs" /\ requests[i].id = id
        \/ \E i \in DOMAIN inbox : inbox[i].kind = "fill-console" /\ inbox[i].id = id
    BY <1>4, <1>5 DEF ConsoleInv, LogsComing
  <1> HIDE DEF m
  <1> QED BY <1>2, <1>3, <1>5, <1>6

\* Buttons are only added, and an announcement becomes one.
LEMMA ButtonsStillComing ==
  ASSUME ConsoleInv, UNCHANGED <<status, sessions, joined, announced>>,
         inbox # << >>, inbox' = Tail(inbox),
         NEW more \in Seq(DOMAIN consoles \cup {NoId}), buttons' = buttons \o more,
         Head(inbox) = Announcement => more = <<NoId>>,
         IF Head(inbox).kind = "initilize" THEN more = Head(inbox).ids ELSE initialised' = initialised
  PROVE  ButtonsComing'
  <1> DEFINE m == Head(inbox)
             T == DOMAIN consoles \cup {NoId}
             U == announced \ Named
             V == announced \ Named'
  <1>1. /\ inbox \in Seq(ConsoleSends) /\ buttons \in Seq(T)
        /\ IsFiniteSet(DOMAIN consoles) /\ announced \subseteq DOMAIN consoles
    BY DEF ConsoleInv, ConsoleTypeOK
  <1>2. /\ inbox' \in Seq(ConsoleSends) /\ m = inbox[1] /\ 1 \in DOMAIN inbox
        /\ Occurrences(inbox, Announcement) <=
               Occurrences(inbox', Announcement) + (IF m = Announcement THEN 1 ELSE 0)
        /\ m.kind # "initilize" => (Snapshots' = {} <=> Snapshots = {}) /\ Listed' = Listed
        /\ m.kind = "initilize" => Listed = Listed' \cup ToSet(m.ids)
    BY <1>1, MessageTaken
  <1>3. ToSet(buttons') = ToSet(buttons) \cup ToSet(more)
    <2>1. \A i \in DOMAIN buttons : i \in DOMAIN buttons' /\ buttons'[i] = buttons[i]
      BY <1>1
    <2>2. \A i \in DOMAIN more : Len(buttons) + i \in DOMAIN buttons' /\ buttons'[Len(buttons) + i] = more[i]
      BY <1>1
    <2>3. \A i \in DOMAIN buttons' : \/ i \in DOMAIN buttons /\ buttons'[i] = buttons[i]
                                     \/ i - Len(buttons) \in DOMAIN more /\ buttons'[i] = more[i - Len(buttons)]
      BY <1>1
    <2>4. ASSUME NEW c \in ToSet(buttons') PROVE c \in ToSet(buttons) \cup ToSet(more)
      BY <2>3 DEF ToSet
    <2>5. ASSUME NEW c \in ToSet(buttons) \cup ToSet(more) PROVE c \in ToSet(buttons')
      <3>1. CASE c \in ToSet(buttons)
        BY <3>1, <2>1 DEF ToSet
      <3>2. CASE c \in ToSet(more)
        BY <3>2, <2>2 DEF ToSet
      <3> QED BY <3>1, <3>2
    <2> QED BY <2>4, <2>5
  <1>4. /\ Occurrences(buttons, NoId) \in Nat /\ Occurrences(buttons', NoId) \in Nat
        /\ Occurrences(inbox, Announcement) \in Nat /\ Occurrences(inbox', Announcement) \in Nat
    <2>1. buttons' \in Seq(T)
      BY <1>1
    <2> QED BY <1>1, <1>2, <2>1, OccurrencesType
  <1>5. Occurrences(buttons, NoId) + (IF m = Announcement THEN 1 ELSE 0) <= Occurrences(buttons', NoId)
    <2>1. CASE m = Announcement
      <3>1. NoId \in T
        OBVIOUS
      <3> HIDE DEF T
      <3>2. buttons' = buttons \o <<NoId>>
        BY <2>1
      <3>3. buttons' = Append(buttons, NoId)
        BY <3>1, <3>2, <1>1
      <3>4. Occurrences(buttons', NoId) = Occurrences(buttons, NoId) + 1
        BY <3>1, <3>3, <1>1, OccurrencesAppend
      <3> QED BY <3>4, <1>4, <2>1
    <2>2. CASE m # Announcement
      <3>1. Occurrences(buttons, NoId) <= Occurrences(buttons', NoId)
        BY <1>1, OccurrencesConcat
      <3> QED BY <3>1, <1>4, <2>2
    <2> QED BY <2>1, <2>2
  <1> HIDE DEF m
  <1>6. V \subseteq U
    BY <1>2, <1>3 DEF Named, m
  <1>7. IsFiniteSet(U) /\ Cardinality(U) \in Nat /\ Cardinality(V) \in Nat /\ Cardinality(V) <= Cardinality(U)
    <2>1. U \in SUBSET DOMAIN consoles /\ V \in SUBSET DOMAIN consoles /\ V \in SUBSET U
      BY <1>1, <1>6
    <2> HIDE DEF U, V
    <2> QED BY <1>1, <2>1, FS_Subset, FS_CardinalityType
  <1>8. SUFFICES ASSUME status = "open", joined, initialised' = sessions \/ Snapshots' # {}
                 PROVE  Cardinality(V) <= Occurrences(buttons', NoId) + Occurrences(inbox', Announcement)
    BY DEF ButtonsComing
  <1>9. initialised = sessions \/ Snapshots # {}
    <2>1. CASE m.kind = "initilize"
      BY <1>2, <2>1 DEF Snapshots
    <2>2. CASE m.kind # "initilize"
      BY <1>2, <1>8, <2>2 DEF m
    <2> QED BY <2>1, <2>2
  <1>10. Cardinality(U) <= Occurrences(buttons, NoId) + Occurrences(inbox, Announcement)
    BY <1>8, <1>9 DEF ConsoleInv, ButtonsComing
  <1> HIDE DEF U, V
  <1> QED BY <1>2, <1>4, <1>5, <1>7, <1>10

LEMMA HandleConsoleStep ==
  ASSUME ConsoleInv, HandleConsole
  PROVE  ConsoleInv'
  <1> DEFINE m == Head(inbox)
             T == DOMAIN consoles \cup {NoId}
  <1>1. /\ UNCHANGED <<status, sessions, joined, consoles, announced, failed>>
        /\ inbox # << >> /\ inbox' = Tail(inbox)
    BY DEF HandleConsole, Handled, serverVars
  <1>2. /\ inbox \in Seq(ConsoleSends) /\ requests \in Seq(Requests) /\ buttons \in Seq(T)
        /\ tabs \in [DOMAIN tabs -> [fills : Seq(Nat), session : 0..sessions]]
        /\ sessions \in Nat /\ initialised \in 0..sessions
    BY DEF ConsoleInv, ConsoleTypeOK
  <1>3. /\ inbox' \in Seq(ConsoleSends) /\ m \in ConsoleSends /\ 1 \in DOMAIN inbox /\ m = inbox[1]
        /\ \A i \in DOMAIN inbox' : i + 1 \in DOMAIN inbox /\ inbox'[i] = inbox[i + 1]
    BY <1>1, <1>2, MessageTaken
  <1>4. m.kind \in {"completion", "initilize", "write-line", "connect-console", "fill-console"}
    BY <1>3, SendsShape
  <1>5. /\ m.kind = "initilize" => m.ids \in Seq(DOMAIN consoles) /\ status = "open"
        /\ m.kind = "completion" => status = "open"
    BY <1>3 DEF ConsoleInv, ConsoleCalls
  <1>6. buttons \o << >> = buttons /\ << >> \in Seq(T)
    BY <1>2
  <1>7. m = Announcement => m.kind = "connect-console"
    BY DEF Announcement
  <1>8. \A i \in DOMAIN inbox' :
            /\ inbox'[i].kind = "initilize" => inbox'[i].ids \in Seq(DOMAIN consoles)
            /\ status # "open" => inbox'[i].kind \notin {"completion", "initilize"}
    BY <1>3 DEF ConsoleInv, ConsoleCalls
  <1>9. ASSUME requests' = requests PROVE ConsoleCalls'
    BY <1>1, <1>8, <1>9 DEF ConsoleInv, ConsoleCalls
  <1> HIDE DEF T
  <1>10. CASE m.kind = "completion"
    <2> DEFINE r == request("RequestInitilization", NoId)
    <2>1. requests' = Append(requests, r) /\ UNCHANGED <<buttons, tabs, initialised>>
      BY <1>10 DEF HandleConsole, NotifyStartAnswered
    <2>2. r \in Requests /\ r.id = NoId
      BY DEF Requests, request
    <2> HIDE DEF r
    <2>3. /\ requests' \in Seq(Requests)
          /\ \A i \in DOMAIN requests : i \in DOMAIN requests' /\ requests'[i] = requests[i]
          /\ \A i \in DOMAIN requests' : requests'[i] = r \/ (i \in DOMAIN requests /\ requests'[i] = requests[i])
      BY <1>2, <2>1, <2>2
    <2>4. ConsoleTypeOK'
      BY <1>1, <1>3, <2>1, <2>3 DEF ConsoleInv, ConsoleTypeOK
    <2>5. ConsoleCalls'
      <3>1. \A i \in DOMAIN requests' : requests'[i].id \in DOMAIN consoles \cup {NoId}
        BY <2>2, <2>3 DEF ConsoleInv, ConsoleCalls
      <3> QED BY <1>1, <1>5, <1>8, <1>10, <3>1 DEF ConsoleCalls
    <2>6. LogsComing'
      BY <1>1, <1>10, <2>1, <2>3, LogsStillComing
    <2>7. ButtonsComing'
      BY <1>1, <1>6, <1>7, <1>10, <2>1, ButtonsStillComing DEF T
    <2> QED BY <2>4, <2>5, <2>6, <2>7 DEF ConsoleInv
  <1>11. CASE m.kind = "initilize"
    <2>1. buttons' = buttons \o m.ids /\ initialised' = sessions /\ UNCHANGED <<tabs, requests>>
      BY <1>11 DEF HandleConsole, Initilize, InsertButtons
    <2>2. m.ids \in Seq(T)
      <3>1. m.ids \in Seq(DOMAIN consoles) /\ DOMAIN consoles \subseteq T
        BY <1>5, <1>11 DEF T
      <3> QED BY <3>1, SeqWidens
    <2>3. ConsoleTypeOK'
      <3>1. buttons' \in Seq(T) /\ initialised' \in 0..sessions
        BY <1>2, <2>1, <2>2
      <3> QED BY <1>1, <1>3, <2>1, <3>1 DEF ConsoleInv, ConsoleTypeOK, T
    <2>4. ConsoleCalls'
      BY <1>9, <2>1
    <2>5. LogsComing'
      BY <1>1, <1>11, <2>1, LogsStillComing
    <2>6. ButtonsComing'
      BY <1>1, <1>7, <1>11, <2>1, <2>2, ButtonsStillComing DEF T
    <2> QED BY <2>3, <2>4, <2>5, <2>6 DEF ConsoleInv
  <1>12. CASE m.kind = "connect-console"
    <2>1. buttons' = buttons \o <<m.id>> /\ UNCHANGED <<tabs, requests, initialised>>
      BY <1>12 DEF HandleConsole, ConnectConsole, InsertButtons
    <2>2. m.id = NoId
      <3>1. m = Announcement
        BY <1>3, <1>12, SendsShape
      <3> HIDE DEF m
      <3> QED BY <3>1 DEF Announcement
    <2>3. <<NoId>> \in Seq(T) /\ buttons' = buttons \o <<NoId>>
      BY <2>1, <2>2 DEF T
    <2>4. ConsoleTypeOK'
      <3>1. buttons' \in Seq(T)
        BY <1>2, <2>3
      <3> QED BY <1>1, <1>3, <2>1, <3>1 DEF ConsoleInv, ConsoleTypeOK, T
    <2>5. ConsoleCalls'
      BY <1>9, <2>1
    <2>6. LogsComing'
      BY <1>1, <1>12, <2>1, LogsStillComing
    <2>7. ButtonsComing'
      BY <1>1, <1>12, <2>1, <2>3, ButtonsStillComing DEF T
    <2> QED BY <2>4, <2>5, <2>6, <2>7 DEF ConsoleInv
  <1>13. CASE m.kind = "fill-console"
    <2>1. /\ UNCHANGED <<buttons, requests, initialised>>
          /\ tabs' = IF m.id \in DOMAIN tabs THEN [tabs EXCEPT ![m.id].fills = Append(@, m.lines)] ELSE tabs
      BY <1>13 DEF HandleConsole, FillConsole
    <2>2. m.lines \in Nat
      BY <1>3, <1>13, SendsShape
    <2>3. /\ tabs' \in [DOMAIN tabs' -> [fills : Seq(Nat), session : 0..sessions]]
          /\ \A id \in DOMAIN tabs' : \/ id \in DOMAIN tabs /\ tabs'[id] = tabs[id] /\ m.id # id
                                      \/ tabs'[id].fills # << >>
      <3>1. CASE m.id \notin DOMAIN tabs
        BY <1>2, <2>1, <3>1
      <3>2. CASE m.id \in DOMAIN tabs
        <4> DEFINE id == m.id
                   fills == Append(tabs[id].fills, m.lines)
        <4>1. fills \in Seq(Nat) /\ fills # << >>
          <5>1. tabs[id].fills \in Seq(Nat)
            BY <1>2, <3>2
          <5>2. ASSUME NEW f \in Seq(Nat), NEW n \in Nat
                PROVE  Append(f, n) \in Seq(Nat) /\ Append(f, n) # << >>
            <6>1. Append(f, n) \in Seq(Nat) /\ Len(Append(f, n)) = Len(f) + 1 /\ Len(f) \in Nat
              OBVIOUS
            <6> QED BY <6>1, EmptySeq
          <5> HIDE DEF m
          <5> QED BY <5>1, <5>2, <2>2
        <4>2. tabs' = [tabs EXCEPT ![id] = [tabs[id] EXCEPT !.fills = fills]]
          BY <2>1, <3>2
        <4>3. tabs[id] \in [fills : Seq(Nat), session : 0..sessions]
          BY <1>2, <3>2
        <4> HIDE DEF fills, id
        <4>4. /\ [tabs[id] EXCEPT !.fills = fills] \in [fills : Seq(Nat), session : 0..sessions]
              /\ [tabs[id] EXCEPT !.fills = fills].fills = fills
          BY <4>1, <4>3
        <4> DEFINE tab == [tabs[id] EXCEPT !.fills = fills]
        <4> HIDE DEF tab
        <4>5. tabs' = [tabs EXCEPT ![id] = tab] /\ tab \in [fills : Seq(Nat), session : 0..sessions] /\ tab.fills # << >>
          BY <4>1, <4>2, <4>4 DEF tab
        <4> QED BY <1>2, <4>5 DEF id
      <3> QED BY <3>1, <3>2
    <2>4. ConsoleTypeOK'
      BY <1>1, <1>3, <2>1, <2>3 DEF ConsoleInv, ConsoleTypeOK
    <2>5. ConsoleCalls'
      BY <1>9, <2>1
    <2>6. LogsComing'
      BY <1>1, <2>1, <2>3, LogsStillComing
    <2>7. ButtonsComing'
      BY <1>1, <1>6, <1>7, <1>13, <2>1, ButtonsStillComing DEF T
    <2> QED BY <2>4, <2>5, <2>6, <2>7 DEF ConsoleInv
  <1>14. CASE m.kind = "write-line"
    <2>1. UNCHANGED <<buttons, tabs, requests, initialised>>
      BY <1>14 DEF HandleConsole
    <2>2. ConsoleTypeOK'
      BY <1>1, <1>3, <2>1 DEF ConsoleInv, ConsoleTypeOK
    <2>3. ConsoleCalls'
      BY <1>9, <2>1
    <2>4. LogsComing'
      BY <1>1, <1>14, <2>1, LogsStillComing
    <2>5. ButtonsComing'
      BY <1>1, <1>6, <1>7, <1>14, <2>1, ButtonsStillComing DEF T
    <2> QED BY <2>2, <2>3, <2>4, <2>5 DEF ConsoleInv
  <1> QED BY <1>4, <1>10, <1>11, <1>12, <1>13, <1>14

LEMMA ClickStep ==
  ASSUME ConsoleInv, NEW id \in ToSet(buttons), Click(id)
  PROVE  ConsoleInv'
  <1> DEFINE r == request("GetLogs", id)
             Tabs == [fills : Seq(Nat), session : 0..sessions]
  <1>1. UNCHANGED <<pvars, consoles, announced, failed, buttons, initialised>> /\ SwitchButton(id)
    BY DEF Click, serverVars
  <1>2. /\ requests \in Seq(Requests) /\ tabs \in [DOMAIN tabs -> Tabs] /\ sessions \in Nat
        /\ buttons \in Seq(DOMAIN consoles \cup {NoId}) /\ DOMAIN consoles \subseteq Consoles
    BY DEF ConsoleInv, ConsoleTypeOK
  <1>3. id \in DOMAIN consoles \cup {NoId}
    BY <1>2 DEF ToSet
  <1>4. r \in Requests /\ r.name = "GetLogs" /\ r.id = id
    BY <1>2, <1>3 DEF Requests, request
  <1>5. requests' = requests \/ requests' = Append(requests, r)
    BY <1>1 DEF SwitchButton
  <1> HIDE DEF r
  <1>6. /\ requests' \in Seq(Requests)
        /\ \A i \in DOMAIN requests : i \in DOMAIN requests' /\ requests'[i] = requests[i]
        /\ \A i \in DOMAIN requests' : requests'[i] = r \/ (i \in DOMAIN requests /\ requests'[i] = requests[i])
        /\ requests' = Append(requests, r) => \E i \in DOMAIN requests' : requests'[i] = r
    <2>1. CASE requests' = requests
      <3>1. requests # Append(requests, r)
        BY <1>2, <1>4
      <3> QED BY <1>2, <2>1, <3>1
    <2>2. CASE requests' = Append(requests, r)
      <3>1. /\ Len(requests) \in Nat /\ DOMAIN requests = 1..Len(requests)
            /\ DOMAIN requests' = 1..Len(requests) + 1 /\ requests'[Len(requests) + 1] = r
            /\ \A i \in 1..Len(requests) : requests'[i] = requests[i]
            /\ requests' \in Seq(Requests)
        BY <1>2, <1>4, <2>2
      <3> QED BY <3>1
    <2> QED BY <1>5, <2>1, <2>2
  <1>7. /\ tabs' \in [DOMAIN tabs' -> Tabs]
        /\ \A t \in DOMAIN tabs' : t = id \/ (t \in DOMAIN tabs /\ tabs'[t] = tabs[t])
        /\ id \in DOMAIN tabs' /\ status = "open" => requests' = Append(requests, r)
    <2>1. CASE id \in DOMAIN tabs
      <3>1. tabs' = [t \in DOMAIN tabs \ {id} |-> tabs[t]]
        BY <1>1, <2>1 DEF SwitchButton
      <3> QED BY <3>1, <1>2
    <2>2. CASE id \notin DOMAIN tabs
      <3> DEFINE tab == [fills |-> << >>, session |-> IF status = "open" THEN sessions ELSE 0]
      <3>1. /\ tabs' = entered(tabs, id, tab)
            /\ status = "open" => requests' = Append(requests, r)
        BY <1>1, <2>2 DEF SwitchButton, r
      <3>2. tab \in Tabs
        BY <1>2
      <3> HIDE DEF tab, Tabs
      <3> QED BY <3>1, <3>2, <1>2 DEF entered
    <2> QED BY <2>1, <2>2
  <1>8. ConsoleTypeOK'
    BY <1>1, <1>6, <1>7 DEF ConsoleInv, ConsoleTypeOK, pvars
  <1>9. ConsoleCalls'
    BY <1>1, <1>3, <1>4, <1>6 DEF ConsoleInv, ConsoleCalls, pvars
  <1>10. LogsComing'
    <2>1. SUFFICES ASSUME status = "open", NEW t \in DOMAIN tabs' \ (failed \cup {NoId}),
                          tabs'[t].session = sessions, tabs'[t].fills = << >>
                   PROVE  \/ \E i \in DOMAIN requests' :
                                 requests'[i].name = "GetLogs" /\ requests'[i].id = t
                          \/ \E i \in DOMAIN inbox : inbox[i].kind = "fill-console" /\ inbox[i].id = t
      BY <1>1 DEF LogsComing, pvars
    <2>2. CASE t = id
      BY <2>1, <2>2, <1>4, <1>6, <1>7
    <2>3. CASE t # id
      <3>1. t \in DOMAIN tabs /\ tabs'[t] = tabs[t]
        BY <2>3, <1>7
      <3>2. \/ \E i \in DOMAIN requests : requests[i].name = "GetLogs" /\ requests[i].id = t
            \/ \E i \in DOMAIN inbox : inbox[i].kind = "fill-console" /\ inbox[i].id = t
        BY <2>1, <3>1 DEF ConsoleInv, LogsComing
      <3> QED BY <3>2, <1>6
    <2> QED BY <2>2, <2>3
  <1>11. ButtonsComing'
    <2>1. Snapshots' = Snapshots /\ Named' = Named
      BY <1>1 DEF Snapshots, Listed, Named, pvars
    <2> QED BY <1>1, <2>1 DEF ConsoleInv, ButtonsComing, pvars
  <1> QED BY <1>8, <1>9, <1>10, <1>11 DEF ConsoleInv

LEMMA ConsoleStep ==
  ASSUME ConsoleInv, ConsoleNext
  PROVE  ConsoleInv'
  BY ConnectionStep, StartedStep, EndedStep, ConsoleConnectsStep, AnnounceStep, WriteLineStep,
     HubHandlesStep, HubThrowsStep, HandleConsoleStep, ClickStep DEF ConsoleNext

-----------------------------------------------------------------------------
(* Both pages *)

LEMMA PagesInvInit == Init => PagesInv
  <1>1. SUFFICES ASSUME Init PROVE PagesInv
    OBVIOUS
  <1>2. /\ site \in {"console", "info"} /\ status = "idle" /\ sessions = 0 /\ joined = FALSE
        /\ inbox = << >> /\ consoles = << >> /\ announced = {} /\ buttons = << >> /\ tabs = << >>
        /\ requests = << >> /\ initialised = 0 /\ live = << >> /\ rows = << >> /\ missed = {}
    BY <1>1 DEF Init, PageInit, Session!SessionInit, ConsoleInit, InfoInit
  <1>3. \A S : << >> \in Seq(S) /\ << >> \in [DOMAIN << >> -> S] /\ DOMAIN << >> = {}
    OBVIOUS
  <1>4. InfoInv
    <2>1. InfoTypeOK
      BY <1>2, <1>3 DEF InfoTypeOK
    <2>2. \A id : About(id) = {} /\ Lacks(rows, id) /\ id \notin DOMAIN live
      BY <1>2, <1>3 DEF About, Lacks
    <2>3. \A id : InTransit(id)
      BY <2>2 DEF InTransit
    <2> QED BY <1>2, <1>3, <2>1, <2>3 DEF InfoInv
  <1>5. ConsoleInv
    <2>1. ConsoleTypeOK
      <3>1. DOMAIN consoles = {} /\ IsFiniteSet(DOMAIN consoles)
        BY <1>2, <1>3, FS_EmptySet
      <3>2. /\ inbox \in Seq(ConsoleSends) /\ requests \in Seq(Requests)
            /\ buttons \in Seq(DOMAIN consoles \cup {NoId}) /\ consoles \in [DOMAIN consoles -> Nat]
            /\ tabs \in [DOMAIN tabs -> [fills : Seq(Nat), session : 0..sessions]]
        BY <1>2, <1>3, Zenon
      <3>3. sessions \in Nat /\ initialised \in 0..sessions
        BY <1>2
      <3> QED BY <1>2, <3>1, <3>2, <3>3 DEF ConsoleTypeOK
    <2>2. ConsoleCalls /\ LogsComing /\ ButtonsComing
      BY <1>2, <1>3 DEF ConsoleCalls, LogsComing, ButtonsComing
    <2> QED BY <2>1, <2>2 DEF ConsoleInv
  <1> QED BY <1>2, <1>4, <1>5 DEF PagesInv

LEMMA PagesInvStep == PagesInv /\ [Next]_vars => PagesInv'
  <1>1. SUFFICES ASSUME PagesInv, [Next]_vars PROVE PagesInv'
    OBVIOUS
  <1>2. CASE site = "info" /\ InfoNext /\ UNCHANGED cvars
    <2>1. site' = site
      BY <1>2 DEF InfoNext, Load, Join, Open, Drop, Fail, CloseAndStart, RemoveForAll, AddForAll,
                  UpdateForAll, UpdateStatusForAll, AddNumberForAll, Notify, HandleInfo, Broadcast, Handled
    <2>2. InfoInv'
      BY <1>1, <1>2, InfoStep DEF PagesInv
    <2> QED BY <1>1, <1>2, <2>1, <2>2 DEF PagesInv, cvars
  <1>3. CASE site = "console" /\ ConsoleNext /\ UNCHANGED ivars
    <2>1. site' = site
      BY <1>3 DEF ConsoleNext, Load, Join, Open, Drop, Fail, CloseAndStart, Started, Ended, ConsoleConnects,
                  Announce, WriteLine, HubHandles, HubThrows, HandleConsole, Click, Broadcast, Handled, pvars
    <2>2. ConsoleInv'
      BY <1>1, <1>3, ConsoleStep DEF PagesInv
    <2> QED BY <1>1, <1>3, <2>1, <2>2 DEF PagesInv, ivars
  <1>4. CASE UNCHANGED vars
    <2>1. UNCHANGED pvars /\ UNCHANGED cvars /\ UNCHANGED ivars
      BY <1>4 DEF vars
    <2>2. InfoInv => InfoInv'
      <3>1. \A id : About(id)' = About(id)
        BY <2>1 DEF About, pvars
      <3>2. \A id : InTransit(id) => InTransit(id)'
        BY <2>1, <3>1 DEF InTransit, pvars, ivars
      <3>3. InfoTypeOK => InfoTypeOK'
        BY <2>1 DEF InfoTypeOK, pvars, ivars
      <3> QED BY <2>1, <3>2, <3>3 DEF InfoInv, ivars
    <2>3. ConsoleInv => ConsoleInv'
      <3>1. Snapshots' = Snapshots /\ Named' = Named
        BY <2>1 DEF Snapshots, Listed, Named, pvars, cvars
      <3>2. ButtonsComing => ButtonsComing'
        BY <2>1, <3>1 DEF ButtonsComing, pvars, cvars
      <3>3. ConsoleTypeOK => ConsoleTypeOK'
        BY <2>1 DEF ConsoleTypeOK, pvars, cvars
      <3>4. ConsoleCalls => ConsoleCalls'
        BY <2>1 DEF ConsoleCalls, pvars, cvars
      <3>5. LogsComing => LogsComing'
        BY <2>1 DEF LogsComing, pvars, cvars
      <3> QED BY <3>2, <3>3, <3>4, <3>5 DEF ConsoleInv
    <2> QED BY <1>1, <2>1, <2>2, <2>3 DEF PagesInv, pvars, cvars, ivars
  <1> QED BY <1>1, <1>2, <1>3, <1>4 DEF Next

LEMMA PagesInvHolds == Spec => []PagesInv
  BY PagesInvInit, PagesInvStep, PTL DEF Spec

\* The table of site.js is numbered and, once it has handled everything, shows exactly what the proxy
\* has, for any connections, values and number of broadcasts, but for the connections of which a
\* broadcast was missed.
THEOREM TableMatchesHolds == Spec => []TableMatches
  <1>1. ASSUME PagesInv PROVE TableMatches
    <2>1. CASE site = "console"
      <3>1. DOMAIN rows = {} /\ DOMAIN live = {}
        BY <1>1, <2>1 DEF PagesInv
      <3> QED BY <3>1 DEF TableMatches
    <2>2. CASE site = "info"
      <3>1. InfoInv
        BY <1>1, <2>2 DEF PagesInv
      <3>2. ASSUME inbox = << >>, NEW id \in Connections \ missed
            PROVE  LET shown == {i \in DOMAIN rows : rows[i].id = id}
                   IN  IF id \in DOMAIN live
                       THEN \E i \in shown : shown = {i} /\ rows[i].data = live[id]
                       ELSE shown = {}
        <4>1. About(id) = {}
          BY <3>2 DEF About
        <4>2. IF id \in DOMAIN live THEN Shows(rows, id, live[id]) ELSE Lacks(rows, id)
          BY <3>1, <4>1 DEF InfoInv, InTransit
        <4> DEFINE shown == {i \in DOMAIN rows : rows[i].id = id}
        <4>3. CASE id \in DOMAIN live
          <5>1. PICK i \in DOMAIN rows : /\ rows[i].id = id /\ rows[i].data = live[id]
                                         /\ \A j \in DOMAIN rows : rows[j].id = id => j = i
            BY <4>2, <4>3 DEF Shows
          <5>2. i \in shown /\ shown = {i}
            BY <5>1
          <5> QED BY <5>1, <5>2, <4>3
        <4>4. CASE id \notin DOMAIN live
          BY <4>2, <4>4 DEF Lacks
        <4> QED BY <4>3, <4>4
      <3> QED BY <3>1, <3>2 DEF InfoInv, TableMatches
    <2> QED BY <1>1, <2>1, <2>2 DEF PagesInv
  <1> QED BY <1>1, PagesInvHolds, PTL

\* Every console that has announced itself has a button of its own, named or not, once the page is
\* initialised and quiet, for any consoles and any number of reconnections.
THEOREM EveryConsoleHasButtonHolds == Spec => []EveryConsoleHasButton
  <1>1. ASSUME PagesInv, Quiet, initialised = sessions
        PROVE  Cardinality(announced \ ToSet(buttons))
                   <= Cardinality({i \in DOMAIN buttons : buttons[i] = NoId})
    <2>1. CASE site = "info"
      <3>1. announced \ ToSet(buttons) = {} /\ {i \in DOMAIN buttons : buttons[i] = NoId} = {}
        BY <1>1, <2>1 DEF PagesInv
      <3>2. Cardinality(announced \ ToSet(buttons)) = 0
            /\ Cardinality({i \in DOMAIN buttons : buttons[i] = NoId}) = 0
        BY <3>1, FS_EmptySet
      <3> QED BY <3>2
    <2>2. CASE site = "console"
      <3>1. ConsoleInv /\ inbox = << >> /\ status = "open" /\ joined
        BY <1>1, <2>2 DEF PagesInv, Quiet
      <3>2. Snapshots = {} /\ Named = ToSet(buttons)
        BY <3>1 DEF Snapshots, Listed, Named
      <3>3. Occurrences(inbox, Announcement) = 0
        <4>1. {i \in DOMAIN inbox : inbox[i] = Announcement} = {}
          BY <3>1
        <4> QED BY <4>1, FS_EmptySet DEF Occurrences
      <3>4. Cardinality(announced \ ToSet(buttons))
                <= Occurrences(buttons, NoId) + Occurrences(inbox, Announcement)
        BY <1>1, <3>1, <3>2 DEF ConsoleInv, ButtonsComing
      <3>5. Occurrences(buttons, NoId) \in Nat
        BY <3>1, OccurrencesType DEF ConsoleInv, ConsoleTypeOK
      <3>6. Cardinality(announced \ ToSet(buttons)) <= Occurrences(buttons, NoId)
        BY <3>3, <3>4, <3>5
      <3> QED BY <3>6 DEF Occurrences
    <2> QED BY <1>1, <2>1, <2>2 DEF PagesInv
  <1>2. PagesInv => EveryConsoleHasButton
    BY <1>1 DEF EveryConsoleHasButton
  <1> QED BY <1>2, PagesInvHolds, PTL

\* A tab opened over the connection by a button that names a console is filled once the page is
\* quiet, unless GetLogs threw, for any consoles, clicks and reconnections.
THEOREM EveryTabFilledHolds == Spec => []EveryTabFilled
  <1>1. ASSUME PagesInv, Quiet, NEW id \in DOMAIN tabs \ (failed \cup {NoId}),
               tabs[id].session = sessions, tabs[id].fills = << >>
        PROVE  FALSE
    <2>1. CASE site = "info"
      <3>1. DOMAIN tabs = {}
        BY <1>1, <2>1 DEF PagesInv
      <3> QED BY <1>1, <3>1
    <2>2. CASE site = "console"
      <3>1. LogsComing /\ status = "open" /\ DOMAIN inbox = {} /\ DOMAIN requests = {}
        BY <1>1, <2>2 DEF PagesInv, Quiet, ConsoleInv
      <3> QED BY <1>1, <3>1 DEF LogsComing
    <2> QED BY <1>1, <2>1, <2>2 DEF PagesInv
  <1>2. PagesInv => EveryTabFilled
    BY <1>1 DEF EveryTabFilled
  <1> QED BY <1>2, PagesInvHolds, PTL
=============================================================================

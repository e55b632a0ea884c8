----------------------------- MODULE ConsolePage -----------------------------
(***************************************************************************)
(* The page of the developer consoles: wwwroot/js/console.js, ConsoleHub and      *)
(* ConsoleService, and the consoles that connect to ConsolesServer                *)
(* (DevConsole.Server).  A button or a tab is its console's id.                    *)
(***************************************************************************)
EXTENDS PageSession, FiniteSets, SequencesExt

CONSTANTS Consoles,    \* ids of consoles
          MaxLines,    \* bound on the lines a console writes
          MaxClicks    \* bound on the clicks

VARIABLES consoles,    \* ConsolesManager.consoles: id -> how many lines it has logged
          accepting,   \* ConsolesServer's loop is running
          announced,   \* consoles whose funcStart has run
          buttons,     \* the children of #console-list after the template
          tabs,        \* open tabs: id -> [fills, session]
          requests,    \* invocations the server has not handled, in order
          initialised, \* history: the session in which "initilize" was handled last
          failed,      \* history: consoles whose GetLogs threw in this session
          clicks
cvars == <<consoles, accepting, announced, buttons, tabs, requests, initialised, failed, clicks>>
\* What the server's part leaves alone, and what the page's does
pageVars == <<buttons, tabs, initialised, clicks>>
serverVars == <<consoles, accepting, announced, failed>>

ConsoleInit ==
    /\ consoles = << >> /\ accepting = TRUE /\ announced = {} /\ buttons = << >>
    /\ tabs = << >> /\ requests = << >> /\ initialised = 0 /\ failed = {} /\ clicks = 0

\* item.id where the item is a string: "connect-console" carries JSON text that the page does
\* not parse.
NoId == "undefined"

request(name, id) == [name |-> name, id |-> id]
entered(f, key, value) == [k \in DOMAIN f \cup {key} |-> IF k = key THEN value ELSE f[k]]

-----------------------------------------------------------------------------
(* ConsolesServer: a console is entered into the manager, then announced, then read. *)

\* AddConnection throws when the id is taken, which ends the loop that accepts consoles.
ConsoleConnects(c) ==
    /\ accepting
    /\ IF c \in DOMAIN consoles
       THEN accepting' = FALSE /\ UNCHANGED consoles
       ELSE consoles' = entered(consoles, c, 0) /\ UNCHANGED accepting
    /\ UNCHANGED <<pvars, announced, failed, requests, pageVars>>

\* Mutant: a console is announced before it is entered.
AnnounceEarly(c) ==
    /\ c \notin announced
    /\ announced' = announced \cup {c}
    /\ Broadcast([kind |-> "connect-console", id |-> NoId])
    /\ UNCHANGED <<consoles, accepting, failed, requests, pageVars>>

\* funcStart: NotifyOnConsoleConnect
Announce(c) ==
    /\ c \in DOMAIN consoles \ announced
    /\ announced' = announced \cup {c}
    /\ Broadcast([kind |-> "connect-console", id |-> NoId])
    /\ UNCHANGED <<consoles, accepting, failed, requests, pageVars>>

\* ConsoleConnection.Run: a line is logged and broadcast.
WriteLine(c) ==
    /\ c \in announced \cap DOMAIN consoles /\ consoles[c] < MaxLines
    /\ consoles' = [consoles EXCEPT ![c] = @ + 1]
    /\ Broadcast([kind |-> "write-line", id |-> c])
    /\ UNCHANGED <<accepting, announced, failed, requests, pageVars>>

-----------------------------------------------------------------------------
(* ConsoleHub: the invocations of one page are handled in order. *)

\* The messages that answer a request, consoles.Values in any order.  GetLogs throws when its
\* argument is no object with an id.
Answers(r) ==
    CASE r.name = "NotifyStart" -> {<<[kind |-> "completion"]>>}
      [] r.name = "RequestInitilization" ->
             {<<[kind |-> "initilize", ids |-> s]>> : s \in SetToSeqs(DOMAIN consoles)}
      [] r.name = "GetLogs" /\ r.id \in DOMAIN consoles ->
             {<<[kind |-> "fill-console", id |-> r.id, lines |-> consoles[r.id]]>>}
      [] OTHER -> {<< >>}

HubHandles ==
    /\ joined /\ requests # << >>
    /\ requests' = Tail(requests)
    /\ \E answer \in Answers(Head(requests)) : inbox' = inbox \o answer
    /\ UNCHANGED <<site, status, told, loaded, sessions, joined>>
    /\ UNCHANGED <<serverVars, pageVars>>

\* ToJsonObject enumerates a queue of logs that Run, in another task, may be adding to: the
\* enumeration throws and the page gets no answer.
HubThrows ==
    /\ joined /\ requests # << >> /\ announced # {}
    /\ Head(requests).name \in {"RequestInitilization", "GetLogs"}
    /\ requests' = Tail(requests)
    /\ failed' = failed \cup {Head(requests).id}
    /\ UNCHANGED <<pvars, consoles, accepting, announced, pageVars>>

-----------------------------------------------------------------------------
(* The handlers of console.js *)

InsertButtons(ids) == buttons' = buttons \o ids

Initilize(m) ==
    /\ InsertButtons(m.ids) /\ initialised' = sessions
    /\ UNCHANGED <<tabs, requests>>

ConnectConsole(m) == InsertButtons(<<m.id>>) /\ UNCHANGED <<tabs, requests, initialised>>

\* A tab that was closed meanwhile is not found, and the handler throws.
FillConsole(m) ==
    /\ tabs' = IF m.id \in DOMAIN tabs THEN [tabs EXCEPT ![m.id].fills = Append(@, m.lines)] ELSE tabs
    /\ UNCHANGED <<buttons, requests, initialised>>

\* start(), once NotifyStart has been answered
NotifyStartAnswered ==
    /\ requests' = Append(requests, request("RequestInitilization", NoId))
    /\ UNCHANGED <<buttons, tabs, initialised>>

HandleConsole ==
    /\ inbox # << >>
    /\ LET m == Head(inbox)
       IN  CASE m.kind = "completion" -> NotifyStartAnswered
             [] m.kind = "initilize" -> Initilize(m)
             [] m.kind = "connect-console" -> ConnectConsole(m)
             [] m.kind = "fill-console" -> FillConsole(m)
             [] m.kind = "write-line" -> UNCHANGED <<buttons, tabs, requests, initialised>>
    /\ Handled /\ UNCHANGED <<serverVars, clicks>>

\* Mutant: the tab is opened and its logs are not asked for.
SwitchButtonNoLogs(id) ==
    /\ IF id \in DOMAIN tabs
       THEN tabs' = [t \in DOMAIN tabs \ {id} |-> tabs[t]]
       ELSE tabs' = entered(tabs, id, [fills |-> << >>, session |-> sessions])
    /\ UNCHANGED requests

\* requestLogs is rejected when the connection does not send; while it is starting, it may.
SwitchButton(id) ==
    IF id \in DOMAIN tabs
    THEN tabs' = [t \in DOMAIN tabs \ {id} |-> tabs[t]] /\ UNCHANGED requests
    ELSE /\ tabs' = entered(tabs, id, [fills |-> << >>,
                                        session |-> IF status = "open" THEN sessions ELSE 0])
         /\ \/ /\ status = "open" \/ (status = "starting" /\ joined)
               /\ requests' = Append(requests, request("GetLogs", id))
            \/ status # "open" /\ UNCHANGED requests

Click(id) ==
    /\ clicks < MaxClicks /\ clicks' = clicks + 1
    /\ SwitchButton(id)
    /\ UNCHANGED <<pvars, serverVars, buttons, initialised>>

-----------------------------------------------------------------------------
\* start(): NotifyStart is invoked when the connection has opened.
Started ==
    /\ Open
    /\ requests' = Append(requests, request("NotifyStart", NoId)) /\ failed' = {}
    /\ UNCHANGED <<consoles, accepting, announced, pageVars>>

Ended ==
    /\ Fail \/ CloseAndStart
    /\ requests' = << >> /\ UNCHANGED <<serverVars, pageVars>>

ConsoleNext ==
    \/ (Load \/ Join \/ Drop) /\ UNCHANGED cvars
    \/ Started \/ Ended
    \/ \E c \in Consoles : ConsoleConnects(c) \/ Announce(c) \/ WriteLine(c)
    \/ HubHandles \/ HubThrows \/ HandleConsole
    \/ \E id \in ToSet(buttons) : Click(id)

Quiet == status = "open" /\ joined /\ inbox = << >> /\ requests = << >>

\* A console that has announced itself has a button, however the announcement, the snapshot
\* that RequestInitilization takes and a reconnection of the page interleave: once the page is
\* initialised and quiet, the buttons without an id are at least as many as the announced
\* consoles that no button names.
EveryConsoleHasButton ==
    Quiet /\ initialised = sessions =>
        Cardinality(announced \ ToSet(buttons))
            <= Cardinality({i \in DOMAIN buttons : buttons[i] = NoId})

\* Once the page is quiet, a tab opened over this connection by a button that names a console
\* has been filled, however often it was closed and opened again while its logs were on their
\* way; unless GetLogs threw on the server.
EveryTabFilled ==
    Quiet => \A id \in DOMAIN tabs \ (failed \cup {NoId}) :
                 tabs[id].session = sessions => tabs[id].fills # << >>
=============================================================================

------------------------------- MODULE Pages -------------------------------
(***************************************************************************)
(* A browser shows the console page or the info page; each uses its own hub        *)
(* connection, so that the two never meet in one behaviour.                          *)
(***************************************************************************)
EXTENDS ConsolePage, InfoPage

vars == <<pvars, cvars, ivars>>
Init == PageInit /\ ConsoleInit /\ InfoInit
Next ==
    \/ site = "console" /\ ConsoleNext /\ UNCHANGED ivars
    \/ site = "info" /\ InfoNext /\ UNCHANGED cvars
Spec == Init /\ [][Next]_vars

ConsoleMessages ==
    [kind : {"completion"}] \cup [kind : {"initilize"}, ids : Seq(Consoles)]
    \cup [kind : {"connect-console", "write-line"}, id : Consoles \cup {NoId}]
    \cup [kind : {"fill-console"}, id : Consoles, lines : 0..MaxLines]
InfoMessages ==
    [kind : {"connectionAdd", "connectionRemove", "connectionUpdateAll"},
     id : Connections \cup {Undefined}, data : Values \cup {Undefined}]

\* The type invariant of both pages and what feeds them; a row is numbered from 1, since the
\* template's table body comes before it, and only a page that is connected has messages.
TypeOK ==
    /\ status \in {"idle", "starting", "open"} /\ told \in BOOLEAN /\ joined \in BOOLEAN
    /\ sessions \in 0..MaxSessions
    /\ inbox \in Seq(IF site = "console" THEN ConsoleMessages ELSE InfoMessages)
    /\ (inbox # << >> => status # "idle")
    /\ DOMAIN consoles \subseteq Consoles /\ announced \subseteq Consoles
    /\ buttons \in Seq(Consoles \cup {NoId}) /\ DOMAIN tabs \subseteq ToSet(buttons)
    /\ requests \in Seq([name : {"NotifyStart", "RequestInitilization", "GetLogs"},
                         id : Consoles \cup {NoId}])
    /\ initialised \in 0..sessions
    /\ DOMAIN live \subseteq Connections
    /\ rows \in Seq([id : Connections \cup {Undefined}, num : 1..MaxEvents,
                     data : Values \cup {Undefined}])
=============================================================================

----------------------------- MODULE PageSession -----------------------------
(***************************************************************************)
(* What console.js (DevConsole.Server) and site.js (ProxyServerWebGUI) share:    *)
(* they start a SignalR connection when they are loaded and again in onclose,    *)
(* and handle what the server sends.  The connection is HubSession, which        *)
(* SignalRClient implements.  The server sends to a page it has in its list      *)
(* (`joined'); messages arrive in order and are lost when the connection ends.    *)
(***************************************************************************)
EXTENDS Integers, Sequences

CONSTANT MaxSessions     \* how often the connection is opened

VARIABLES site,      \* which of the two pages the browser shows: "console" or "info"
          status, told,
          loaded,    \* the script has run
          sessions,  \* how often the connection has opened
          joined,    \* the server's hub has this client in Clients.All
          inbox      \* what the server has sent and the page has not handled
Session == INSTANCE HubSession
pvars == <<site, status, told, loaded, sessions, joined, inbox>>

PageInit ==
    /\ site \in {"console", "info"} /\ Session!SessionInit
    /\ loaded = FALSE /\ sessions = 0 /\ joined = FALSE /\ inbox = << >>

\* The call of start() at the end of the script
Load ==
    /\ ~loaded /\ loaded' = TRUE /\ Session!Start
    /\ UNCHANGED <<site, sessions, joined, inbox>>

\* The server has accepted the handshake.
Join ==
    /\ status = "starting" /\ ~joined /\ sessions < MaxSessions
    /\ joined' = TRUE
    /\ UNCHANGED <<site, status, told, loaded, sessions, inbox>>

Open ==
    /\ Session!Opens /\ joined /\ sessions' = sessions + 1
    /\ UNCHANGED <<site, loaded, joined, inbox>>

\* start() was rejected: neither page has a catch, nor calls start() again.
Fail ==
    /\ Session!StartFails
    /\ joined' = FALSE /\ inbox' = << >>
    /\ UNCHANGED <<site, loaded, sessions>>

\* The server takes the connection for lost; the page may not have noticed.
Drop ==
    /\ joined /\ status = "open" /\ joined' = FALSE
    /\ UNCHANGED <<site, status, told, loaded, sessions, inbox>>

\* onclose: start() again
CloseAndStart ==
    /\ Session!Closes /\ status' = "starting"
    /\ joined' = FALSE /\ inbox' = << >>
    /\ UNCHANGED <<site, loaded, sessions>>

\* Clients.All.SendAsync, as far as this page gets it
Broadcast(message) ==
    /\ inbox' = IF joined THEN Append(inbox, message) ELSE inbox
    /\ UNCHANGED <<site, status, told, loaded, sessions, joined>>

\* The page has handled the first message.
Handled == inbox' = Tail(inbox) /\ UNCHANGED <<site, status, told, loaded, sessions, joined>>
=============================================================================

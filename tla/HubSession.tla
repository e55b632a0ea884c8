----------------------------- MODULE HubSession -----------------------------
(***************************************************************************)
(* What a page may rely on when it uses a SignalR HubConnection (signalr.js):  *)
(* start() opens a session or fails; a session that was opened is closed at    *)
(* most once, which the onclose callbacks are told, and no other one opens      *)
(* before; the callback may call start() at once.  `told' is FALSE while a      *)
(* session is open that no callback has seen closed.                            *)
(***************************************************************************)
VARIABLES status,   \* "idle", "starting" or "open"
          told
svars == <<status, told>>

SessionInit == status = "idle" /\ told = TRUE

Start == status = "idle" /\ status' = "starting" /\ UNCHANGED told
StartFails == status = "starting" /\ status' = "idle" /\ UNCHANGED told
Opens == status = "starting" /\ status' = "open" /\ told' = FALSE
Closes == status = "open" /\ told' = TRUE /\ status' \in {"idle", "starting"}

SessionNext == Start \/ StartFails \/ Opens \/ Closes
SessionSpec == SessionInit /\ [][SessionNext]_svars
=============================================================================

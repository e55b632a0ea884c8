-------------------------- MODULE MC_SignalRClient --------------------------
(* Model-checking instance of SignalRClient. *)
EXTENDS SignalRClient

ep(t) == [transport |-> t, text |-> TRUE]
\* What an ASP.NET Core server offers, a server without WebSockets, and one endpoint the
\* client skips
MCOffers == {<<ep("WebSockets"), ep("ServerSentEvents"), ep("LongPolling")>>,
             <<ep("LongPolling")>>,
             <<[transport |-> "ServerSentEvents", text |-> FALSE], ep("unknown")>>}
MCChunks == {<<"handshake">>, <<"handshake", "other">>, <<"handshake", "close">>,
             <<"handshakeError">>, <<"other">>, <<"close">>,
             <<"closeAllowReconnect">>, <<"other", "closeAllowReconnect">>}
page(retries, restart, stopper) ==
    [retries |-> retries, restart |-> restart, stopper |-> stopper]
\* The console page and the info page
RepositoryPages == {page(-1, TRUE, FALSE)}
\* The pages of this repository; a page that only starts; pages with a reconnect policy
MCPages == {page(-1, TRUE, FALSE), page(-1, FALSE, FALSE), page(0, FALSE, FALSE),
            page(2, FALSE, FALSE), page(1, FALSE, TRUE)}
=============================================================================

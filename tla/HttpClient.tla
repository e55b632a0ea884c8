----------------------------- MODULE HttpClient -----------------------------
(***************************************************************************)
(* One request of the SignalR client's HTTP clients (wwwroot/lib/signalr/    *)
(* signalr.js: FetchHttpClient, XhrHttpClient, DefaultHttpClient and the      *)
(* AbortController they share), as a record:                                  *)
(*   phase    "idle", "fetching", "body" (headers are in), "done"             *)
(*   onabort  the signal's handler belongs to this request                    *)
(*   timer    the request's timeout is running                                *)
(*   error    how it was rejected; "none" while it runs and when it resolved  *)
(* Each operator is what one event does to the request; `fetch' says which       *)
(* client DefaultHttpClient chose (typeof fetch !== "undefined").                *)
(***************************************************************************)
\* The errors the clients reject with: one for a status, one for the clock, one for abort().
ErrorKinds == {"none", "HttpError", "TimeoutError", "AbortError"}

Requests == [phase : {"idle", "fetching", "body", "done"}, onabort : BOOLEAN,
             timer : BOOLEAN, error : ErrorKinds]

Idle == [phase |-> "idle", onabort |-> FALSE, timer |-> FALSE, error |-> "none"]
Settled(r, e) == [r EXCEPT !.phase = "done", !.timer = FALSE, !.error = e]

\* send(): a signal that was already aborted rejects the request before anything is sent.
Send(aborted) ==
    IF aborted THEN Settled(Idle, "AbortError")
               ELSE [phase |-> "fetching", onabort |-> TRUE, timer |-> TRUE, error |-> "none"]

\* AbortController.abort(): only a handler that is still hooked reaches the request.
Abort(r) == IF r.phase = "fetching" /\ r.onabort THEN Settled(r, "AbortError") ELSE r

\* The `finally' after `await fetch': the timer and the handler are dropped with the headers,
\* so neither can end the wait for the body.  An XMLHttpRequest has no such point.
Headers(r) == [r EXCEPT !.phase = "body", !.timer = FALSE, !.onabort = FALSE]

\* The whole response is in: fetch clients reach this from "body", onload from "fetching".
Respond(r, ok) == Settled([r EXCEPT !.onabort = FALSE], IF ok THEN "none" ELSE "HttpError")

AwaitsResponse(r, fetch) == r.phase = IF fetch THEN "body" ELSE "fetching"
AwaitsHeaders(r, fetch) == fetch /\ r.phase = "fetching"

\* The timeout and a lost connection; XhrHttpClient leaves its handler hooked in both.
TimedOut(r, fetch) == Settled([r EXCEPT !.onabort = @ /\ ~fetch], "TimeoutError")
Failed(r, fetch) == Settled([r EXCEPT !.onabort = @ /\ ~fetch], "HttpError")
=============================================================================

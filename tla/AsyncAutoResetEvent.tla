------------------------- MODULE AsyncAutoResetEvent -------------------------
(***************************************************************************)
(* The awaitable auto-reset event of Izhg.Lib.Threading                    *)
(* (Async/Task Based/AsyncAutoResetEvent.cs, the class without a type      *)
(* parameter).  Set releases the oldest waiter or banks a signal; WaitAsync *)
(* consumes a banked signal or queues a TaskCompletionSource.              *)
(*                                                                         *)
(* Only the blocks under lock (waits) are atomic.  The prelude of WaitAsync *)
(* that registers the cancellation callback and the assignments of Reset    *)
(* run without the lock, so each of their reads and writes is a step.       *)
(***************************************************************************)
EXTENDS Naturals, Sequences, FiniteSets

CONSTANTS Waiters,     \* callers of WaitAsync; each awaits one task at a time
          Tokens,      \* cancellation tokens other than default(CancellationToken)
          NoToken,     \* null / default(CancellationToken)
          Torn,        \* a half-written CancellationToken? field
          Canceled,    \* a queued TaskCompletionSource that has been canceled
          MaxSets,     \* bound on the calls of Set
          MaxWaits,    \* bound on the queue that WaitAsync may find
          MaxResets    \* bound on the calls of Reset

ASSUME TokenAssumption == NoToken \notin Tokens /\ Torn \notin Tokens /\ Torn # NoToken
ASSUME WaiterAssumption == Canceled \notin Waiters
ASSUME BoundAssumption == MaxSets \in Nat /\ MaxWaits \in Nat /\ MaxResets \in Nat

VARIABLES waits,              \* queued TaskCompletionSources, each named by its awaiter
          signals,            \* banked signals
          isCanceled,
          cancellationToken,
          cachedCanceled,     \* cachedCanceled # null
          pc,                 \* where each caller of WaitAsync is
          tok,                \* the token it passed
          registered,         \* callbacks registered with each token
          fired,              \* tokens whose source was canceled
          callbacks,          \* callbacks of fired tokens still to run
          resetPc,            \* where the caller of Reset is
          resetFails,         \* Reset found waits or signals and will throw
          resets,             \* calls of Reset so far
          sets,               \* calls of Set so far
          released            \* signals that reached a waiter

fields == <<waits, signals, isCanceled, cancellationToken, cachedCanceled>>
tokenVars == <<registered, fired, callbacks>>
counters == <<resetFails, resets, sets, released>>
vars == <<waits, signals, isCanceled, cancellationToken, cachedCanceled, pc, tok,
          registered, fired, callbacks, resetPc, resetFails, resets, sets, released>>

\* What an awaiter can observe of the task WaitAsync returned.
Outcomes == {"completed", "canceled", "nullTask", "thrown"}
WaiterStates == {"idle", "check", "store", "register", "verify", "enter", "pending"} \cup Outcomes
ResetStates == {"idle", "token", "flag", "lock", "signals"}

Init ==
    /\ waits = << >> /\ signals = 0 /\ isCanceled = FALSE
    /\ cancellationToken = NoToken /\ cachedCanceled = FALSE
    /\ pc = [t \in Waiters |-> "idle"] /\ tok = [t \in Waiters |-> NoToken]
    /\ registered = [k \in Tokens |-> 0] /\ fired = {} /\ callbacks = 0
    /\ resetPc = "idle" /\ resetFails = FALSE /\ resets = 0 /\ sets = 0 /\ released = 0

-----------------------------------------------------------------------------
(* WaitAsync(token) *)

Goto(t, s) == pc' = [pc EXCEPT ![t] = s]

\* The call; with default(CancellationToken) the prelude is skipped.
WaitAsync(t, token) ==
    /\ pc[t] = "idle"
    /\ tok' = [tok EXCEPT ![t] = token]
    /\ Goto(t, IF token = NoToken THEN "enter" ELSE "check")
    /\ UNCHANGED <<fields, tokenVars, resetPc, counters>>

\* if (cancellationToken == null); the store that follows writes a struct of
\* two words, so its first word may be visible alone (Torn).
CheckToken(t) ==
    /\ pc[t] = "check"
    /\ IF cancellationToken = NoToken
       THEN /\ Goto(t, "store")
            /\ cancellationToken' \in {NoToken, Torn}
       ELSE Goto(t, "verify") /\ UNCHANGED cancellationToken
    /\ UNCHANGED <<waits, signals, isCanceled, cachedCanceled, tok, tokenVars, resetPc, counters>>

StoreToken(t) ==
    /\ pc[t] = "store"
    /\ cancellationToken' = tok[t]
    /\ Goto(t, "register")
    /\ UNCHANGED <<waits, signals, isCanceled, cachedCanceled, tok, tokenVars, resetPc, counters>>

\* The callback cancels the queued sources up to the first one that is already
\* canceled, where SetCanceled throws and ends the foreach.  (A caller that is resumed in line
\* and waits again at once would change the queue under the foreach and end it, too; callers
\* here resume in steps of their own.)
Reached(i) == \A j \in 1..i : waits[j] # Canceled
CallbackThrows == \E i \in 1..Len(waits) : waits[i] = Canceled

\* The body of the cancellation callback, under lock (waits).
CancelAll ==
    /\ isCanceled' = TRUE /\ cachedCanceled' = TRUE
    /\ waits' = [i \in 1..Len(waits) |-> IF Reached(i) THEN Canceled ELSE waits[i]]
CanceledPc == [w \in Waiters |->
    IF \E i \in 1..Len(waits) : waits[i] = w /\ Reached(i) THEN "canceled" ELSE pc[w]]

\* token.Register: a token that has already fired runs the callback in line, and
\* what the callback throws leaves WaitAsync.
RegisterToken(t) ==
    /\ pc[t] = "register"
    /\ registered' = [registered EXCEPT ![tok[t]] = @ + 1]
    /\ IF tok[t] \in fired
       THEN /\ CancelAll
            /\ pc' = [CanceledPc EXCEPT ![t] =
                        IF CallbackThrows THEN "thrown" ELSE "verify"]
       ELSE Goto(t, "verify") /\ UNCHANGED <<waits, isCanceled, cachedCanceled>>
    /\ UNCHANGED <<signals, cancellationToken, tok, fired, callbacks, resetPc, counters>>

\* "Tokens must be from one source"
VerifyToken(t) ==
    /\ pc[t] = "verify"
    /\ Goto(t, IF cancellationToken = tok[t] THEN "enter" ELSE "thrown")
    /\ UNCHANGED <<fields, tok, tokenVars, resetPc, counters>>

\* Mutant: the banked signals are not looked at.
EnterWaitQueues(t) ==
    /\ pc[t] = "enter"
    /\ waits' = Append(waits, t)
    /\ Goto(t, "pending")
    /\ UNCHANGED <<signals, isCanceled, cancellationToken, cachedCanceled, tok, tokenVars, resetPc,
                   counters>>

\* lock (waits): take a banked signal or queue a new source.
EnterWait(t) ==
    /\ pc[t] = "enter"
    /\ IF signals > 0
       THEN /\ signals' = signals - 1
            /\ released' = released + 1
            /\ Goto(t, IF ~isCanceled THEN "completed"
                       ELSE IF cachedCanceled THEN "canceled" ELSE "nullTask")
            /\ UNCHANGED waits
       ELSE /\ waits' = Append(waits, t)
            /\ Goto(t, "pending")
            /\ UNCHANGED <<signals, released>>
    /\ UNCHANGED <<isCanceled, cancellationToken, cachedCanceled, tok, tokenVars, resetPc,
                   resetFails, resets, sets>>

\* The awaiter goes on after its task ended.
Resume(t) ==
    /\ pc[t] \in Outcomes
    /\ Goto(t, "idle")
    /\ UNCHANGED <<fields, tok, tokenVars, resetPc, counters>>

-----------------------------------------------------------------------------
(* CancellationTokenSource.Cancel() and the callbacks it runs *)

CancelToken(k) ==
    /\ k \in Tokens \ fired
    /\ fired' = fired \cup {k}
    /\ callbacks' = callbacks + registered[k]
    /\ UNCHANGED <<fields, pc, tok, registered, resetPc, counters>>

RunCallback ==
    /\ callbacks > 0
    /\ callbacks' = callbacks - 1
    /\ CancelAll
    /\ pc' = CanceledPc
    /\ UNCHANGED <<signals, cancellationToken, tok, registered, fired, resetPc, counters>>

-----------------------------------------------------------------------------
(* Set(), all of it under lock (waits).  SetResult on a canceled source throws; *)
(* the exception is stored in exception2 and the signal is gone.               *)

\* Mutant: Peek instead of Dequeue.
SetPeeks ==
    /\ sets' = sets + 1
    /\ IF isCanceled \/ waits = << >>
       THEN signals' = signals + 1 /\ UNCHANGED <<pc, released>>
       ELSE /\ IF Head(waits) = Canceled
               THEN UNCHANGED <<pc, released>>
               ELSE Goto(Head(waits), "completed") /\ released' = released + 1
            /\ UNCHANGED signals
    /\ UNCHANGED <<waits, isCanceled, cancellationToken, cachedCanceled, tok, tokenVars, resetPc,
                   resetFails, resets>>
\* Mutant: the test of isCanceled is missing.
SetUncanceled ==
    /\ sets' = sets + 1
    /\ IF waits = << >>
       THEN signals' = signals + 1 /\ UNCHANGED <<waits, pc, released>>
       ELSE /\ waits' = Tail(waits)
            /\ IF Head(waits) = Canceled
               THEN UNCHANGED <<pc, released>>
               ELSE Goto(Head(waits), "completed") /\ released' = released + 1
            /\ UNCHANGED signals
    /\ UNCHANGED <<isCanceled, cancellationToken, cachedCanceled, tok, tokenVars, resetPc,
                   resetFails, resets>>

Set ==
    /\ sets' = sets + 1
    /\ IF isCanceled \/ waits = << >>
       THEN signals' = signals + 1 /\ UNCHANGED <<waits, pc, released>>
       ELSE /\ waits' = Tail(waits)
            /\ IF Head(waits) = Canceled
               THEN UNCHANGED <<pc, released>>
               ELSE Goto(Head(waits), "completed") /\ released' = released + 1
            /\ UNCHANGED signals
    /\ UNCHANGED <<isCanceled, cancellationToken, cachedCanceled, tok, tokenVars, resetPc,
                   resetFails, resets>>

-----------------------------------------------------------------------------
(* Reset(): three assignments, a check under the lock, signals = 0 outside it. *)
(* The exception of the check is thrown last: the fields are cleared anyway.   *)

ResetCached ==
    /\ resetPc = "idle"
    /\ resets' = resets + 1
    /\ cachedCanceled' = FALSE /\ resetPc' = "token"
    /\ UNCHANGED <<waits, signals, isCanceled, cancellationToken, pc, tok, tokenVars,
                   resetFails, sets, released>>
ResetToken ==
    /\ resetPc = "token"
    /\ cancellationToken' = NoToken /\ resetPc' = "flag"
    /\ UNCHANGED <<waits, signals, isCanceled, cachedCanceled, pc, tok, tokenVars, counters>>
ResetFlag ==
    /\ resetPc = "flag"
    /\ isCanceled' = FALSE /\ resetPc' = "lock"
    /\ UNCHANGED <<waits, signals, cancellationToken, cachedCanceled, pc, tok, tokenVars, counters>>
ResetCheck ==
    /\ resetPc = "lock"
    /\ resetPc' = "signals"
    /\ resetFails' = (waits # << >> \/ signals > 0)
    /\ UNCHANGED <<fields, pc, tok, tokenVars, resets, sets, released>>
ResetSignals ==
    /\ resetPc = "signals"
    /\ signals' = 0 /\ resetPc' = "idle"
    /\ UNCHANGED <<waits, isCanceled, cancellationToken, cachedCanceled, pc, tok, tokenVars, counters>>

-----------------------------------------------------------------------------

Next ==
    \/ \E t \in Waiters : \/ \E k \in Tokens \cup {NoToken} :
                                Len(waits) < MaxWaits /\ WaitAsync(t, k)
                         \/ CheckToken(t) \/ StoreToken(t) \/ RegisterToken(t)
                         \/ VerifyToken(t) \/ EnterWait(t) \/ Resume(t)
    \/ \E k \in Tokens : CancelToken(k)
    \/ RunCallback
    \/ sets < MaxSets /\ Set
    \/ resets < MaxResets /\ ResetCached
    \/ ResetToken \/ ResetFlag \/ ResetCheck \/ ResetSignals

Spec == Init /\ [][Next]_vars

-----------------------------------------------------------------------------
(* Properties *)

\* Every variable has the type its field has in the class.
TypeOK ==
    /\ waits \in Seq(Waiters \cup {Canceled})
    /\ signals \in Nat
    /\ isCanceled \in BOOLEAN /\ cachedCanceled \in BOOLEAN
    /\ cancellationToken \in Tokens \cup {NoToken, Torn}
    /\ pc \in [Waiters -> WaiterStates]
    /\ tok \in [Waiters -> Tokens \cup {NoToken}]
    /\ registered \in [Tokens -> Nat]
    /\ fired \subseteq Tokens /\ callbacks \in Nat
    /\ resetPc \in ResetStates /\ resetFails \in BOOLEAN /\ resets \in Nat
    /\ sets \in Nat /\ released \in Nat

\* No awaiter is forgotten and none is queued twice: a caller of WaitAsync waits on
\* an unfinished task exactly when one queued TaskCompletionSource is its own,
\* whatever Set, Reset and the cancellation callbacks did meanwhile.
PendingIsQueued ==
    /\ \A t \in Waiters : pc[t] = "pending" <=> \E i \in 1..Len(waits) : waits[i] = t
    /\ \A i, j \in 1..Len(waits) : waits[i] = waits[j] /\ waits[i] # Canceled => i = j

\* As long as the event was not reset, each call of Set is either still banked or
\* has reached exactly one waiter: a queued source that was canceled never
\* swallows a signal.
SignalsAccounted == resets = 0 => sets = signals + released

\* No missed wake-up: while the event is neither canceled nor reset, nobody waits
\* in the queue as long as a signal is banked.
NoMissedWakeup == resets = 0 /\ ~isCanceled => signals = 0 \/ waits = << >>
=============================================================================

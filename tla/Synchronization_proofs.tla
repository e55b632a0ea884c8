----------------------- MODULE Synchronization_proofs -----------------------
(***************************************************************************)
(* Proofs about the two awaitable classes of Izhg.Lib.Threading:             *)
(*   AsyncAutoResetEvent, for any number of waiters, tokens and calls;       *)
(*   AsyncAutoResetCounter under ServerBase, for any set of clients: the     *)
(*   dictionaries hold what the task `remove' looks for, their keys belong   *)
(*   to clients, and the counter is the number of clients counted in and     *)
(*   not yet out.                                                            *)
(***************************************************************************)
EXTENDS AsyncAutoResetEvent, ServerBase, SequenceTheorems, FiniteSetTheorems, TLAPS

-----------------------------------------------------------------------------
(* AsyncAutoResetEvent *)

Entry == Waiters \cup {Canceled}

\* What Set does to a queue that is not empty.
LEMMA DequeueFacts ==
    ASSUME TypeOK, waits # << >>
    PROVE  /\ Len(waits) \in Nat \ {0}
           /\ Head(waits) = waits[1] /\ waits[1] \in Entry
           /\ Tail(waits) \in Seq(Entry) /\ Len(Tail(waits)) = Len(waits) - 1
           /\ \A i \in 1..Len(Tail(waits)) : Tail(waits)[i] = waits[i + 1]
<1>1. waits \in Seq(Entry)
  BY DEF TypeOK, Entry
<1>2. Len(waits) \in Nat \ {0}
  BY <1>1, EmptySeq
<1>3. Tail(waits) \in Seq(Entry) /\ Len(Tail(waits)) = Len(waits) - 1
      /\ \A i \in 1..Len(Tail(waits)) : Tail(waits)[i] = waits[i + 1]
  BY <1>1, HeadTailProperties
<1>4. Head(waits) = waits[1] /\ waits[1] \in Entry
  BY <1>1, <1>2
<1> QED
  BY <1>2, <1>3, <1>4

\* What WaitAsync does to the queue when no signal is banked.
LEMMA EnqueueFacts ==
    ASSUME TypeOK, NEW t \in Waiters
    PROVE  /\ Len(waits) \in Nat
           /\ Append(waits, t) \in Seq(Entry) /\ Len(Append(waits, t)) = Len(waits) + 1
           /\ \A i \in 1..Len(waits) : Append(waits, t)[i] = waits[i]
           /\ Append(waits, t)[Len(waits) + 1] = t
<1>1. waits \in Seq(Entry) /\ t \in Entry
  BY DEF TypeOK, Entry
<1>2. Len(waits) \in Nat
  BY <1>1
<1> QED
  BY <1>1, <1>2, AppendProperties

\* What the cancellation callback does to the queue and to the awaiters.
LEMMA CancelFacts ==
    ASSUME TypeOK, CancelAll
    PROVE  /\ waits' \in Seq(Entry) /\ Len(waits') = Len(waits) /\ Len(waits) \in Nat
           /\ \A i \in 1..Len(waits) : waits'[i] = IF Reached(i) THEN Canceled ELSE waits[i]
           /\ isCanceled' = TRUE /\ cachedCanceled' = TRUE
           /\ CanceledPc \in [Waiters -> WaiterStates]
           /\ \A w \in Waiters : CanceledPc[w] =
                IF \E i \in 1..Len(waits) : waits[i] = w /\ Reached(i) THEN "canceled" ELSE pc[w]
<1>1. waits \in Seq(Entry) /\ Len(waits) \in Nat
  BY DEF TypeOK, Entry
<1>2. waits' = [i \in 1..Len(waits) |-> IF Reached(i) THEN Canceled ELSE waits[i]]
  BY DEF CancelAll
<1>3. \A i \in 1..Len(waits) : (IF Reached(i) THEN Canceled ELSE waits[i]) \in Entry
  BY <1>1 DEF Entry
<1>4. waits' \in Seq(Entry) /\ Len(waits') = Len(waits)
  BY <1>1, <1>2, <1>3
<1>5. CanceledPc \in [Waiters -> WaiterStates]
  BY DEF CanceledPc, TypeOK, WaiterStates, Outcomes
<1> QED
  BY <1>1, <1>2, <1>4, <1>5 DEF CancelAll, CanceledPc

\* The fields and the program counters keep their types in every behaviour of the
\* event: no interleaving of WaitAsync, Set, Reset and the callbacks leaves one of
\* them undefined.
LEMMA TypeStep == TypeOK /\ [Next]_vars => TypeOK'
<1> SUFFICES ASSUME TypeOK, [Next]_vars PROVE TypeOK'
  OBVIOUS
<1> USE DEF fields, tokenVars, counters
<1> DEFINE Bools == isCanceled \in BOOLEAN /\ cachedCanceled \in BOOLEAN /\ resetFails \in BOOLEAN
           Pcs == pc \in [Waiters -> WaiterStates]
           Toks == /\ cancellationToken \in Tokens \cup {NoToken, Torn}
                   /\ tok \in [Waiters -> Tokens \cup {NoToken}]
           Queue == waits \in Seq(Waiters \cup {Canceled})
           Numbers == /\ signals \in Nat /\ fired \subseteq Tokens /\ callbacks \in Nat
                      /\ resetPc \in ResetStates /\ resets \in Nat
                      /\ sets \in Nat /\ released \in Nat
           Registry == registered \in [Tokens -> Nat]
<1>0. Bools /\ Pcs /\ Toks /\ Queue /\ Numbers /\ Registry
  BY DEF TypeOK
<1>p. ASSUME NEW t \in Waiters, NEW s \in WaiterStates, Goto(t, s) PROVE Pcs'
  BY <1>0, <1>p DEF Goto
<1>q. (Bools' /\ Pcs' /\ Toks' /\ Queue' /\ Numbers' /\ Registry') => TypeOK'
  BY DEF TypeOK
<1>1. ASSUME NEW t \in Waiters, NEW k \in Tokens \cup {NoToken}, WaitAsync(t, k)
      PROVE  TypeOK'
  <2>1. Pcs' /\ Toks'
    BY <1>0, <1>1, <1>p DEF WaitAsync, WaiterStates
  <2> QED
    BY <1>0, <1>1, <1>q, <2>1 DEF WaitAsync
<1>2. ASSUME NEW t \in Waiters, CheckToken(t) PROVE TypeOK'
  <2>1. Pcs' /\ Toks'
    BY <1>0, <1>2, <1>p DEF CheckToken, WaiterStates
  <2> QED
    BY <1>0, <1>2, <1>q, <2>1 DEF CheckToken
<1>3. ASSUME NEW t \in Waiters, StoreToken(t) PROVE TypeOK'
  <2>1. Pcs' /\ Toks'
    BY <1>0, <1>3, <1>p DEF StoreToken, WaiterStates
  <2> QED
    BY <1>0, <1>3, <1>q, <2>1 DEF StoreToken
<1>4. ASSUME NEW t \in Waiters, RegisterToken(t) PROVE TypeOK'
  <2>1. Registry'
    <3>1. registered' = [registered EXCEPT ![tok[t]] = registered[tok[t]] + 1]
      BY <1>4 DEF RegisterToken
    <3>2. tok[t] \in Tokens => registered[tok[t]] + 1 \in Nat
      BY <1>0
    <3> QED
      BY <1>0, <3>1, <3>2, Zenon
  <2>2. CASE tok[t] \in fired
    <3>1. CancelAll
      BY <1>4, <2>2 DEF RegisterToken
    <3>2. Bools' /\ Queue'
      BY <1>0, <1>4, <3>1, CancelFacts DEF RegisterToken, Entry
    <3>3. Pcs'
      BY <1>4, <2>2, <3>1, CancelFacts DEF RegisterToken, WaiterStates, Outcomes
    <3> QED
      BY <1>0, <1>4, <1>q, <2>1, <3>2, <3>3 DEF RegisterToken
  <2>3. CASE tok[t] \notin fired
    <3>1. Goto(t, "verify") /\ UNCHANGED <<waits, isCanceled, cachedCanceled>>
      BY <1>4, <2>3 DEF RegisterToken
    <3>2. Pcs'
      BY <1>p, <3>1 DEF WaiterStates
    <3> QED
      BY <1>0, <1>4, <1>q, <2>1, <3>1, <3>2 DEF RegisterToken
  <2> QED
    BY <2>2, <2>3
<1>5. ASSUME NEW t \in Waiters, VerifyToken(t) PROVE TypeOK'
  <2>1. Pcs'
    BY <1>5, <1>p DEF VerifyToken, WaiterStates, Outcomes
  <2> QED
    BY <1>0, <1>5, <1>q, <2>1 DEF VerifyToken
<1>6. ASSUME NEW t \in Waiters, EnterWait(t) PROVE TypeOK'
  <2>1. Pcs'
    BY <1>6, <1>p DEF EnterWait, WaiterStates, Outcomes
  <2>2. Queue'
    <3>1. Append(waits, t) \in Seq(Waiters \cup {Canceled})
      BY EnqueueFacts DEF Entry
    <3> QED
      BY <1>0, <1>6, <3>1 DEF EnterWait
  <2>3. Numbers'
    BY <1>0, <1>6 DEF EnterWait
  <2> QED
    BY <1>0, <1>6, <1>q, <2>1, <2>2, <2>3 DEF EnterWait
<1>7. ASSUME NEW t \in Waiters, Resume(t) PROVE TypeOK'
  <2>1. Pcs'
    BY <1>7, <1>p DEF Resume, WaiterStates
  <2> QED
    BY <1>0, <1>7, <1>q, <2>1 DEF Resume
<1>8. ASSUME NEW k \in Tokens, CancelToken(k) PROVE TypeOK'
  <2>1. Numbers'
    BY <1>0, <1>8 DEF CancelToken
  <2> QED
    BY <1>0, <1>8, <1>q, <2>1 DEF CancelToken
<1>9. CASE RunCallback
  <2>1. CancelAll
    BY <1>9 DEF RunCallback
  <2>2. Bools' /\ Queue' /\ Pcs' /\ Numbers'
    BY <1>0, <1>9, <2>1, CancelFacts DEF RunCallback, Entry
  <2> QED
    BY <1>0, <1>9, <1>q, <2>2 DEF RunCallback
<1>10. CASE Set
  <2>1. Numbers'
    BY <1>0, <1>10 DEF Set
  <2>2. Queue' /\ Pcs'
    <3>1. CASE isCanceled \/ waits = << >>
      BY <1>0, <1>10, <3>1 DEF Set
    <3>2. CASE ~isCanceled /\ waits # << >>
      <4>1. waits' = Tail(waits)
        BY <1>10, <3>2 DEF Set
      <4>2. pc' = pc \/ (Head(waits) # Canceled /\ Goto(Head(waits), "completed"))
        BY <1>10, <3>2, Zenon DEF Set
      <4>3. Head(waits) # Canceled => Head(waits) \in Waiters
        BY <3>2, DequeueFacts DEF Entry
      <4>4. Pcs'
        BY <1>0, <1>p, <4>2, <4>3 DEF WaiterStates, Outcomes
      <4> QED
        BY <3>2, <4>1, <4>4, DequeueFacts DEF Entry
    <3> QED
      BY <3>1, <3>2
  <2> QED
    BY <1>0, <1>10, <1>q, <2>1, <2>2 DEF Set
<1>11. CASE ResetCached \/ ResetFlag \/ ResetCheck
  <2>1. Bools'
    BY <1>0, <1>11, Zenon DEF ResetCached, ResetFlag, ResetCheck
  <2>2. Numbers'
    BY <1>0, <1>11 DEF ResetCached, ResetFlag, ResetCheck, ResetStates
  <2> QED
    BY <1>0, <1>11, <1>q, <2>1, <2>2 DEF ResetCached, ResetFlag, ResetCheck
<1>12. CASE ResetToken \/ ResetSignals
  <2>1. Numbers' /\ Toks'
    BY <1>0, <1>12 DEF ResetToken, ResetSignals, ResetStates
  <2> QED
    BY <1>0, <1>12, <1>q, <2>1 DEF ResetToken, ResetSignals
<1>13. CASE UNCHANGED vars
  BY <1>0, <1>13, <1>q DEF vars
<1> QED
  BY <1>1, <1>2, <1>3, <1>4, <1>5, <1>6, <1>7, <1>8, <1>9, <1>10, <1>11, <1>12, <1>13 DEF Next

\* A new event has its types.
LEMMA TypeInit == Init => TypeOK
<1> SUFFICES ASSUME Init PROVE TypeOK
  OBVIOUS
<1>1. waits \in Seq(Waiters \cup {Canceled})
  BY DEF Init
<1>2. isCanceled \in BOOLEAN /\ cachedCanceled \in BOOLEAN /\ resetFails \in BOOLEAN
  BY DEF Init
<1>3. pc \in [Waiters -> WaiterStates] /\ tok \in [Waiters -> Tokens \cup {NoToken}]
  BY DEF Init, WaiterStates
<1>4. registered \in [Tokens -> Nat] /\ fired \subseteq Tokens
  BY DEF Init
<1> QED
  BY <1>1, <1>2, <1>3, <1>4 DEF Init, TypeOK, ResetStates

THEOREM TypeCorrect == Spec => []TypeOK
  BY TypeInit, TypeStep, PTL DEF Spec

-----------------------------------------------------------------------------
\* A waiter is pending exactly when one queued source is its own.  The step lemma
\* follows the three things that happen to the queue: append, dequeue, cancel.

\* Queueing a wait keeps every pending wait in the queue once.
LEMMA AppendKeepsPending ==
    ASSUME TypeOK, PendingIsQueued, NEW t \in Waiters, pc[t] = "enter",
           waits' = Append(waits, t), pc' = [pc EXCEPT ![t] = "pending"]
    PROVE  PendingIsQueued'
<1>1. /\ Len(waits) \in Nat /\ Len(waits') = Len(waits) + 1
      /\ \A i \in 1..Len(waits) : waits'[i] = waits[i]
      /\ waits'[Len(waits) + 1] = t
  BY EnqueueFacts
<1>2. \A i \in 1..Len(waits) : waits[i] # t
  BY DEF PendingIsQueued
<1>3. \A w \in Waiters : pc'[w] = IF w = t THEN "pending" ELSE pc[w]
  BY DEF TypeOK
<1>4. \A w \in Waiters : pc'[w] = "pending" <=> \E i \in 1..Len(waits') : waits'[i] = w
  BY <1>1, <1>3 DEF PendingIsQueued
<1>5. \A i, j \in 1..Len(waits') : waits'[i] = waits'[j] /\ waits'[i] # Canceled => i = j
  BY <1>1, <1>2 DEF PendingIsQueued
<1> QED
  BY <1>4, <1>5 DEF PendingIsQueued

\* Completing the first source of the queue does.
LEMMA DequeueKeepsPending ==
    ASSUME TypeOK, PendingIsQueued, waits # << >>, waits' = Tail(waits),
           IF Head(waits) = Canceled THEN pc' = pc
                                     ELSE pc' = [pc EXCEPT ![Head(waits)] = "completed"]
    PROVE  PendingIsQueued'
<1>1. /\ Len(waits) \in Nat \ {0} /\ Head(waits) = waits[1] /\ waits[1] \in Entry
      /\ Len(waits') = Len(waits) - 1
      /\ \A i \in 1..Len(waits') : waits'[i] = waits[i + 1]
  BY DequeueFacts
<1>2. \A w \in Waiters : pc'[w] = IF w = waits[1] THEN "completed" ELSE pc[w]
  BY <1>1, WaiterAssumption DEF TypeOK, Entry
<1>3. \A i, j \in 1..Len(waits') : waits'[i] = waits'[j] /\ waits'[i] # Canceled => i = j
  BY <1>1 DEF PendingIsQueued
<1>4. ASSUME NEW w \in Waiters PROVE pc'[w] = "pending" <=> \E i \in 1..Len(waits') : waits'[i] = w
  <2>1. CASE w = waits[1]
    <3>1. \A i \in 1..Len(waits') : i + 1 \in 1..Len(waits) /\ i + 1 # 1 /\ 1 \in 1..Len(waits)
      BY <1>1
    <3>2. \A i \in 1..Len(waits') : waits'[i] # w
      BY <1>1, <2>1, <3>1, WaiterAssumption DEF PendingIsQueued
    <3> QED
      BY <1>2, <2>1, <3>2
  <2>2. CASE w # waits[1]
    <3>1. (\E i \in 1..Len(waits) : waits[i] = w) <=> (\E i \in 1..Len(waits') : waits'[i] = w)
      <4>1. ASSUME NEW i \in 1..Len(waits), waits[i] = w
            PROVE  \E j \in 1..Len(waits') : waits'[j] = w
        <5>1. i - 1 \in 1..Len(waits') /\ waits'[i - 1] = w
          BY <1>1, <2>2, <4>1
        <5> QED
          BY <5>1
      <4>2. ASSUME NEW i \in 1..Len(waits'), waits'[i] = w
            PROVE  \E j \in 1..Len(waits) : waits[j] = w
        <5>1. i + 1 \in 1..Len(waits) /\ waits[i + 1] = w
          BY <1>1, <4>2
        <5> QED
          BY <5>1
      <4> QED
        BY <4>1, <4>2
    <3> QED
      BY <1>2, <2>2, <3>1 DEF PendingIsQueued
  <2> QED
    BY <2>1, <2>2
<1> QED
  BY <1>3, <1>4 DEF PendingIsQueued

\* Canceling the sources of the queue does.
LEMMA CancelKeepsPending ==
    ASSUME TypeOK, PendingIsQueued, CancelAll,
           \A w \in Waiters : pc'[w] = CanceledPc[w]
                               \/ (pc[w] \notin {"pending"} /\ pc'[w] # "pending")
    PROVE  PendingIsQueued'
<1>1. /\ Len(waits') = Len(waits) /\ Len(waits) \in Nat
      /\ \A i \in 1..Len(waits) : waits'[i] = IF Reached(i) THEN Canceled ELSE waits[i]
      /\ \A w \in Waiters : CanceledPc[w] =
           IF \E i \in 1..Len(waits) : waits[i] = w /\ Reached(i) THEN "canceled" ELSE pc[w]
  BY CancelFacts
<1>2. \A i, j \in 1..Len(waits') : waits'[i] = waits'[j] /\ waits'[i] # Canceled => i = j
  BY <1>1 DEF PendingIsQueued
<1>3. ASSUME NEW w \in Waiters PROVE pc'[w] = "pending" <=> \E i \in 1..Len(waits') : waits'[i] = w
  <2>1. CASE \E i \in 1..Len(waits) : waits[i] = w /\ Reached(i)
    <3>1. pc'[w] # "pending"
      BY <1>1, <2>1
    <3>2. PICK i \in 1..Len(waits) : waits[i] = w /\ Reached(i)
      BY <2>1
    <3>3. \A j \in 1..Len(waits') : waits'[j] # w
      BY <1>1, <3>2, WaiterAssumption DEF PendingIsQueued
    <3> QED
      BY <3>1, <3>3
  <2>2. CASE ~\E i \in 1..Len(waits) : waits[i] = w /\ Reached(i)
    <3>1. pc'[w] = "pending" <=> pc[w] = "pending"
      BY <1>1, <2>2
    <3>2. (\E i \in 1..Len(waits') : waits'[i] = w) <=> \E i \in 1..Len(waits) : waits[i] = w
      BY <1>1, <2>2, WaiterAssumption
    <3> QED
      BY <3>1, <3>2 DEF PendingIsQueued
  <2> QED
    BY <2>1, <2>2
<1> QED
  BY <1>2, <1>3 DEF PendingIsQueued

\* So does what leaves the queue and the tasks alone.
LEMMA OthersKeepPending ==
    ASSUME TypeOK, PendingIsQueued, UNCHANGED waits,
           \A w \in Waiters : pc'[w] = "pending" <=> pc[w] = "pending"
    PROVE  PendingIsQueued'
  BY DEF PendingIsQueued

\* Every step of the event keeps pending waits in the queue.
LEMMA PendingStep == TypeOK /\ PendingIsQueued /\ [Next]_vars => PendingIsQueued'
<1> SUFFICES ASSUME TypeOK, PendingIsQueued, [Next]_vars PROVE PendingIsQueued'
  OBVIOUS
<1> USE DEF fields, tokenVars, counters
<1>p. ASSUME NEW t \in Waiters, NEW s, Goto(t, s), s # "pending", pc[t] # "pending", UNCHANGED waits
      PROVE  PendingIsQueued'
  <2>1. \A w \in Waiters : pc'[w] = IF w = t THEN s ELSE pc[w]
    BY <1>p DEF Goto, TypeOK
  <2> QED
    BY <1>p, <2>1, OthersKeepPending
<1>1. ASSUME NEW t \in Waiters, NEW k \in Tokens \cup {NoToken}, WaitAsync(t, k)
      PROVE  PendingIsQueued'
  BY <1>1, <1>p DEF WaitAsync
<1>2. ASSUME NEW t \in Waiters, CheckToken(t) \/ StoreToken(t) \/ VerifyToken(t) PROVE PendingIsQueued'
  BY <1>2, <1>p DEF CheckToken, StoreToken, VerifyToken
<1>4. ASSUME NEW t \in Waiters, RegisterToken(t) PROVE PendingIsQueued'
  <2>1. CASE tok[t] \in fired
    <3>1. CancelAll /\ pc[t] = "register"
          /\ pc' = [CanceledPc EXCEPT ![t] = IF CallbackThrows THEN "thrown" ELSE "verify"]
      BY <1>4, <2>1 DEF RegisterToken
    <3>2. CanceledPc \in [Waiters -> WaiterStates]
      BY <3>1, CancelFacts
    <3>3. \A w \in Waiters : pc'[w] = CanceledPc[w] \/ (pc[w] \notin {"pending"} /\ pc'[w] # "pending")
      BY <3>1, <3>2
    <3> QED
      BY <3>1, <3>3, CancelKeepsPending
  <2>2. CASE tok[t] \notin fired
    BY <1>4, <1>p, <2>2 DEF RegisterToken
  <2> QED
    BY <2>1, <2>2
<1>6. ASSUME NEW t \in Waiters, EnterWait(t) PROVE PendingIsQueued'
  <2>1. CASE signals > 0
    BY <1>6, <1>p, <2>1 DEF EnterWait
  <2>2. CASE ~(signals > 0)
    BY <1>6, <2>2, AppendKeepsPending DEF EnterWait, Goto
  <2> QED
    BY <2>1, <2>2
<1>7. ASSUME NEW t \in Waiters, Resume(t) PROVE PendingIsQueued'
  BY <1>7, <1>p DEF Resume, Outcomes
<1>8. ASSUME NEW k \in Tokens, CancelToken(k) PROVE PendingIsQueued'
  BY <1>8, OthersKeepPending DEF CancelToken
<1>9. CASE RunCallback
  BY <1>9, CancelKeepsPending DEF RunCallback
<1>10. CASE Set
  <2>1. CASE isCanceled \/ waits = << >>
    BY <1>10, <2>1, OthersKeepPending DEF Set
  <2>2. CASE ~(isCanceled \/ waits = << >>)
    <3>1. waits # << >> /\ waits' = Tail(waits)
      BY <1>10, <2>2, Zenon DEF Set
    <3>2. IF Head(waits) = Canceled THEN pc' = pc
                                    ELSE pc' = [pc EXCEPT ![Head(waits)] = "completed"]
      BY <1>10, <2>2, Zenon DEF Set, Goto
    <3> QED
      BY <3>1, <3>2, DequeueKeepsPending
  <2> QED
    BY <2>1, <2>2
<1>11. CASE ResetCached \/ ResetToken \/ ResetFlag \/ ResetCheck \/ ResetSignals
  BY <1>11, OthersKeepPending DEF ResetCached, ResetToken, ResetFlag, ResetCheck, ResetSignals
<1>13. CASE UNCHANGED vars
  BY <1>13, OthersKeepPending DEF vars
<1> QED
  BY <1>1, <1>2, <1>4, <1>6, <1>7, <1>8, <1>9, <1>10, <1>11, <1>13 DEF Next

\* For any number of waiters, tokens and calls: no awaiter is forgotten and none is
\* queued twice, even across cancellations and resets that race with it.
THEOREM PendingIsQueuedHolds == Spec => []PendingIsQueued
<1>1. Init => PendingIsQueued
  BY DEF Init, PendingIsQueued
<1> QED
  BY <1>1, TypeInit, TypeStep, PendingStep, PTL DEF Spec

-----------------------------------------------------------------------------
\* Before the first reset canceled sources are in the queue only while isCanceled
\* keeps Set away from the queue: this is why no signal is swallowed.
Unreset == resets = 0 => resetPc = "idle"
CanceledEntries == resets = 0 /\ ~isCanceled => \A i \in 1..Len(waits) : waits[i] # Canceled
SignalInv == Unreset /\ CanceledEntries /\ SignalsAccounted /\ NoMissedWakeup

\* Every step of the event accounts for the signals.
LEMMA SignalStep == TypeOK /\ SignalInv /\ [Next]_vars => SignalInv'
<1> SUFFICES ASSUME TypeOK, SignalInv, [Next]_vars PROVE SignalInv'
  OBVIOUS
<1> USE DEF fields, tokenVars, counters, SignalInv
<1>0. /\ signals \in Nat /\ resets \in Nat /\ sets \in Nat /\ released \in Nat
      /\ isCanceled \in BOOLEAN
  BY DEF TypeOK
<1>q. ASSUME UNCHANGED <<waits, signals, isCanceled, resetPc, resets, sets, released>> PROVE SignalInv'
  BY <1>q DEF Unreset, CanceledEntries, SignalsAccounted, NoMissedWakeup
<1>c. ASSUME CancelAll, UNCHANGED <<signals, resetPc, resets, sets, released>> PROVE SignalInv'
  <2>1. isCanceled' = TRUE
    BY <1>c DEF CancelAll
  <2> QED
    BY <1>c, <2>1 DEF Unreset, CanceledEntries, SignalsAccounted, NoMissedWakeup
<1>1. ASSUME NEW t \in Waiters, NEW k \in Tokens \cup {NoToken}, WaitAsync(t, k)
      PROVE  SignalInv'
  BY <1>1, <1>q DEF WaitAsync
<1>2. ASSUME NEW t \in Waiters, CheckToken(t) \/ StoreToken(t) \/ VerifyToken(t) \/ Resume(t)
      PROVE  SignalInv'
  BY <1>2, <1>q DEF CheckToken, StoreToken, VerifyToken, Resume
<1>4. ASSUME NEW t \in Waiters, RegisterToken(t) PROVE SignalInv'
  BY <1>4, <1>q, <1>c DEF RegisterToken
<1>6. ASSUME NEW t \in Waiters, EnterWait(t) PROVE SignalInv'
  <2>1. CASE signals > 0
    <3>1. /\ signals' = signals - 1 /\ released' = released + 1
          /\ UNCHANGED <<waits, isCanceled, resetPc, resets, sets>>
      BY <1>6, <2>1 DEF EnterWait
    <3> QED
      BY <1>0, <2>1, <3>1 DEF Unreset, CanceledEntries, SignalsAccounted, NoMissedWakeup
  <2>2. CASE ~(signals > 0)
    <3>1. waits' = Append(waits, t) /\ UNCHANGED <<signals, released, isCanceled, resetPc, resets, sets>>
      BY <1>6, <2>2 DEF EnterWait
    <3>2. /\ Len(waits) \in Nat /\ Len(waits') = Len(waits) + 1
          /\ \A i \in 1..Len(waits) : waits'[i] = waits[i]
          /\ waits'[Len(waits) + 1] = t
      BY <3>1, EnqueueFacts
    <3>3. CanceledEntries'
      BY <3>1, <3>2, WaiterAssumption DEF CanceledEntries
    <3>4. signals' = 0
      BY <1>0, <2>2, <3>1
    <3> QED
      BY <3>1, <3>3, <3>4 DEF Unreset, SignalsAccounted, NoMissedWakeup
  <2> QED
    BY <2>1, <2>2
<1>8. ASSUME NEW k \in Tokens, CancelToken(k) PROVE SignalInv'
  BY <1>8, <1>q DEF CancelToken
<1>9. CASE RunCallback
  BY <1>9, <1>c DEF RunCallback
<1>10. CASE Set
  <2>1. CASE isCanceled \/ waits = << >>
    <3>1. /\ sets' = sets + 1 /\ signals' = signals + 1
          /\ UNCHANGED <<waits, released, isCanceled, resetPc, resets>>
      BY <1>10, <2>1 DEF Set
    <3> QED
      BY <1>0, <2>1, <3>1 DEF Unreset, CanceledEntries, SignalsAccounted, NoMissedWakeup
  <2>2. CASE ~(isCanceled \/ waits = << >>)
    <3>1. /\ waits # << >> /\ waits' = Tail(waits) /\ signals' = signals /\ sets' = sets + 1
          /\ UNCHANGED <<isCanceled, resetPc, resets>>
      BY <1>10, <2>2, Zenon DEF Set
    <3>2. Head(waits) # Canceled => released' = released + 1
      BY <1>10, <2>2, Zenon DEF Set
    <3>3. /\ Len(waits) \in Nat \ {0} /\ Head(waits) = waits[1]
          /\ Len(waits') = Len(waits) - 1
          /\ \A i \in 1..Len(waits') : waits'[i] = waits[i + 1]
      BY <3>1, DequeueFacts
    <3>4. resets = 0 => Head(waits) # Canceled
      BY <2>2, <3>3 DEF CanceledEntries
    <3>5. CanceledEntries'
      BY <2>2, <3>1, <3>3 DEF CanceledEntries
    <3>6. SignalsAccounted'
      BY <1>0, <3>1, <3>2, <3>4 DEF SignalsAccounted
    <3>7. NoMissedWakeup' /\ Unreset'
      BY <2>2, <3>1 DEF NoMissedWakeup, Unreset
    <3> QED
      BY <3>5, <3>6, <3>7
  <2> QED
    BY <2>1, <2>2
<1>11. CASE ResetCached \/ ResetToken \/ ResetFlag \/ ResetCheck \/ ResetSignals
  <2>1. resets' # 0
    BY <1>0, <1>11 DEF ResetCached, ResetToken, ResetFlag, ResetCheck, ResetSignals, Unreset
  <2> QED
    BY <2>1 DEF Unreset, CanceledEntries, SignalsAccounted, NoMissedWakeup
<1>13. CASE UNCHANGED vars
  BY <1>13, <1>q DEF vars
<1> QED
  BY <1>1, <1>2, <1>4, <1>6, <1>8, <1>9, <1>10, <1>11, <1>13 DEF Next

\* A new event has no signals.
LEMMA SignalInit == Init => SignalInv
  BY DEF Init, SignalInv, Unreset, CanceledEntries, SignalsAccounted, NoMissedWakeup

\* Until the event is reset, no call of Set is lost, whatever is canceled meanwhile.
THEOREM SignalsAccountedHolds == Spec => []SignalsAccounted
  BY SignalInit, SignalStep, TypeInit, TypeStep, PTL DEF Spec, SignalInv

\* Until the event is canceled or reset, no waiter is queued while a signal is banked.
THEOREM NoMissedWakeupHolds == Spec => []NoMissedWakeup
  BY SignalInit, SignalStep, TypeInit, TypeStep, PTL DEF Spec, SignalInv

-----------------------------------------------------------------------------
(* ServerBase *)

\* The stages of a connection before it has a key, while its client is in `clients', and
\* while its task is in `tasks'.
NoKeyYet == {"outside", "accepted", "increment", "register"}
Listed == {"starting", "handling", "removeClient"}
Running == {"handling", "removeClient", "removeTask"}

DictTypeOK ==
    /\ lastKey \in Nat /\ Key \in [Clients -> Nat] /\ key \in [Connections -> Nat]
    /\ clients \subseteq Nat \X Clients /\ tasks \subseteq Nat
    /\ taskPc \in [Connections -> ClientStates]
    /\ client \in [Connections -> Clients \cup {NoClient}]
    /\ robbed \subseteq Connections

\* The pool holds clients that were created and are disposed, and a connection that has been
\* accepted has a client.
PoolInv ==
    /\ made \subseteq Clients /\ pool \subseteq made \ alive /\ alive \subseteq made
    /\ \A c \in Connections : taskPc[c] # "outside" => client[c] \in Clients
    /\ ClientExclusive

\* Keys are drawn once, in increasing order.
KeysDrawn ==
    /\ \A c \in Connections : key[c] <= lastKey
    /\ \A c \in Connections : taskPc[c] \in NoKeyYet => key[c] = 0
    /\ \A c \in Connections : taskPc[c] \in Listed \cup Running => key[c] # 0
    /\ \A c, d \in Connections : c # d /\ key[c] # 0 => key[c] # key[d]

\* What each stage of a connection has left in the dictionaries.
EntriesAt ==
    /\ \A k \in Nat, o \in Clients : <<k, o>> \in clients => 0 < k /\ k <= lastKey
    /\ \A k \in tasks : k <= lastKey
    /\ \A c \in Connections : taskPc[c] \in Listed => <<key[c], client[c]>> \in clients
    /\ \A c \in Connections : taskPc[c] \in Running => key[c] \in tasks
    /\ \A c \in Connections, o \in Clients :
          taskPc[c] \in Listed /\ <<key[c], o>> \in clients => o = client[c]

\* The field Key of a listed client: only a disposal that is still under way changes it.
KeyAt ==
    \A c \in Connections : taskPc[c] \in Listed =>
        Key[client[c]] = key[c] \/ (Key[client[c]] = 0 /\ c \in robbed)

\* The inductive invariant: that a removal does not take the entry of another connection needs
\* that keys are drawn once and that no client serves two connections.
DictInv == DictTypeOK /\ PoolInv /\ KeysDrawn /\ EntriesAt /\ KeyAt

\* A new server has no clients.
LEMMA DictInit == ServerInit => DictInv
  <1> SUFFICES ASSUME ServerInit PROVE DictInv
    OBVIOUS
  <1>1. DictTypeOK BY DEF ServerInit, DictTypeOK, ClientStates
  <1>2. PoolInv BY DEF ServerInit, PoolInv, ClientExclusive, Owns
  <1>3. KeysDrawn BY DEF ServerInit, KeysDrawn, NoKeyYet, Listed, Running
  <1>4. EntriesAt BY DEF ServerInit, EntriesAt, Listed, Running
  <1>5. KeyAt BY DEF ServerInit, KeyAt, Listed
  <1> QED BY <1>1, <1>2, <1>3, <1>4, <1>5 DEF DictInv

\* A step of the tasks of connection c that moves it from one stage to another and leaves the
\* clients and the dictionaries alone.
Moves(c, l) ==
    /\ taskPc' = [taskPc EXCEPT ![c] = l]
    /\ UNCHANGED <<poolVars, dictVars, clientVars, client>>

\* A connection may move on when the stage it moves to demands no more than the one it leaves.
LEMMA MoveKeeps ==
  ASSUME DictInv, NEW c \in Connections, NEW l \in ClientStates, Moves(c, l),
         \/ taskPc[c] \in NoKeyYet \ {"outside"} /\ l \in NoKeyYet \ {"outside"}
         \/ taskPc[c] = "handling" /\ l \in {"removeClient", "thrown"}
         \/ taskPc[c] \in (NoKeyYet \cup Listed) \ {"outside"} /\ l = "faulted"
         \/ taskPc[c] = "decrement" /\ l = "gone"
  PROVE  DictInv'
  <1> USE DEF DictInv, Moves, NoKeyYet, Listed, Running, poolVars, dictVars, clientVars
  <1>1. DictTypeOK' BY DEF DictTypeOK
  <1>2. PoolInv'
    <2>1. taskPc[c] # "outside" /\ \A d \in Connections : Owns(d)' => Owns(d)
      BY DEF DictTypeOK, Owns
    <2>2. \A d \in Connections : taskPc'[d] # "outside" => taskPc[d] # "outside"
      BY <2>1 DEF DictTypeOK
    <2> QED BY <2>1, <2>2 DEF PoolInv, ClientExclusive
  <1>3. KeysDrawn' BY DEF DictTypeOK, KeysDrawn
  <1>4. EntriesAt' BY DEF DictTypeOK, EntriesAt
  <1>5. KeyAt' BY DEF DictTypeOK, KeyAt
  <1> QED BY <1>1, <1>2, <1>3, <1>4, <1>5

\* Steps that leave the tasks, the clients and the dictionaries alone.
LEMMA OthersKeep ==
  ASSUME DictInv, UNCHANGED <<poolVars, dictVars, clientVars, client, taskPc>>
  PROVE  DictInv'
  BY DEF DictInv, DictTypeOK, PoolInv, ClientExclusive, Owns, KeysDrawn, EntriesAt, KeyAt,
         poolVars, dictVars, clientVars

\* A connection gets a client that no other has.
LEMMA AcceptKeeps == ASSUME DictInv, NEW c \in Connections, Accept(c) PROVE DictInv'
  <1> USE DEF DictInv, TaskGoto, dictVars, clientVars
  <1>1. PICK o \in Clients :
            /\ Rent(o) /\ made' = made \cup {o} /\ pool' = pool \ {o}
            /\ \/ o \in alive /\ UNCHANGED <<alive, bound, client, taskPc>>
               \/ /\ o \notin alive /\ alive' = alive \cup {o}
                  /\ client' = [client EXCEPT ![c] = o]
                  /\ taskPc' = [taskPc EXCEPT ![c] = "accepted"]
    BY DEF Accept
  <1>2. o \notin alive BY <1>1 DEF Rent, PoolInv
  <1>3. taskPc[c] = "outside" /\ UNCHANGED <<lastKey, clients, tasks, key, Key, robbed>> BY DEF Accept
  <1>4. DictTypeOK' BY <1>1, <1>2, <1>3 DEF DictTypeOK, ClientStates
  <1>5. PoolInv'
    <2>1. made' \subseteq Clients /\ pool' \subseteq made' \ alive' /\ alive' \subseteq made'
      BY <1>1, <1>2 DEF PoolInv
    <2>2. \A d \in Connections : taskPc'[d] # "outside" => client'[d] \in Clients
      BY <1>1, <1>2 DEF PoolInv, DictTypeOK
    <2>3. ASSUME NEW d \in Connections, Owns(d)'
          PROVE  /\ client'[d] \in alive' \ pool'
                 /\ \A e \in Connections : Owns(e)' /\ e # d => client'[d] # client'[e]
      <3>1. \A e \in Connections \ {c} : Owns(e)' => Owns(e) /\ client'[e] = client[e] /\ client[e] \in alive
        BY <1>1, <1>2 DEF PoolInv, ClientExclusive, Owns, DictTypeOK
      <3>2. client'[c] = o BY <1>1, <1>2 DEF DictTypeOK
      <3> QED BY <1>1, <1>2, <2>3, <3>1, <3>2 DEF PoolInv, ClientExclusive
    <2> QED BY <2>1, <2>2, <2>3 DEF PoolInv, ClientExclusive
  <1>6. KeysDrawn' BY <1>1, <1>2, <1>3 DEF DictTypeOK, KeysDrawn, NoKeyYet, Listed, Running
  <1>7. EntriesAt' BY <1>1, <1>2, <1>3 DEF DictTypeOK, EntriesAt, Listed, Running
  <1>8. KeyAt' BY <1>1, <1>2, <1>3 DEF DictTypeOK, KeyAt, Listed
  <1> QED BY <1>4, <1>5, <1>6, <1>7, <1>8

\* A connection is entered under a key of its own.
LEMMA RegisterKeeps == ASSUME DictInv, NEW c \in Connections, Register(c) PROVE DictInv'
  <1> DEFINE k == lastKey + 1
  <1> USE DEF DictInv, TaskGoto, poolVars
  <1>1. \A o \in Clients : <<k, o>> \notin clients BY DEF DictTypeOK, EntriesAt
  <1>2. /\ taskPc[c] = "register" /\ taskPc' = [taskPc EXCEPT ![c] = "starting"]
        /\ lastKey' = k /\ key' = [key EXCEPT ![c] = k] /\ Key' = [Key EXCEPT ![client[c]] = k]
        /\ clients' = clients \cup {<<k, client[c]>>}
        /\ UNCHANGED <<made, pool, alive, tasks, client, robbed>>
    BY <1>1 DEF Register
  <1> HIDE DEF k
  <1>3. k \in Nat /\ k = lastKey + 1 /\ lastKey \in Nat BY DEF k, DictTypeOK
  <1>4. client[c] \in Clients /\ Owns(c) BY <1>2 DEF PoolInv, Owns
  <1>5. DictTypeOK' BY <1>2, <1>3, <1>4 DEF DictTypeOK, ClientStates
  <1>6. PoolInv' BY <1>2 DEF DictTypeOK, PoolInv, ClientExclusive, Owns
  <1>7. KeysDrawn' BY <1>2, <1>3 DEF DictTypeOK, KeysDrawn, NoKeyYet, Listed, Running
  <1>8. EntriesAt'
    <2>1. \A j \in Nat, o \in Clients : <<j, o>> \in clients' => 0 < j /\ j <= lastKey'
      BY <1>2, <1>3 DEF EntriesAt
    <2>2. \A j \in tasks' : j <= lastKey' BY <1>2, <1>3 DEF EntriesAt, DictTypeOK
    <2>3. \A d \in Connections : taskPc'[d] \in Listed => <<key'[d], client'[d]>> \in clients'
      BY <1>2 DEF EntriesAt, DictTypeOK, Listed
    <2>4. \A d \in Connections : taskPc'[d] \in Running => key'[d] \in tasks'
      BY <1>2 DEF EntriesAt, DictTypeOK, Running
    <2>5. ASSUME NEW d \in Connections, NEW o \in Clients, taskPc'[d] \in Listed,
                 <<key'[d], o>> \in clients'
          PROVE  o = client'[d]
      <3>1. CASE d = c BY <1>1, <1>2, <2>5, <3>1 DEF DictTypeOK, k
      <3>2. CASE d # c
        <4>1. key'[d] = key[d] /\ key[d] # k /\ taskPc[d] \in Listed
          BY <1>2, <1>3, <2>5, <3>2 DEF DictTypeOK, KeysDrawn
        <4> QED BY <1>2, <2>5, <4>1 DEF EntriesAt
      <3> QED BY <3>1, <3>2
    <2> QED BY <2>1, <2>2, <2>3, <2>4, <2>5 DEF EntriesAt
  <1>9. KeyAt'
    <2> SUFFICES ASSUME NEW d \in Connections, taskPc'[d] \in Listed
                 PROVE  \/ Key'[client'[d]] = key'[d] \/ (Key'[client'[d]] = 0 /\ d \in robbed')
      BY DEF KeyAt
    <2>1. CASE d = c BY <1>2, <1>4, <2>1 DEF DictTypeOK
    <2>2. CASE d # c
      <3>1. taskPc[d] \in Listed /\ Owns(d) BY <1>2, <2>2 DEF DictTypeOK, Listed, Owns
      <3>2. client[d] # client[c] BY <1>4, <2>2, <3>1 DEF PoolInv, ClientExclusive
      <3> QED BY <1>2, <2>2, <3>1, <3>2 DEF KeyAt, DictTypeOK, PoolInv, Owns
    <2> QED BY <2>1, <2>2
  <1> QED BY <1>5, <1>6, <1>7, <1>8, <1>9

\* The task of a connection starts the handler.
LEMMA HandleKeeps == ASSUME DictInv, NEW c \in Connections, HandleClient(c) PROVE DictInv'
  <1> USE DEF DictInv, TaskGoto, poolVars, clientVars
  <1>1. PICK l \in {"handling", "faulted"} : taskPc' = [taskPc EXCEPT ![c] = l]
    BY DEF HandleClient
  <1>2. /\ taskPc[c] = "starting" /\ tasks' = tasks \cup {key[c]}
        /\ UNCHANGED <<made, pool, alive, lastKey, clients, key, Key, robbed, client>>
    BY DEF HandleClient
  <1>3. DictTypeOK' BY <1>1, <1>2 DEF DictTypeOK, ClientStates
  <1>4. PoolInv' BY <1>1, <1>2 DEF DictTypeOK, PoolInv, ClientExclusive, Owns
  <1>5. KeysDrawn' BY <1>1, <1>2 DEF DictTypeOK, KeysDrawn, NoKeyYet, Listed, Running
  <1>6. EntriesAt' BY <1>1, <1>2 DEF DictTypeOK, EntriesAt, KeysDrawn, Listed, Running
  <1>7. KeyAt' BY <1>1, <1>2 DEF DictTypeOK, KeyAt, Listed
  <1> QED BY <1>3, <1>4, <1>5, <1>6, <1>7

\* A removal from `clients' takes the entry of the connection itself, or none.
LEMMA RemoveClientKeeps == ASSUME DictInv, NEW c \in Connections, RemoveClient(c) PROVE DictInv'
  <1> USE DEF DictInv, TaskGoto, poolVars, clientVars
  <1>1. /\ taskPc[c] = "removeClient"
        /\ UNCHANGED <<made, pool, alive, lastKey, tasks, key, Key, robbed>>
    BY DEF RemoveClient
  <1>2. client[c] \in Clients /\ key[c] \in Nat BY <1>1 DEF PoolInv, DictTypeOK
  <1>3. CASE taskPc' = [taskPc EXCEPT ![c] = "faulted"] /\ UNCHANGED <<clients, client>>
    <2>1. Moves(c, "faulted") BY <1>1, <1>3 DEF Moves, RemoveClient, dictVars
    <2> QED BY <1>1, <2>1, MoveKeeps DEF Listed, ClientStates
  <1>4. ASSUME NEW o \in Clients, <<Key[client[c]], o>> \in clients,
               clients' = clients \ {<<Key[client[c]], o>>}, client' = [client EXCEPT ![c] = o],
               taskPc' = [taskPc EXCEPT ![c] = "removeTask"]
        PROVE  DictInv'
    <2>1. Key[client[c]] = key[c]
      BY <1>1, <1>2, <1>4 DEF KeyAt, Listed, EntriesAt
    <2>2. o = client[c] /\ client' = client
      BY <1>1, <1>4, <2>1 DEF EntriesAt, Listed, DictTypeOK
    <2>3. DictTypeOK' BY <1>1, <1>4, <2>2 DEF DictTypeOK, ClientStates
    <2>4. PoolInv' BY <1>1, <1>4, <2>2 DEF DictTypeOK, PoolInv, ClientExclusive, Owns
    <2>5. KeysDrawn' BY <1>1, <1>4 DEF DictTypeOK, KeysDrawn, NoKeyYet, Listed, Running
    <2>6. EntriesAt'
      <3>1. ASSUME NEW d \in Connections, taskPc'[d] \in Listed
            PROVE  <<key'[d], client'[d]>> \in clients'
        <4>1. d # c /\ taskPc[d] \in Listed BY <1>1, <1>4, <3>1 DEF DictTypeOK, Listed
        <4>2. key[d] # key[c] BY <1>1, <4>1 DEF KeysDrawn, Running
        <4> QED BY <1>1, <1>4, <2>1, <2>2, <4>1, <4>2 DEF EntriesAt
      <3>2. \A d \in Connections : taskPc'[d] \in Running => key'[d] \in tasks'
        BY <1>1, <1>4 DEF EntriesAt, DictTypeOK, Running
      <3>3. \A d \in Connections, q \in Clients :
                taskPc'[d] \in Listed /\ <<key'[d], q>> \in clients' => q = client'[d]
        BY <1>1, <1>4, <2>2 DEF EntriesAt, DictTypeOK, Listed
      <3> QED BY <1>1, <1>4, <3>1, <3>2, <3>3 DEF EntriesAt
    <2>7. KeyAt' BY <1>1, <1>4, <2>2 DEF DictTypeOK, KeyAt, Listed
    <2> QED BY <2>3, <2>4, <2>5, <2>6, <2>7
  <1> QED BY <1>3, <1>4 DEF RemoveClient

\* A removal from `tasks' takes the task of the connection itself.
LEMMA RemoveTaskKeeps == ASSUME DictInv, NEW c \in Connections, RemoveTask(c) PROVE DictInv'
  <1> USE DEF DictInv, TaskGoto, poolVars, clientVars
  <1>1. PICK l \in {"dispose", "faulted"} : taskPc' = [taskPc EXCEPT ![c] = l]
    BY DEF RemoveTask
  <1>2. /\ taskPc[c] = "removeTask" /\ tasks' = tasks \ {key[c]}
        /\ UNCHANGED <<made, pool, alive, lastKey, clients, key, Key, robbed, client>>
    BY DEF RemoveTask
  <1>3. DictTypeOK' BY <1>1, <1>2 DEF DictTypeOK, ClientStates
  <1>4. PoolInv' BY <1>1, <1>2 DEF DictTypeOK, PoolInv, ClientExclusive, Owns
  <1>5. KeysDrawn' BY <1>1, <1>2 DEF DictTypeOK, KeysDrawn, NoKeyYet, Listed, Running
  <1>6. EntriesAt' BY <1>1, <1>2 DEF DictTypeOK, EntriesAt, KeysDrawn, Listed, Running
  <1>7. KeyAt' BY <1>1, <1>2 DEF DictTypeOK, KeyAt, Listed
  <1> QED BY <1>3, <1>4, <1>5, <1>6, <1>7

\* A disposal gives up the client before it touches the fields of whoever has it.
LEMMA DisposeKeeps ==
  ASSUME DictInv, NEW c \in Connections, Dispose(c) \/ Unbind(c) \/ ClearKey(c)
  PROVE  DictInv'
  <1> USE DEF DictInv, TaskGoto, dictVars, clientVars, poolVars
  <1>1. CASE Dispose(c)
    <2> USE <1>1
    <2>1. PICK l \in {"unbind", "faulted"} :
              taskPc' = [taskPc EXCEPT ![c] = l] /\ (l = "faulted" => client[c] \notin alive)
      BY DEF Dispose
    <2>2. /\ taskPc[c] = "dispose" /\ alive' = alive \ {client[c]}
          /\ pool' \subseteq pool \cup {client[c]} /\ (client[c] \notin alive => pool' = pool)
          /\ UNCHANGED <<made, lastKey, clients, tasks, key, Key, robbed, client>>
      BY DEF Dispose
    <2>3. Owns(c) /\ client[c] \in alive /\ l = "unbind"
      BY <2>1, <2>2 DEF Owns, PoolInv, ClientExclusive
    <2>4. DictTypeOK' BY <2>1, <2>2 DEF DictTypeOK, ClientStates
    <2>5. PoolInv'
      <3>1. made' \subseteq Clients /\ pool' \subseteq made' \ alive' /\ alive' \subseteq made'
        BY <2>2, <2>3 DEF PoolInv
      <3>2. \A d \in Connections : taskPc'[d] # "outside" => client'[d] \in Clients
        BY <2>1, <2>2 DEF PoolInv, DictTypeOK
      <3>3. \A d \in Connections : Owns(d)' => Owns(d) /\ d # c
        BY <2>1, <2>3 DEF Owns, DictTypeOK
      <3> QED BY <2>2, <2>3, <3>1, <3>2, <3>3 DEF PoolInv, ClientExclusive
    <2>6. KeysDrawn' BY <2>1, <2>2 DEF DictTypeOK, KeysDrawn, NoKeyYet, Listed, Running
    <2>7. EntriesAt' BY <2>1, <2>2 DEF DictTypeOK, EntriesAt, Listed, Running
    <2>8. KeyAt' BY <2>1, <2>2 DEF DictTypeOK, KeyAt, Listed
    <2> QED BY <2>4, <2>5, <2>6, <2>7, <2>8
  <1>2. CASE Unbind(c)
    <2>1. /\ taskPc[c] = "unbind" /\ taskPc' = [taskPc EXCEPT ![c] = "clear"]
          /\ UNCHANGED <<made, pool, alive, lastKey, clients, tasks, key, Key, robbed, client>>
      BY <1>2 DEF Unbind
    <2>2. DictTypeOK' BY <2>1 DEF DictTypeOK, ClientStates
    <2>3. PoolInv' BY <2>1 DEF DictTypeOK, PoolInv, ClientExclusive, Owns
    <2>4. KeysDrawn' BY <2>1 DEF DictTypeOK, KeysDrawn, NoKeyYet, Listed, Running
    <2>5. EntriesAt' BY <2>1 DEF DictTypeOK, EntriesAt, Listed, Running
    <2>6. KeyAt' BY <2>1 DEF DictTypeOK, KeyAt, Listed
    <2> QED BY <2>2, <2>3, <2>4, <2>5, <2>6
  <1>3. CASE ClearKey(c)
    <2>1. /\ taskPc[c] = "clear" /\ taskPc' = [taskPc EXCEPT ![c] = "decrement"]
          /\ Key' = [Key EXCEPT ![client[c]] = 0]
          /\ robbed' = robbed \cup {d \in Connections \ {c} : client[d] = client[c] /\ key[d] # 0}
          /\ UNCHANGED <<made, pool, alive, lastKey, clients, tasks, key, client>>
      BY <1>3 DEF ClearKey
    <2>2. DictTypeOK' BY <2>1 DEF DictTypeOK, ClientStates
    <2>3. PoolInv' BY <2>1 DEF DictTypeOK, PoolInv, ClientExclusive, Owns
    <2>4. KeysDrawn' BY <2>1 DEF DictTypeOK, KeysDrawn, NoKeyYet, Listed, Running
    <2>5. EntriesAt' BY <2>1 DEF DictTypeOK, EntriesAt, Listed, Running
    <2>6. ASSUME NEW d \in Connections, taskPc'[d] \in Listed
          PROVE  \/ Key'[client'[d]] = key'[d] \/ (Key'[client'[d]] = 0 /\ d \in robbed')
      <3>1. d # c /\ taskPc[d] \in Listed /\ key[d] # 0 /\ client[d] \in Clients
        BY <2>1, <2>6 DEF DictTypeOK, Listed, KeysDrawn, PoolInv
      <3> QED BY <2>1, <3>1 DEF KeyAt, DictTypeOK
    <2>7. KeyAt' BY <2>6 DEF KeyAt
    <2> QED BY <2>2, <2>3, <2>4, <2>5, <2>7
  <1> QED BY <1>1, <1>2, <1>3

\* Every step of the server keeps the dictionaries.
LEMMA DictStep == DictInv /\ [ServerNext]_serverVars => DictInv'
  <1> SUFFICES ASSUME DictInv, [ServerNext]_serverVars PROVE DictInv'
    OBVIOUS
  <1>1. CASE Loop \/ AwaitCounter \/ Stop \/ UNCHANGED serverVars
    BY <1>1, OthersKeep DEF Loop, AwaitCounter, Stop, serverVars, serverFields
  <1>2. ASSUME NEW c \in Connections, ClientStep(c) PROVE DictInv'
    <2>1. CASE CountIn(c)
      <3>1. PICK l \in {"increment", "register", "faulted"} :
                Moves(c, l) /\ taskPc[c] \in NoKeyYet \ {"outside"}
        BY <2>1 DEF CountIn, TaskGoto, Moves, NoKeyYet, serverFields
      <3> QED BY <3>1, MoveKeeps DEF NoKeyYet, ClientStates
    <2>2. CASE RunCanceled(c) \/ HandlerEnds(c)
      <3>1. PICK l \in {"removeClient", "thrown", "faulted"} :
                /\ Moves(c, l)
                /\ IF l = "faulted" THEN taskPc[c] = "starting" ELSE taskPc[c] = "handling"
        BY <2>2 DEF RunCanceled, HandlerEnds, TaskGoto, Moves, serverFields
      <3> QED BY <3>1, MoveKeeps DEF ClientStates, Listed
    <2>3. CASE CountOut(c)
      <3>1. Moves(c, "gone") /\ taskPc[c] = "decrement"
        BY <2>3 DEF CountOut, TaskGoto, Moves, serverFields
      <3> QED BY <3>1, MoveKeeps DEF ClientStates
    <2>4. CASE CounterCall(c) BY <2>4, OthersKeep DEF CounterCall, serverFields
    <2> QED BY <1>2, <2>1, <2>2, <2>3, <2>4, RegisterKeeps, HandleKeeps, RemoveClientKeeps,
               RemoveTaskKeeps, DisposeKeeps
        DEF ClientStep
  <1> QED BY <1>1, <1>2, AcceptKeeps DEF ServerNext

\* The pool and the dictionaries agree with the stages of the connections.
LEMMA DictHolds == ServerSpec => []DictInv
  BY DictInit, DictStep, PTL DEF ServerSpec

\* The task `remove' of AcceptClientAsync never takes the entry of another connection, and it
\* finds its own unless an unfinished disposal cleared the key of its client: for any number
\* of connections and clients, with Stop and failing handlers at any moment.
THEOREM RemoveFindsEntriesHolds == ServerSpec => []RemoveFindsEntries
  <1>1. DictInv => RemoveFindsEntries
    BY DEF DictInv, EntriesAt, KeyAt, RemoveFindsEntries, Listed, Running
  <1> QED BY <1>1, DictHolds, PTL

\* No client serves two connections, although the pool has it back before its disposal is over.
THEOREM ClientExclusiveHolds == ServerSpec => []ClientExclusive
  <1>1. DictInv => ClientExclusive BY DEF DictInv, PoolInv
  <1> QED BY <1>1, DictHolds, PTL

-----------------------------------------------------------------------------
(* The counter *)

Uncounted == {"outside", "accepted", "gone"}
Counted == {c \in Connections : taskPc[c] \notin Uncounted}
CallStates == {"idle", "read", "compare", "set", "tcs", "counter", "value", "thrown"}

\* The inductive invariant: only a caller that has completed a source resets the counter, so
\* before the first completion the counter changes with the clients alone.
CountInv ==
    /\ callPc \in [Connections -> CallStates]
    /\ \A c \in Connections : callPc[c] \in {"tcs", "counter", "value", "thrown"} => completed # {}
    /\ counter \in Int
    /\ completed = {} => counter = Cardinality(Counted)

\* The counted clients are finitely many.
LEMMA CountedFinite ==
    IsFiniteSet(Counted) /\ Cardinality(Counted) \in Nat
  <1>1. IsFiniteSet(Connections) /\ Counted \subseteq Connections
    BY ServerAssumption DEF Counted
  <1>2. IsFiniteSet(Counted)
    BY <1>1, FS_Subset
  <1> QED BY <1>2, FS_CardinalityType

\* A move of a client between two counted or two uncounted stages does not change the number.
LEMMA CountSame ==
  ASSUME taskPc \in [Connections -> ClientStates], NEW c \in Connections, NEW l, TaskGoto(c, l),
         taskPc[c] \in Uncounted <=> l \in Uncounted
  PROVE  Counted' = Counted
  BY DEF TaskGoto, Counted

\* Clients that are not counted in or out do not change the count.
LEMMA CountKept ==
  ASSUME CountInv, Counted' = Counted, UNCHANGED <<counter, completed, callPc>>
  PROVE  CountInv'
  BY DEF CountInv

\* Interlocked.Increment and Decrement, with the stage of the client
LEMMA CountsIn ==
  ASSUME CountInv, taskPc \in [Connections -> ClientStates], NEW c \in Connections,
         CountIn(c) \/ CountOut(c)
  PROVE  CountInv'
  <1>0. Callers = Connections
    BY ServerAssumption
  <1>1. CASE taskPc[c] = "accepted" /\ Increment(c) /\ TaskGoto(c, "increment")
    <2>1. /\ callPc' = [callPc EXCEPT ![c] = "read"] /\ completed' = completed
          /\ counter' = counter + 1
      BY <1>1 DEF Increment, CallGoto
    <2>2. c \notin Counted /\ Counted' = Counted \cup {c}
      BY <1>1 DEF TaskGoto, Counted, Uncounted
    <2>3. Cardinality(Counted') = Cardinality(Counted) + 1
      BY <2>2, CountedFinite, FS_AddElement
    <2> QED BY <2>1, <2>3, CountedFinite DEF CountInv, CallStates
  <1>2. CASE taskPc[c] = "increment"
             /\ TaskGoto(c, IF callPc[c] = "idle" THEN "register" ELSE "faulted")
                 /\ UNCHANGED counterVars
    <2>1. Counted' = Counted
      BY <1>2, CountSame DEF Uncounted
    <2> QED BY <1>2, <2>1, CountKept DEF counterVars
  <1>3. CASE CountOut(c)
    <2>1. /\ callPc' = [callPc EXCEPT ![c] = "read"] /\ completed' = completed
          /\ counter' = counter - 1
      BY <1>3 DEF CountOut, Decrement, CallGoto
    <2>2. c \in Counted /\ Counted' = Counted \ {c}
      BY <1>3 DEF CountOut, TaskGoto, Counted, Uncounted
    <2>3. Cardinality(Counted') = Cardinality(Counted) - 1
      BY <2>2, CountedFinite, FS_RemoveElement
    <2> QED BY <2>1, <2>3, CountedFinite DEF CountInv, CallStates
  <1> QED BY <1>1, <1>2, <1>3 DEF CountIn

\* One step of a call of the counter
LEMMA CountCallStep ==
  ASSUME CountInv, NEW c \in Connections, CounterCall(c)
  PROVE  CountInv'
  <1>0. Counted' = Counted
    BY DEF CounterCall, Counted
  <1>1. CASE ReadCounter(c) \/ CompareValue(c)
    <2>1. PICK l \in {"compare", "set", "idle"} : callPc' = [callPc EXCEPT ![c] = l]
      BY <1>1 DEF ReadCounter, CompareValue, CallGoto
    <2>2. UNCHANGED <<counter, completed>>
      BY <1>1 DEF ReadCounter, CompareValue
    <2> QED BY <1>0, <2>1, <2>2 DEF CountInv, CallStates
  <1>2. CASE SetResult(c)
    <2>1. PICK l \in {"thrown", "tcs"} : callPc' = [callPc EXCEPT ![c] = l]
      BY <1>2 DEF SetResult, CallGoto
    <2>2. completed' # {} /\ counter' = counter
      BY <1>2 DEF SetResult
    <2> QED BY <2>1, <2>2 DEF CountInv, CallStates
  <1>3. CASE InitReset(c)
    <2>1. callPc[c] \in {"tcs", "counter", "value"}
      BY <1>3 DEF InitReset
    <2>2. completed # {} /\ completed' = completed
      BY <1>3, <2>1 DEF CountInv, InitReset
    <2>3. PICK l \in {"counter", "value", "idle"} : callPc' = [callPc EXCEPT ![c] = l]
      BY <1>3 DEF InitReset, CallGoto
    <2>4. counter' \in Int
      BY <1>3 DEF InitReset, CountInv
    <2> QED BY <2>2, <2>3, <2>4 DEF CountInv, CallStates
  <1> QED BY <1>1, <1>2, <1>3 DEF CounterCall, CallStep

\* Every step of the server keeps the count.
LEMMA CountStep == DictInv /\ CountInv /\ [ServerNext]_serverVars => CountInv'
  <1> SUFFICES ASSUME DictInv, CountInv, [ServerNext]_serverVars PROVE CountInv'
    OBVIOUS
  <1>0. taskPc \in [Connections -> ClientStates]
    BY DEF DictInv, DictTypeOK
  <1>1. CASE Loop \/ AwaitCounter \/ Stop \/ UNCHANGED serverVars
    <2>1. UNCHANGED <<counter, completed, callPc, taskPc>>
      BY <1>1 DEF Loop, AwaitCounter, Await, Stop, serverVars, counterVars
    <2> QED BY <2>1, CountKept DEF Counted
  <1>2. ASSUME NEW c \in Connections, Accept(c) PROVE CountInv'
    <2>1. /\ TaskGoto(c, "accepted") \/ UNCHANGED taskPc
          /\ taskPc[c] = "outside" /\ UNCHANGED <<counter, completed, callPc>>
      BY <1>2 DEF Accept, counterVars
    <2>2. Counted' = Counted
      BY <1>0, <2>1, CountSame DEF Uncounted, Counted
    <2> QED BY <2>1, <2>2, CountKept
  <1>3. ASSUME NEW c \in Connections,
               \/ Register(c) \/ HandleClient(c) \/ RunCanceled(c) \/ HandlerEnds(c)
               \/ RemoveClient(c) \/ RemoveTask(c) \/ Dispose(c) \/ Unbind(c) \/ ClearKey(c)
        PROVE  CountInv'
    <2>1. PICK l \in ClientStates \ Uncounted : TaskGoto(c, l)
      BY <1>3 DEF Register, HandleClient, RunCanceled, HandlerEnds, RemoveClient, RemoveTask,
                     Dispose, Unbind, ClearKey, ClientStates, Uncounted
    <2>2. taskPc[c] \notin Uncounted /\ UNCHANGED <<counter, completed, callPc>>
      BY <1>3 DEF Register, HandleClient, RunCanceled, HandlerEnds, RemoveClient, RemoveTask,
                     Dispose, Unbind, ClearKey, Uncounted, counterVars
    <2>3. Counted' = Counted
      BY <1>0, <2>1, <2>2, CountSame
    <2> QED BY <2>2, <2>3, CountKept
  <1> QED BY <1>0, <1>1, <1>2, <1>3, CountsIn, CountCallStep DEF ServerNext, ClientStep

\* Until Await is released for the first time, asyncCounter is the number of clients counted in
\* and not out, for any number of clients and with Stop and failing handlers at any moment.
THEOREM CounterCountsClientsHolds == ServerSpec => []CounterCountsClients
  <1>1. ServerInit => CountInv
    <2> SUFFICES ASSUME ServerInit PROVE CountInv
      OBVIOUS
    <2>1. Counted = {}
      BY DEF ServerInit, Counted, Uncounted
    <2> QED BY <2>1, FS_EmptySet, ServerAssumption DEF ServerInit, CounterInit, CountInv, CallStates
  <1>2. CountInv => CounterCountsClients
    BY DEF CountInv, CounterCountsClients, Counted, Uncounted
  <1> QED BY <1>1, <1>2, DictHolds, CountStep, PTL DEF ServerSpec
=============================================================================

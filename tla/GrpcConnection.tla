--------------------------- MODULE GrpcConnection ---------------------------
(***************************************************************************)
(* One duplex connection of the publisher service: GrpcConnection and the   *)
(* part of GrpcProxyPublisherService (ProxyForDecoding) that registers it    *)
(* and pushes data into it.  Any number of threads call NotifyAll, which     *)
(* Puts the datum: enqueue, then are.Set().  One task, RunAsServerNotifier,  *)
(* awaits the event and writes one queued datum per wake-up.                 *)
(***************************************************************************)
EXTENDS Naturals, Sequences, FiniteSets

CONSTANTS Producers,      \* threads that call NotifyAll
          Data,           \* connection data to publish
          MaxPuts,        \* bound on the calls of NotifyAll
          Cancelable,     \* whether the token of the notifier may be canceled
          WriterFails     \* whether writer.WriteAsync may throw

ASSUME GrpcAssumption ==
    IsFiniteSet(Producers) /\ MaxPuts \in Nat /\ Cancelable \in BOOLEAN /\ WriterFails \in BOOLEAN

VARIABLES waits, signals, isCanceled, cancellationToken, cachedCanceled, pc, tok, registered,
          fired, callbacks, resetPc, resetFails, resets, sets, released,   \* are
          keyValues,     \* the connection is in the service's dictionary
          queue,         \* data put and not yet taken
          canceled,      \* token.IsCancellationRequested
          maintainPc,    \* MaintainConnection
          notifierPc,    \* RunAsServerNotifier
          inHand,        \* the datum being written, as a sequence of at most one
          written,       \* replies written to the client
          producerPc, producerData,
          put            \* every datum enqueued, in order

Notifier == "notifier"
are == INSTANCE AsyncAutoResetEvent WITH
           Waiters <- {Notifier}, Tokens <- {}, NoToken <- 0, Torn <- 1,
           Canceled <- "canceled", MaxSets <- MaxPuts, MaxWaits <- 1, MaxResets <- 0

areVars == <<waits, signals, isCanceled, cancellationToken, cachedCanceled, pc, tok, registered,
             fired, callbacks, resetPc, resetFails, resets, sets, released>>
serviceVars == <<keyValues, canceled, maintainPc>>
producerVars == <<producerPc, producerData>>
vars == <<areVars, serviceVars, queue, notifierPc, inHand, written, producerVars, put>>

Init ==
    /\ are!Init
    /\ keyValues = FALSE /\ canceled = FALSE /\ maintainPc = "call"
    /\ queue = << >> /\ notifierPc = "new" /\ inHand = << >> /\ written = << >>
    /\ producerPc = [p \in Producers |-> "idle"]
    /\ producerData \in [Producers -> Data]
    /\ put = << >>

-----------------------------------------------------------------------------
(* MaintainConnection: the notifier runs before the connection is registered. *)

StartNotifier ==
    /\ maintainPc = "call"
    /\ maintainPc' = "tryAdd" /\ notifierPc' = "loop"
    /\ UNCHANGED <<areVars, keyValues, canceled, queue, inHand, written, producerVars, put>>
TryAdd ==
    /\ maintainPc = "tryAdd"
    /\ maintainPc' = "await" /\ keyValues' = TRUE
    /\ UNCHANGED <<areVars, canceled, queue, notifierPc, inHand, written, producerVars, put>>

CancelToken ==
    /\ Cancelable /\ ~canceled
    /\ canceled' = TRUE
    /\ UNCHANGED <<areVars, keyValues, maintainPc, queue, notifierPc, inHand, written, producerVars, put>>

-----------------------------------------------------------------------------
(* NotifyAll and Put *)

\* keyValues.Values is a snapshot: the connection is given the datum even if it is
\* removed meanwhile.
Snapshot(p) ==
    /\ producerPc[p] = "idle" /\ keyValues
    /\ producerPc' = [producerPc EXCEPT ![p] = "enqueue"]
    /\ \E d \in Data : producerData' = [producerData EXCEPT ![p] = d]
    /\ UNCHANGED <<areVars, serviceVars, queue, notifierPc, inHand, written, put>>

\* Mutant: the connection is signaled where the datum should be enqueued.
EnqueueSignals(p) ==
    /\ producerPc[p] = "enqueue"
    /\ are!Set
    /\ put' = Append(put, producerData[p])
    /\ producerPc' = [producerPc EXCEPT ![p] = "set"]
    /\ UNCHANGED <<serviceVars, queue, notifierPc, inHand, written, producerData>>

Enqueue(p) ==
    /\ producerPc[p] = "enqueue"
    /\ queue' = Append(queue, producerData[p])
    /\ put' = Append(put, producerData[p])
    /\ producerPc' = [producerPc EXCEPT ![p] = "set"]
    /\ UNCHANGED <<areVars, serviceVars, notifierPc, inHand, written, producerData>>

\* Mutant: are.Set() is missing.
AreNotSet(p) ==
    /\ producerPc[p] = "set"
    /\ producerPc' = [producerPc EXCEPT ![p] = "idle"]
    /\ UNCHANGED <<areVars, serviceVars, queue, notifierPc, inHand, written, put, producerData>>

AreSet(p) ==
    /\ producerPc[p] = "set"
    /\ are!Set
    /\ producerPc' = [producerPc EXCEPT ![p] = "idle"]
    /\ UNCHANGED <<serviceVars, queue, notifierPc, inHand, written, put, producerData>>

-----------------------------------------------------------------------------
(* RunAsServerNotifier *)

\* The loop condition and the call of are.WaitAsync().
LoopCondition ==
    /\ notifierPc = "loop"
    /\ IF ~canceled \/ queue # << >>
       THEN are!WaitAsync(Notifier, 0) /\ notifierPc' = "wait"
       ELSE notifierPc' = "remove" /\ UNCHANGED areVars
    /\ UNCHANGED <<serviceVars, queue, inHand, written, producerVars, put>>

EnterWait ==
    /\ notifierPc = "wait"
    /\ are!EnterWait(Notifier)
    /\ UNCHANGED <<serviceVars, queue, notifierPc, inHand, written, producerVars, put>>

Awaited ==
    /\ notifierPc = "wait"
    /\ are!Resume(Notifier)
    /\ notifierPc' = "dequeue"
    /\ UNCHANGED <<serviceVars, queue, inHand, written, producerVars, put>>

\* Mutant: the datum is dequeued only after it was written.
TryPeek ==
    /\ notifierPc = "dequeue"
    /\ IF queue # << >>
       THEN inHand' = <<Head(queue)>> /\ notifierPc' = "write"
       ELSE notifierPc' = "loop" /\ UNCHANGED inHand
    /\ UNCHANGED <<areVars, serviceVars, queue, written, producerVars, put>>

TryDequeue ==
    /\ notifierPc = "dequeue"
    /\ IF queue # << >>
       THEN inHand' = <<Head(queue)>> /\ queue' = Tail(queue) /\ notifierPc' = "write"
       ELSE notifierPc' = "loop" /\ UNCHANGED <<inHand, queue>>
    /\ UNCHANGED <<areVars, serviceVars, written, producerVars, put>>

\* await writer.WriteAsync(reply)
Write ==
    /\ notifierPc = "write"
    /\ written' = written \o inHand /\ inHand' = << >>
    /\ notifierPc' = "loop"
    /\ UNCHANGED <<areVars, serviceVars, queue, producerVars, put>>

\* The exception of the writer ends the task: the connection stays registered.
WriteThrows ==
    /\ WriterFails /\ notifierPc = "write"
    /\ notifierPc' = "faulted"
    /\ UNCHANGED <<areVars, serviceVars, queue, inHand, written, producerVars, put>>

\* dic.TryRemove; it throws when the connection was not added yet.
TryRemove ==
    /\ notifierPc = "remove"
    /\ notifierPc' = IF keyValues THEN "completed" ELSE "faulted"
    /\ keyValues' = FALSE
    /\ UNCHANGED <<areVars, canceled, maintainPc, queue, inHand, written, producerVars, put>>

Notify == LoopCondition \/ EnterWait \/ Awaited \/ TryDequeue \/ Write \/ WriteThrows \/ TryRemove
Next ==
    \/ StartNotifier \/ TryAdd \/ CancelToken \/ Notify
    \/ \E p \in Producers : (Len(put) < MaxPuts /\ Snapshot(p)) \/ Enqueue(p) \/ AreSet(p)

\* The thread pool runs the notifier whenever it can run, a thread that enqueued goes
\* on to Set, and a client that accepts a reply lets WriteAsync complete.
Fairness == WF_vars(Notify) /\ \A p \in Producers : WF_vars(Enqueue(p) \/ AreSet(p))
Spec == Init /\ [][Next]_vars /\ Fairness

-----------------------------------------------------------------------------
(* Properties *)

\* The event, the queue and the tasks have the types of their fields.
TypeOK ==
    /\ are!TypeOK
    /\ keyValues \in BOOLEAN /\ canceled \in BOOLEAN
    /\ maintainPc \in {"call", "tryAdd", "await"}
    /\ notifierPc \in {"new", "loop", "wait", "dequeue", "write", "remove", "completed", "faulted"}
    /\ queue \in Seq(Data) /\ written \in Seq(Data) /\ inHand \in Seq(Data) /\ put \in Seq(Data)
    /\ producerPc \in [Producers -> {"idle", "enqueue", "set"}] /\ producerData \in [Producers -> Data]

\* One wake-up per datum: when the await of the notifier returns, the queue is not
\* empty, so no wake-up is wasted on a failed TryDequeue and no datum is left
\* behind without a wake-up of its own.
WakeupFindsData == notifierPc = "dequeue" => queue # << >>

\* The threads between queue.Enqueue and are.Set.
Signaling == {p \in Producers : producerPc[p] = "set"}
\* The wake-up the notifier was given and has not used.
Woken == IF pc[Notifier] = "completed" \/ notifierPc = "dequeue" THEN 1 ELSE 0

\* Why: every queued datum has a banked signal, a wake-up under way, or a thread that is
\* about to signal it.
SignalPerDatum == Len(queue) = signals + Woken + Cardinality(Signaling)

\* The client receives the data in the order in which the threads enqueued them,
\* none lost and none repeated, even when the writer fails or the token is canceled.
WrittenInOrder == put = written \o inHand \o queue

\* Every datum put into the connection is written eventually, unless the notifier has ended:
\* canceled, it still writes what is queued; after an exception of the writer it does not.
EveryDatumWritten ==
    \A n \in 1..MaxPuts :
        Len(put) >= n ~> Len(written) >= n \/ notifierPc \in {"completed", "faulted"}
=============================================================================

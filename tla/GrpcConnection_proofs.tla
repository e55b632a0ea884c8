------------------------ MODULE GrpcConnection_proofs ------------------------
(***************************************************************************)
(* For any set of producers and any data: every wake-up of the notifier      *)
(* finds a datum, and the client receives the data in the order of the puts. *)
(***************************************************************************)
EXTENDS GrpcConnection, SequenceTheorems, FiniteSetTheorems, TLAPS

\* How the event of this connection is used: one waiter that passes no token.
AreState ==
    /\ isCanceled = FALSE
    /\ signals \in Nat
    /\ pc \in [{Notifier} -> {"idle", "enter", "pending", "completed"}]
    /\ waits = IF pc[Notifier] = "pending" THEN <<Notifier>> ELSE << >>
    /\ pc[Notifier] # "idle" <=> notifierPc = "wait"
    /\ maintainPc = "call" => notifierPc = "new"

QueueTypes ==
    /\ queue \in Seq(Data) /\ written \in Seq(Data) /\ put \in Seq(Data) /\ inHand \in Seq(Data)
    /\ producerPc \in [Producers -> {"idle", "enqueue", "set"}]
    /\ producerData \in [Producers -> Data]

\* The inductive invariant of the wake-ups.
WakeupInv == AreState /\ QueueTypes /\ SignalPerDatum

LEMMA SignalingFinite == IsFiniteSet(Signaling)
  BY GrpcAssumption, FS_Subset DEF Signaling

LEMMA SignalingCard == Cardinality(Signaling) \in Nat
  BY SignalingFinite, FS_CardinalityType

LEMMA WakeupInit == Init => WakeupInv
<1> SUFFICES ASSUME Init PROVE WakeupInv
  OBVIOUS
<1>1. AreState
  BY DEF Init, are!Init, AreState
<1>2. QueueTypes
  BY DEF Init, QueueTypes
<1>3. Signaling = {}
  BY DEF Init, Signaling
<1>4. SignalPerDatum
  BY <1>3, FS_EmptySet DEF SignalPerDatum, Init, are!Init, Woken
<1> QED
  BY <1>1, <1>2, <1>4 DEF WakeupInv

LEMMA WakeupStep == WakeupInv /\ [Next]_vars => WakeupInv'
<1> SUFFICES ASSUME WakeupInv, [Next]_vars PROVE WakeupInv'
  OBVIOUS
<1> USE DEF WakeupInv, areVars, serviceVars, producerVars
<1>1. ASSUME UNCHANGED producerPc PROVE Cardinality(Signaling') = Cardinality(Signaling)
  BY <1>1 DEF Signaling
<1>2. CASE StartNotifier
  BY <1>1, <1>2, SignalingCard DEF StartNotifier, AreState, QueueTypes, SignalPerDatum, Woken
<1>3. CASE TryAdd \/ CancelToken
  BY <1>1, <1>3, SignalingCard DEF TryAdd, CancelToken, AreState, QueueTypes, SignalPerDatum, Woken
<1>4. ASSUME NEW p \in Producers, Snapshot(p) PROVE WakeupInv'
  <2>1. Signaling' = Signaling
    BY <1>4 DEF Snapshot, QueueTypes, Signaling
  <2>2. QueueTypes'
    BY <1>4 DEF Snapshot, QueueTypes
  <2> QED
    BY <1>4, <2>1, <2>2 DEF Snapshot, AreState, SignalPerDatum, Woken
<1>5. ASSUME NEW p \in Producers, Enqueue(p) PROVE WakeupInv'
  <2>1. Signaling' = Signaling \cup {p} /\ p \notin Signaling
    BY <1>5 DEF Enqueue, QueueTypes, Signaling
  <2>2. Cardinality(Signaling') = Cardinality(Signaling) + 1
    BY <2>1, SignalingFinite, FS_AddElement
  <2>3. QueueTypes' /\ Len(queue') = Len(queue) + 1
    BY <1>5, AppendProperties DEF Enqueue, QueueTypes
  <2>4. Woken' = Woken /\ signals' = signals /\ Woken \in Nat
    BY <1>5 DEF Enqueue, Woken
  <2>5. SignalPerDatum'
    BY <2>2, <2>3, <2>4, SignalingCard DEF SignalPerDatum, AreState
  <2> QED
    BY <1>5, <2>3, <2>5 DEF Enqueue, AreState
<1>6. ASSUME NEW p \in Producers, AreSet(p) PROVE WakeupInv'
  <2>1. Signaling' = Signaling \ {p} /\ p \in Signaling
    BY <1>6 DEF AreSet, QueueTypes, Signaling
  <2>2. Cardinality(Signaling') = Cardinality(Signaling) - 1
    BY <2>1, SignalingFinite, FS_RemoveElement
  <2>3. QueueTypes'
    BY <1>6 DEF AreSet, QueueTypes
  <2>4. CASE pc[Notifier] = "pending"
    <3>1. waits = <<Notifier>> /\ waits # << >>
      BY <2>4 DEF AreState
    <3>2. /\ waits' = << >> /\ signals' = signals
          /\ pc' = [pc EXCEPT ![Notifier] = "completed"] /\ isCanceled' = FALSE
      BY <1>6, <3>1 DEF AreSet, are!Set, are!Goto, AreState, Notifier
    <3>3. AreState'
      BY <1>6, <2>4, <3>2 DEF AreSet, AreState
    <3>4. Woken = 0 /\ Woken' = 1
      BY <1>6, <2>4, <3>2 DEF AreSet, AreState, Woken
    <3> QED
      BY <1>6, <2>2, <2>3, <3>2, <3>3, <3>4, SignalingCard DEF AreSet, SignalPerDatum, AreState
  <2>5. CASE pc[Notifier] # "pending"
    <3>1. /\ waits' = << >> /\ signals' = signals + 1 /\ pc' = pc /\ isCanceled' = FALSE
      BY <1>6, <2>5 DEF AreSet, are!Set, AreState
    <3>2. AreState' /\ Woken' = Woken
      BY <1>6, <2>5, <3>1 DEF AreSet, AreState, Woken
    <3> QED
      BY <1>6, <2>2, <2>3, <3>1, <3>2, SignalingCard DEF AreSet, SignalPerDatum, AreState, Woken
  <2> QED
    BY <2>4, <2>5
<1>7. CASE LoopCondition
  <2>1. AreState' /\ Woken' = Woken /\ signals' = signals
    BY <1>7 DEF LoopCondition, are!WaitAsync, are!Goto, are!fields, are!tokenVars, are!counters,
                AreState, Woken
  <2> QED
    BY <1>1, <1>7, <2>1 DEF LoopCondition, QueueTypes, SignalPerDatum
<1>8. CASE EnterWait
  <2>0. pc[Notifier] = "enter" /\ waits = << >> /\ isCanceled = FALSE
    BY <1>8 DEF EnterWait, are!EnterWait, AreState
  <2>1. CASE signals > 0
    <3>1. /\ pc' = [pc EXCEPT ![Notifier] = "completed"] /\ signals' = signals - 1
          /\ waits' = << >> /\ isCanceled' = FALSE
      BY <1>8, <2>0, <2>1 DEF EnterWait, are!EnterWait, are!Goto
    <3>2. AreState' /\ Woken = 0 /\ Woken' = 1
      BY <1>8, <2>0, <2>1, <3>1 DEF EnterWait, AreState, Woken
    <3> QED
      BY <1>1, <1>8, <3>1, <3>2, SignalingCard DEF EnterWait, QueueTypes, SignalPerDatum, AreState
  <2>2. CASE ~(signals > 0)
    <3>1. /\ pc' = [pc EXCEPT ![Notifier] = "pending"] /\ signals' = signals
          /\ waits' = <<Notifier>> /\ isCanceled' = FALSE
      BY <1>8, <2>0, <2>2 DEF EnterWait, are!EnterWait, are!Goto
    <3>2. AreState' /\ Woken' = Woken
      BY <1>8, <2>0, <2>2, <3>1 DEF EnterWait, AreState, Woken
    <3> QED
      BY <1>1, <1>8, <3>1, <3>2 DEF EnterWait, QueueTypes, SignalPerDatum
  <2> QED
    BY <2>1, <2>2
<1>9. CASE Awaited
  <2>1. /\ pc[Notifier] = "completed" /\ pc' = [pc EXCEPT ![Notifier] = "idle"]
        /\ signals' = signals /\ waits' = waits /\ isCanceled' = isCanceled
    BY <1>9 DEF Awaited, are!Resume, are!Outcomes, are!Goto, are!fields, AreState
  <2>2. AreState' /\ Woken' = Woken
    BY <1>9, <2>1 DEF Awaited, AreState, Woken
  <2> QED
    BY <1>1, <1>9, <2>1, <2>2 DEF Awaited, QueueTypes, SignalPerDatum
<1>10. CASE TryDequeue
  <2>1. pc[Notifier] = "idle" /\ Woken = 1 /\ Woken' = 0
    BY <1>10 DEF TryDequeue, AreState, Woken
  <2>2. queue # << >>
    <3>1. Len(queue) # 0
      BY <2>1, SignalingCard DEF SignalPerDatum, AreState
    <3> QED
      BY <3>1, EmptySeq DEF QueueTypes
  <2>3. /\ Head(queue) \in Data /\ Tail(queue) \in Seq(Data) /\ Len(Tail(queue)) = Len(queue) - 1
    BY <2>2, HeadTailProperties DEF QueueTypes
  <2>4. QueueTypes'
    <3>1. <<Head(queue)>> \in Seq(Data)
      BY <2>3
    <3>2. inHand' = <<Head(queue)>> /\ queue' = Tail(queue)
      BY <1>10, <2>2 DEF TryDequeue
    <3> QED
      BY <1>10, <2>3, <3>1, <3>2 DEF TryDequeue, QueueTypes
  <2>5. AreState'
    BY <1>10 DEF TryDequeue, AreState
  <2>6. Len(queue') = Len(queue) - 1 /\ signals' = signals
    BY <1>10, <2>2, <2>3 DEF TryDequeue
  <2>7. SignalPerDatum'
    BY <1>1, <1>10, <2>1, <2>6, SignalingCard DEF TryDequeue, SignalPerDatum, AreState
  <2> QED
    BY <2>4, <2>5, <2>7
<1>11. CASE Write
  <2>1. QueueTypes'
    <3>1. written \o inHand \in Seq(Data) /\ << >> \in Seq(Data)
      BY ConcatProperties, EmptySeq DEF QueueTypes
    <3> QED
      BY <1>11, <3>1 DEF Write, QueueTypes
  <2> QED
    BY <1>1, <1>11, <2>1 DEF Write, AreState, SignalPerDatum, Woken
<1>12. CASE WriteThrows \/ TryRemove
  BY <1>1, <1>12 DEF WriteThrows, TryRemove, QueueTypes, AreState, SignalPerDatum, Woken
<1>13. CASE UNCHANGED vars
  BY <1>1, <1>13 DEF vars, QueueTypes, AreState, SignalPerDatum, Woken
<1> QED
  BY <1>2, <1>3, <1>4, <1>5, <1>6, <1>7, <1>8, <1>9, <1>10, <1>11, <1>12, <1>13 DEF Next, Notify

\* Every queued datum has a signal, a wake-up or a signaling thread of its own, for any
\* number of publishing threads.
THEOREM SignalPerDatumHolds == Spec => []SignalPerDatum
  BY WakeupInit, WakeupStep, PTL DEF Spec, WakeupInv

\* RunAsServerNotifier never wakes up to an empty queue, for any number of threads that
\* call NotifyAll and any data.
THEOREM WakeupFindsDataHolds == Spec => []WakeupFindsData
<1>1. WakeupInv => WakeupFindsData
  <2> SUFFICES ASSUME WakeupInv, notifierPc = "dequeue" PROVE queue # << >>
    BY DEF WakeupFindsData
  <2>1. Len(queue) # 0
    BY SignalingCard DEF WakeupInv, AreState, SignalPerDatum, Woken
  <2> QED
    BY <2>1, EmptySeq DEF WakeupInv, QueueTypes
<1> QED
  BY <1>1, WakeupInit, WakeupStep, PTL DEF Spec

\* The datum in hand exists only while it is written (or after the writer threw).
InHandInv == /\ notifierPc \in {"new", "loop", "wait", "dequeue", "write", "remove", "completed", "faulted"}
             /\ notifierPc \notin {"write", "faulted"} => inHand = << >>

\* The client receives the data in the order of the puts, none lost and none repeated,
\* for any number of threads that call NotifyAll.
THEOREM WrittenInOrderHolds == Spec => []WrittenInOrder
<1> DEFINE OrderInv == InHandInv /\ WrittenInOrder
<1>1. Init => OrderInv
  <2> SUFFICES ASSUME Init PROVE OrderInv
    OBVIOUS
  <2>1. << >> \o << >> \o << >> = << >>
    BY ConcatEmptySeq, EmptySeq
  <2> QED
    BY <2>1 DEF Init, InHandInv, WrittenInOrder
<1>2. WakeupInv /\ OrderInv /\ [Next]_vars => OrderInv'
  <2> SUFFICES ASSUME WakeupInv, OrderInv, [Next]_vars PROVE OrderInv'
    OBVIOUS
  <2> USE DEF InHandInv, areVars, serviceVars, producerVars
  <2>1. CASE StartNotifier
    BY <2>1 DEF StartNotifier, WrittenInOrder, WakeupInv, AreState
  <2>2. CASE TryAdd \/ CancelToken \/ \E p \in Producers : Snapshot(p) \/ AreSet(p)
    BY <2>2 DEF TryAdd, CancelToken, Snapshot, AreSet, WrittenInOrder
  <2>3. ASSUME NEW p \in Producers, Enqueue(p) PROVE OrderInv'
    <3>1. producerData[p] \in Data
      BY DEF WakeupInv, QueueTypes
    <3>2. Append(put, producerData[p]) = put \o <<producerData[p]>>
          /\ Append(queue, producerData[p]) = queue \o <<producerData[p]>>
          /\ <<producerData[p]>> \in Seq(Data)
      BY <3>1, AppendIsConcat DEF WakeupInv, QueueTypes
    <3>3. ((written \o inHand) \o queue) \o <<producerData[p]>>
            = (written \o inHand) \o (queue \o <<producerData[p]>>)
      <4>1. written \o inHand \in Seq(Data)
        BY ConcatProperties DEF WakeupInv, QueueTypes
      <4>2. queue \in Seq(Data)
        BY DEF WakeupInv, QueueTypes
      <4>3. \A a, b, c \in Seq(Data) : (a \o b) \o c = a \o (b \o c)
        BY ConcatAssociative
      <4> QED
        BY <3>2, <4>1, <4>2, <4>3, Zenon
    <3> QED
      BY <2>3, <3>2, <3>3 DEF Enqueue, WrittenInOrder
  <2>4. CASE LoopCondition \/ EnterWait \/ Awaited \/ WriteThrows \/ TryRemove
    BY <2>4 DEF LoopCondition, EnterWait, Awaited, WriteThrows, TryRemove, WrittenInOrder
  <2>5. CASE TryDequeue
    <3>1. CASE queue # << >>
      <4>1. inHand = << >> /\ inHand' = <<Head(queue)>> /\ queue' = Tail(queue)
            /\ written' = written /\ put' = put /\ notifierPc' = "write"
        BY <2>5, <3>1 DEF TryDequeue
      <4>2. queue = <<Head(queue)>> \o Tail(queue)
        BY <3>1 DEF WakeupInv, QueueTypes
      <4>3. written \o << >> = written
        BY ConcatEmptySeq DEF WakeupInv, QueueTypes
      <4>4. <<Head(queue)>> \in Seq(Data) /\ Tail(queue) \in Seq(Data)
        BY <3>1, HeadTailProperties DEF WakeupInv, QueueTypes
      <4>5. (written \o <<Head(queue)>>) \o Tail(queue) = written \o (<<Head(queue)>> \o Tail(queue))
        BY <4>4, ConcatAssociative, SMTT(30) DEF WakeupInv, QueueTypes
      <4> QED
        BY <4>1, <4>2, <4>3, <4>5 DEF WrittenInOrder
    <3>2. CASE queue = << >>
      BY <2>5, <3>2 DEF TryDequeue, WrittenInOrder
    <3> QED
      BY <3>1, <3>2
  <2>6. CASE Write
    <3>1. (written \o inHand) \o << >> = written \o inHand
      BY ConcatEmptySeq, ConcatProperties DEF WakeupInv, QueueTypes
    <3> QED
      BY <2>6, <3>1 DEF Write, WrittenInOrder
  <2>7. CASE UNCHANGED vars
    BY <2>7 DEF vars, WrittenInOrder
  <2> QED
    BY <2>1, <2>2, <2>3, <2>4, <2>5, <2>6, <2>7 DEF Next, Notify
<1> QED
  BY <1>1, <1>2, WakeupInit, WakeupStep, PTL DEF Spec
=============================================================================

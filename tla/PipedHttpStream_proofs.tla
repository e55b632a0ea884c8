----------------------- MODULE PipedHttpStream_proofs -----------------------
(***************************************************************************)
(* Proofs about ParseMessagesAsync, for any messages, however the reads cut  *)
(* them, and any number of calls: a completed await finds a message in       *)
(* the queue, and the first call delivers the messages of the source in      *)
(* order.                                                                    *)
(***************************************************************************)
EXTENDS PipedHttpStream, SequenceTheorems, TLAPS

-----------------------------------------------------------------------------
(* The event `sync' as its one waiter uses it *)

Entry == {Caller, "canceled"}
EventState ==
    /\ signals \in Nat /\ waits \in Seq(Entry)
    /\ pc \in [{Caller} -> sync!WaiterStates]
    /\ \A i \in 1..Len(waits) : waits[i] = Caller => pc[Caller] = "pending"
    /\ \A i, j \in 1..Len(waits) : waits[i] = Caller /\ waits[j] = Caller => i = j

\* Set banks a signal, or wakes the caller, or loses its signal to a canceled source.
LEMMA EventSet ==
    ASSUME EventState, sync!Set
    PROVE  /\ EventState' /\ resetPc' = resetPc
           /\ \/ signals' = signals + 1 /\ pc' = pc
              \/ signals' = signals /\ (pc' = pc \/ (pc[Caller] = "pending" /\ pc'[Caller] = "completed"))
<1>0. resetPc' = resetPc
  BY DEF sync!Set, sync!tokenVars
<1>1. CASE isCanceled \/ waits = << >>
  <2>1. signals' = signals + 1 /\ waits' = waits /\ pc' = pc
    BY <1>1 DEF sync!Set
  <2> QED
    BY <1>0, <2>1 DEF EventState
<1>2. CASE ~(isCanceled \/ waits = << >>)
  <2>1. waits' = Tail(waits) /\ signals' = signals
    BY <1>2 DEF sync!Set
  <2>2. /\ waits \in Seq(Entry) /\ Len(waits) \in Nat \ {0}
        /\ Tail(waits) \in Seq(Entry) /\ Len(Tail(waits)) = Len(waits) - 1
        /\ \A i \in 1..Len(Tail(waits)) : Tail(waits)[i] = waits[i + 1]
        /\ Head(waits) = waits[1]
    BY <1>2, HeadTailProperties, EmptySeq DEF EventState
  <2>3. \A i, j \in 1..Len(waits') : waits'[i] = Caller /\ waits'[j] = Caller => i = j
    <3> SUFFICES ASSUME NEW i \in 1..Len(waits'), NEW j \in 1..Len(waits'),
                        waits'[i] = Caller, waits'[j] = Caller
                 PROVE  i = j
      OBVIOUS
    <3>1. i \in Nat /\ j \in Nat /\ i + 1 \in 1..Len(waits) /\ j + 1 \in 1..Len(waits)
      BY <2>1, <2>2
    <3>2. waits[i + 1] = Caller /\ waits[j + 1] = Caller
      BY <2>1, <2>2
    <3>3. i + 1 = j + 1
      BY <3>1, <3>2 DEF EventState
    <3> QED
      BY <3>1, <3>3
  <2>4. \A i \in 1..Len(waits') : waits'[i] = Caller => waits[1] # Caller /\ pc[Caller] = "pending"
    <3> SUFFICES ASSUME NEW i \in 1..Len(waits'), waits'[i] = Caller
                 PROVE  waits[1] # Caller /\ pc[Caller] = "pending"
      OBVIOUS
    <3>1. i \in Nat \ {0} /\ i + 1 \in 1..Len(waits) /\ waits[i + 1] = Caller /\ 1 \in 1..Len(waits)
      BY <2>1, <2>2
    <3>2. i + 1 # 1
      BY <3>1
    <3> QED
      BY <3>1, <3>2 DEF EventState
  <2>5. CASE Head(waits) = "canceled"
    <3>1. pc' = pc
      BY <1>2, <2>5 DEF sync!Set
    <3> QED
      BY <1>0, <2>1, <2>2, <2>3, <2>4, <3>1 DEF EventState
  <2>6. CASE Head(waits) # "canceled"
    <3>1. Head(waits) = Caller /\ pc[Caller] = "pending"
      BY <2>2, <2>6 DEF EventState, Entry
    <3>2. pc' = [pc EXCEPT ![Caller] = "completed"]
      BY <1>2, <2>6, <3>1 DEF sync!Set, sync!Goto
    <3>3. pc' \in [{Caller} -> sync!WaiterStates] /\ pc'[Caller] = "completed"
      BY <3>2 DEF EventState, sync!WaiterStates, sync!Outcomes
    <3> QED
      BY <1>0, <2>1, <2>2, <2>3, <2>4, <3>1, <3>3 DEF EventState
  <2> QED
    BY <2>5, <2>6
<1> QED
  BY <1>1, <1>2

\* The cancellation callback only ends the await of the caller.
LEMMA EventCancelAll ==
    ASSUME EventState, sync!CancelAll, signals' = signals,
           pc' \in [{Caller} -> sync!WaiterStates],
           pc[Caller] = "pending" => pc'[Caller] = sync!CanceledPc[Caller]
    PROVE  EventState'
<1>1. waits \in Seq(Entry) /\ Len(waits) \in Nat
  BY DEF EventState
<1>2. waits' = [i \in 1..Len(waits) |-> IF sync!Reached(i) THEN "canceled" ELSE waits[i]]
  BY DEF sync!CancelAll
<1>3. waits' \in Seq(Entry) /\ Len(waits') = Len(waits)
  <2>1. \A i \in 1..Len(waits) : (IF sync!Reached(i) THEN "canceled" ELSE waits[i]) \in Entry
    BY <1>1 DEF Entry
  <2> QED
    BY <1>1, <1>2, <2>1
<1>4. ASSUME NEW i \in 1..Len(waits'), waits'[i] = Caller
      PROVE  i \in 1..Len(waits) /\ waits[i] = Caller /\ ~sync!Reached(i)
  BY <1>2, <1>3, <1>4 DEF Caller
<1>5. ASSUME NEW i \in 1..Len(waits'), waits'[i] = Caller PROVE pc'[Caller] = "pending"
  <2>1. i \in 1..Len(waits) /\ waits[i] = Caller /\ ~sync!Reached(i) /\ pc[Caller] = "pending"
    BY <1>4, <1>5 DEF EventState
  <2>2. ~ \E j \in 1..Len(waits) : waits[j] = Caller /\ sync!Reached(j)
    BY <2>1 DEF EventState
  <2>3. sync!CanceledPc[Caller] = pc[Caller]
    BY <2>2 DEF sync!CanceledPc
  <2> QED
    BY <2>1, <2>3
<1>6. \A i, j \in 1..Len(waits') : waits'[i] = Caller /\ waits'[j] = Caller => i = j
  BY <1>4 DEF EventState
<1> QED
  BY <1>3, <1>5, <1>6 DEF EventState

LEMMA CanceledPcFacts ==
    ASSUME EventState
    PROVE  /\ sync!CanceledPc \in [{Caller} -> sync!WaiterStates]
           /\ sync!CanceledPc[Caller] \in {pc[Caller], "canceled"}
  BY DEF EventState, sync!CanceledPc, sync!WaiterStates, sync!Outcomes

LEMMA EventCallback ==
    ASSUME EventState, sync!RunCallback
    PROVE  EventState' /\ signals' = signals /\ resetPc' = resetPc /\ pc'[Caller] \in {pc[Caller], "canceled"}
<1>1. sync!CancelAll /\ pc' = sync!CanceledPc /\ signals' = signals /\ resetPc' = resetPc
  BY DEF sync!RunCallback
<1> QED
  BY <1>1, CanceledPcFacts, EventCancelAll

\* The steps of WaitAsync: only a banked signal completes the await.
LEMMA EventWait ==
    ASSUME EventState,
           \/ sync!WaitAsync(Caller, session) \/ sync!CheckToken(Caller) \/ sync!StoreToken(Caller)
           \/ sync!RegisterToken(Caller) \/ sync!VerifyToken(Caller) \/ sync!EnterWait(Caller)
    PROVE  /\ EventState' /\ resetPc' = resetPc
           /\ pc[Caller] # "completed"
           /\ \/ signals' <= signals /\ pc'[Caller] # "completed"
              \/ signals > 0 /\ signals' = signals - 1 /\ pc'[Caller] = "completed"
<1>1. ASSUME NEW s \in sync!WaiterStates, s # "completed", pc' = [pc EXCEPT ![Caller] = s],
             pc[Caller] \in {"idle", "check", "store", "register", "verify"},
             signals' = signals, waits' = waits, resetPc' = resetPc
      PROVE  /\ EventState' /\ resetPc' = resetPc
             /\ pc[Caller] # "completed" /\ signals' <= signals /\ pc'[Caller] # "completed"
  BY <1>1 DEF EventState
<1> USE DEF sync!WaiterStates, sync!Outcomes, sync!Goto, sync!fields, sync!tokenVars, sync!counters
<1>2. CASE sync!WaitAsync(Caller, session)
  BY <1>1, <1>2 DEF sync!WaitAsync
<1>3. CASE sync!CheckToken(Caller)
  BY <1>1, <1>3 DEF sync!CheckToken
<1>4. CASE sync!StoreToken(Caller)
  BY <1>1, <1>4 DEF sync!StoreToken
<1>5. CASE sync!RegisterToken(Caller)
  <2>1. pc[Caller] = "register" /\ signals' = signals /\ resetPc' = resetPc
    BY <1>5 DEF sync!RegisterToken
  <2>2. CASE tok[Caller] \in fired
    <3>1. PICK s \in {"thrown", "verify"} : pc' = [sync!CanceledPc EXCEPT ![Caller] = s]
      BY <1>5, <2>2 DEF sync!RegisterToken
    <3>2. sync!CancelAll
      BY <1>5, <2>2 DEF sync!RegisterToken
    <3>3. pc' \in [{Caller} -> sync!WaiterStates] /\ pc'[Caller] = s
      BY <3>1, CanceledPcFacts
    <3>4. EventState'
      BY <2>1, <3>2, <3>3, EventCancelAll DEF EventState
    <3> QED
      BY <2>1, <3>3, <3>4 DEF EventState
  <2>3. CASE tok[Caller] \notin fired
    BY <1>1, <1>5, <2>1, <2>3 DEF sync!RegisterToken
  <2> QED
    BY <2>2, <2>3
<1>6. CASE sync!VerifyToken(Caller)
  BY <1>1, <1>6 DEF sync!VerifyToken
<1>7. CASE sync!EnterWait(Caller)
  <2>0. /\ pc[Caller] = "enter" /\ resetPc' = resetPc
        /\ waits \in Seq(Entry) /\ Len(waits) \in Nat /\ Caller \in Entry
    BY <1>7 DEF sync!EnterWait, EventState, Entry
  <2>1. CASE signals > 0
    <3>1. signals' = signals - 1 /\ waits' = waits /\ signals' \in Nat
      BY <1>7, <2>1 DEF sync!EnterWait, EventState
    <3>2. PICK s \in {"completed", "canceled", "nullTask"} : pc' = [pc EXCEPT ![Caller] = s]
      BY <1>7, <2>1 DEF sync!EnterWait
    <3> QED
      BY <2>0, <2>1, <3>1, <3>2 DEF EventState
  <2>2. CASE ~(signals > 0)
    <3>1. /\ signals' = signals /\ waits' = Append(waits, Caller)
          /\ pc' = [pc EXCEPT ![Caller] = "pending"]
      BY <1>7, <2>2 DEF sync!EnterWait
    <3>2. pc' \in [{Caller} -> sync!WaiterStates] /\ pc'[Caller] = "pending"
      BY <3>1 DEF EventState
    <3>3. /\ waits' \in Seq(Entry) /\ Len(waits') = Len(waits) + 1
          /\ \A i \in 1..Len(waits) : waits'[i] = waits[i]
      BY <2>0, <3>1, AppendProperties
    <3>4. \A i \in 1..Len(waits) : waits[i] # Caller
      BY <2>0 DEF EventState
    <3>5. \A i \in 1..Len(waits') : waits'[i] = Caller => i = Len(waits')
      BY <2>0, <3>3, <3>4
    <3>6. EventState'
      BY <2>0, <3>1, <3>2, <3>3, <3>5 DEF EventState
    <3> QED
      BY <2>0, <3>1, <3>2, <3>6 DEF EventState
  <2> QED
    BY <2>1, <2>2
<1> QED
  BY <1>2, <1>3, <1>4, <1>5, <1>6, <1>7

LEMMA EventResume ==
    ASSUME EventState, sync!Resume(Caller)
    PROVE  /\ EventState' /\ signals' = signals /\ resetPc' = resetPc
           /\ pc[Caller] # "pending" /\ pc'[Caller] = "idle"
  BY DEF EventState, sync!Resume, sync!Goto, sync!fields, sync!tokenVars, sync!Outcomes, sync!WaiterStates

-----------------------------------------------------------------------------
(* A banked signal, and a completed await, stands for a queued message *)

Runs == [from : Nat, to : Nat]
PipeTypes ==
    /\ filled \in 0..Len(Stream) /\ advanced \in Nat /\ seen \in 0..Len(Stream)
    /\ pos \in Nat /\ begun \in Nat /\ left \in Nat
    /\ queue \in Seq(Runs) /\ delivered \in Seq(Runs)

\* The caller waits only in the loop, and resets the event only between two loops.
TaskState ==
    /\ mainPc # "await" => pc[Caller] = "idle"
    /\ mainPc \in {"idle", "reset"} => producePc = "done"
    /\ resetPc # "idle" => mainPc = "reset"
    /\ mainPc = "reset" /\ resetPc = "idle" => signals = 0

Woken == IF pc[Caller] = "completed" \/ mainPc = "dequeue" THEN 1 ELSE 0
Owed == IF producePc = "set" THEN 1 ELSE 0
\* A drained queue is the exception: its signals are still banked and go with the next Reset.
SignalPerMessage ==
    mainPc \in {"wait", "await", "dequeue"} => Len(queue) >= signals + Woken + Owed

SpinInv == EventState /\ PipeTypes /\ TaskState /\ SignalPerMessage

LEMMA ConsumeFacts ==
    ASSUME PipeTypes, queue # << >>, Consume
    PROVE  /\ queue' \in Seq(Runs) /\ Len(queue) \in Nat \ {0} /\ Len(queue') = Len(queue) - 1
           /\ \A i \in 1..Len(queue') : queue'[i] = queue[i + 1]
           /\ delivered' \in Seq(Runs) /\ Len(delivered) \in Nat
           /\ Len(delivered') = Len(delivered) + 1
           /\ \A i \in 1..Len(delivered) : delivered'[i] = delivered[i]
           /\ delivered'[Len(delivered) + 1] = queue[1]
<1>1. queue \in Seq(Runs) /\ delivered \in Seq(Runs)
  BY DEF PipeTypes
<1>2. /\ Len(queue) \in Nat \ {0} /\ Tail(queue) \in Seq(Runs) /\ Len(Tail(queue)) = Len(queue) - 1
      /\ \A i \in 1..Len(Tail(queue)) : Tail(queue)[i] = queue[i + 1]
      /\ Head(queue) = queue[1] /\ Head(queue) \in Runs
  BY <1>1, HeadTailProperties, EmptySeq
<1>3. delivered' = Append(delivered, Head(queue)) /\ queue' = Tail(queue)
  BY DEF Consume
<1> QED
  BY <1>1, <1>2, <1>3, AppendProperties

\* The pieces the buffer holds, and the length that a line of it gives.
LEMMA PieceFacts ==
    ASSUME PipeTypes, NEW q \in (pos + 1)..seen
    PROVE  /\ q \in Nat /\ q <= seen /\ pos < q /\ Stream[q] \in Piece
           /\ Length(q) \in Nat \cup {Chunked}
           /\ Stream[q].what # "blank" => Length(q) \in Nat
<1>1. q \in 1..Len(Stream) /\ q \in Nat /\ q <= seen /\ pos < q
  BY StreamAssumption DEF PipeTypes
<1>2. Stream[q] \in Piece
  BY <1>1, StreamAssumption
<1> QED
  BY <1>1, <1>2 DEF Piece, Length

\* Complete queues the run of pieces from the one after `begun' to `last'.
LEMMA CompleteFacts ==
    ASSUME PipeTypes, NEW last \in Nat, NEW consumed \in Nat, Complete(last, consumed)
    PROVE  /\ queue' \in Seq(Runs) /\ Len(queue) \in Nat /\ Len(queue') = Len(queue) + 1
           /\ \A i \in 1..Len(queue) : queue'[i] = queue[i]
           /\ queue'[Len(queue) + 1] = [from |-> begun + 1, to |-> last]
           /\ pos' = consumed /\ begun' = consumed /\ mode' = "fields" /\ left' = 0
           /\ producePc' = "set"
<1>1. [from |-> begun + 1, to |-> last] \in Runs /\ queue \in Seq(Runs)
  BY DEF PipeTypes, Runs
<1> QED
  BY <1>1, AppendProperties DEF Complete

Completed ==
    /\ producePc' = "set" /\ queue' \in Seq(Runs) /\ Len(queue') = Len(queue) + 1

\* Whatever Push does, it queues one message and goes on to Set, or queues none.
LEMMA PushFacts ==
    ASSUME PipeTypes, Push
    PROVE  /\ producePc = "push" /\ PipeTypes'
           /\ UNCHANGED <<syncVars, session, pipeVars, delivered, fillPc, mainPc>>
           /\ Len(queue) \in Nat
           /\ \/ Completed
              \/ producePc' \in {"push", "redirect", "spin", "done"} /\ queue' = queue
<1> DEFINE Types == pos' \in Nat /\ begun' \in Nat /\ left' \in Nat
           Stays == producePc' \in {"push", "redirect", "spin", "done"} /\ queue' = queue
<1>0. /\ producePc = "push" /\ UNCHANGED <<syncVars, session, pipeVars, delivered, fillPc, mainPc>>
      /\ Len(queue) \in Nat /\ pos \in Nat /\ begun \in Nat /\ left \in Nat /\ seen \in Nat
  BY StreamAssumption DEF Push, PipeTypes
<1>1. ASSUME NEW last \in Nat, NEW consumed \in Nat, Complete(last, consumed)
      PROVE  Types /\ Completed
  <2>1. /\ pos' = consumed /\ begun' = consumed /\ left' = 0 /\ producePc' = "set"
        /\ queue' \in Seq(Runs) /\ Len(queue') = Len(queue) + 1
    BY <1>1, CompleteFacts
  <2> QED
    BY <2>1 DEF Completed
<1>2. ASSUME NEW q \in (pos + 1)..seen, ParseLine(q) \/ EndHead(q) PROVE Types /\ (Completed \/ Stays)
  <2>1. q \in Nat /\ Length(q) \in Nat \cup {Chunked}
    BY PieceFacts
  <2>2. CASE ParseLine(q)
    BY <1>0, <2>1, <2>2 DEF ParseLine, current
  <2>3. CASE EndHead(q) /\ Length(q) = 0
    <3>1. Complete(q, q)
      BY <2>3 DEF EndHead
    <3> QED
      BY <1>1, <2>1, <3>1
  <2>4. CASE EndHead(q) /\ Length(q) # 0
    <3>1. pos' = q /\ left' \in Nat /\ UNCHANGED <<begun, queue, producePc>>
      BY <2>1, <2>4 DEF EndHead
    <3> QED
      BY <1>0, <2>1, <3>1
  <2> QED
    BY <1>2, <2>2, <2>3, <2>4
<1>3. ASSUME NEW q \in (pos + 1)..seen, SkipLine(q) \/ TakeChunk(q) \/ BeginChunk(q) \/ EndChunks(q)
      PROVE  Types /\ (Completed \/ Stays)
  <2>1. q \in Nat /\ q + 1 \in Nat /\ q <= seen
    BY PieceFacts
  <2>2. CASE SkipLine(q)
    BY <1>0, <2>1, <2>2 DEF SkipLine, current
  <2>3. CASE TakeChunk(q)
    <3>1. pos' = q + Length(q) /\ Length(q) \in Nat /\ UNCHANGED <<current, queue, producePc>>
      BY <1>0, <2>1, <2>3 DEF TakeChunk
    <3> QED
      BY <1>0, <2>1, <3>1 DEF current
  <2>4. CASE BeginChunk(q)
    <3>1. pos' = seen /\ left' = Length(q) - (seen - q) /\ Length(q) > seen - q /\ Length(q) \in Nat
          /\ PushEnds /\ UNCHANGED begun
      BY <2>4, PieceFacts DEF BeginChunk, Empty
    <3> QED
      BY <1>0, <2>1, <3>1 DEF PushEnds
  <2>5. CASE EndChunks(q)
    <3>1. Complete(q, q + 1) \/ Complete(q + 1, q + 1)
      BY <2>5 DEF EndChunks
    <3> QED
      BY <1>1, <2>1, <3>1
  <2> QED
    BY <1>3, <2>2, <2>3, <2>4, <2>5
<1>4. ASSUME FillBody PROVE Types /\ (Completed \/ Stays)
  <2>1. CASE seen - pos > left
    BY <1>0, <1>4, <2>1 DEF FillBody, PushThrows, current
  <2>2. CASE seen - pos = left
    BY <1>0, <1>1, <1>4, <2>2 DEF FillBody
  <2>3. CASE seen - pos < left
    BY <1>0, <1>4, <2>3 DEF FillBody, PushEnds
  <2> QED
    BY <1>0, <2>1, <2>2, <2>3
<1>5. ASSUME ParseLinesEnds \/ ParseLinesThrows \/ FillChunk \/ ChunksEnd PROVE Types /\ Stays
  BY <1>0, <1>5 DEF ParseLinesEnds, ParseLinesThrows, FillChunk, ChunksEnd, PushEnds, PushThrows, current
<1>6. Types /\ (Completed \/ Stays)
  BY <1>2, <1>3, <1>4, <1>5 DEF Push
<1>7. PipeTypes'
  BY <1>0, <1>6 DEF PipeTypes, pipeVars, Completed
<1> QED
  BY <1>0, <1>6, <1>7

LEMMA SpinInit == Init => SpinInv
<1> SUFFICES ASSUME Init PROVE SpinInv
  OBVIOUS
<1>1. EventState
  BY DEF Init, sync!Init, EventState, sync!WaiterStates
<1>2. PipeTypes /\ TaskState /\ SignalPerMessage
  BY DEF Init, sync!Init, PipeTypes, TaskState, SignalPerMessage
<1> QED
  BY <1>1, <1>2 DEF SpinInv

LEMMA SpinStep == SpinInv /\ [Next]_vars => SpinInv'
<1> SUFFICES ASSUME SpinInv, [Next]_vars PROVE SpinInv'
  OBVIOUS
<1>0. EventState /\ PipeTypes /\ TaskState /\ SignalPerMessage /\ signals \in Nat /\ Len(queue) \in Nat
  BY DEF SpinInv, EventState, PipeTypes
<1> USE DEF pipeVars, current, parserVars, pcs
<1>1. ASSUME UNCHANGED <<waits, signals, pc>> PROVE EventState'
  BY <1>0, <1>1 DEF EventState
<1>2. ASSUME UNCHANGED <<parserVars, queue, delivered>> PROVE PipeTypes'
  BY <1>0, <1>2 DEF PipeTypes
<1>3. CASE FillPipe \/ FillStops \/ FillFails \/ ProduceRead \/ ReadThrows \/ ProduceStops
           \/ Redirect \/ RedirectFails \/ Canceling \/ WhenAll
  <2> DEFINE Pipe == /\ filled' \in 0..Len(Stream) /\ advanced' \in Nat /\ seen' \in 0..Len(Stream)
                     /\ pos' \in Nat
             Event == UNCHANGED <<waits, signals, pc, resetPc, queue, delivered, begun, left>>
             Tasks == /\ producePc' = producePc \/ ("set" \notin {producePc, producePc'} /\ producePc # "done")
                      /\ \/ mainPc' = mainPc
                         \/ mainPc = "canceling" /\ mainPc' = "out"
                         \/ mainPc = "out" /\ mainPc' = "idle" /\ producePc' = "done"
  <2>1. ASSUME FillPipe PROVE Pipe /\ Event /\ Tasks
    <3>1. filled' = filled + 1 /\ filled < Len(Stream) /\ filled \in 0..Len(Stream) /\ Len(Stream) \in Nat
      BY <1>0, <2>1, StreamAssumption DEF FillPipe, PipeTypes
    <3>2. UNCHANGED <<syncVars, advanced, seen, pos, current, queue, delivered, producePc, mainPc>>
      BY <2>1 DEF FillPipe
    <3> QED
      <4>1. filled' \in 0..Len(Stream)
        BY <3>1
      <4> QED
        BY <1>0, <3>2, <4>1 DEF PipeTypes, syncVars
  <2>2. ASSUME FillStops \/ FillFails \/ ReadThrows \/ ProduceStops \/ RedirectFails \/ Canceling \/ WhenAll
       PROVE Pipe /\ Event /\ Tasks
    <3>1. UNCHANGED <<syncVars, parserVars, queue, delivered>>
      BY <2>2 DEF FillStops, FillFails, ReadThrows, ProduceStops, RedirectFails, Canceling, WhenAll
    <3>2. Tasks
      BY <2>2 DEF FillStops, FillFails, ReadThrows, ProduceStops, RedirectFails, Canceling, WhenAll
    <3>3. Pipe
      BY <1>0, <3>1 DEF PipeTypes
    <3>4. Event
      BY <3>1 DEF syncVars
    <3> QED
      BY <3>2, <3>3, <3>4
  <2>3. ASSUME ProduceRead PROVE Pipe /\ Event /\ Tasks
    BY <1>0, <2>3 DEF ProduceRead, PipeTypes, syncVars
  <2>4. ASSUME Redirect PROVE Pipe /\ Event /\ Tasks
    BY <1>0, <2>4 DEF Redirect, PipeTypes, syncVars
  <2>5. Pipe /\ Event /\ Tasks
    BY <1>3, <2>1, <2>2, <2>3, <2>4
  <2>6. EventState' /\ PipeTypes'
    BY <1>0, <1>1, <2>5 DEF PipeTypes
  <2>7. TaskState'
    BY <1>0, <2>5 DEF TaskState
  <2>8. SignalPerMessage'
    BY <1>0, <2>5 DEF SignalPerMessage, Woken, Owed
  <2> QED
    BY <2>6, <2>7, <2>8 DEF SpinInv
<1>4. CASE Push
  <2>1. UNCHANGED <<waits, signals, pc, resetPc>> /\ mainPc' = mainPc
    BY <1>0, <1>4, PushFacts DEF syncVars
  <2>2. EventState' /\ PipeTypes'
    BY <1>0, <1>1, <1>4, <2>1, PushFacts
  <2>3. TaskState'
    BY <1>0, <1>4, <2>1, PushFacts DEF TaskState
  <2>4. Len(queue') >= Len(queue) + Owed' /\ Owed = 0 /\ Woken' = Woken /\ Woken \in Nat
    BY <1>0, <1>4, <2>1, PushFacts DEF Owed, Woken, Completed
  <2>5. SignalPerMessage'
    BY <1>0, <2>1, <2>4 DEF SignalPerMessage, Owed
  <2> QED
    BY <2>2, <2>3, <2>5 DEF SpinInv
<1>5. CASE SyncSet
  <2>1. sync!Set /\ producePc = "set" /\ producePc' = "redirect" /\ UNCHANGED <<parserVars, queue, delivered, mainPc>>
    BY <1>5 DEF SyncSet
  <2>2. EventState' /\ PipeTypes' /\ resetPc' = resetPc
    BY <1>0, <1>2, <2>1, EventSet
  <2>3. TaskState'
    BY <1>0, <2>1, <2>2, EventSet DEF TaskState
  <2>4. SignalPerMessage'
    BY <1>0, <2>1, <2>2, EventSet DEF SignalPerMessage, Woken, Owed, TaskState, EventState
  <2> QED
    BY <2>2, <2>3, <2>4 DEF SpinInv
<1>6. CASE SyncReset
  <2>1. /\ UNCHANGED <<waits, pc>> /\ signals' \in {signals, 0} /\ mainPc' = "reset"
        /\ mainPc \in {"idle", "reset"} /\ UNCHANGED <<parserVars, queue, delivered, producePc>>
        /\ resetPc' = "idle" => signals' = 0
    BY <1>6 DEF SyncReset, sync!ResetCached, sync!ResetToken, sync!ResetFlag, sync!ResetCheck,
                sync!ResetSignals, sync!fields, sync!counters
  <2>2. EventState' /\ PipeTypes'
    BY <1>0, <1>2, <2>1 DEF EventState
  <2>3. TaskState'
    BY <1>0, <2>1 DEF TaskState
  <2>4. SignalPerMessage'
    BY <2>1 DEF SignalPerMessage
  <2> QED
    BY <2>2, <2>3, <2>4 DEF SpinInv
<1>7. CASE Started
  <2>1. UNCHANGED <<waits, signals, pc, resetPc, pipeVars, queue, delivered>>
    BY <1>7 DEF Started, syncVars
  <2>2. pos' \in {pos, advanced} /\ begun' \in {begun, advanced} /\ left' \in {left, 0}
    BY <1>7 DEF Started
  <2>3. PipeTypes'
    BY <1>0, <2>1, <2>2 DEF PipeTypes
  <2>4. TaskState'
    BY <1>0, <1>7, <2>1 DEF TaskState, Started
  <2>5. SignalPerMessage'
    BY <1>0, <1>7, <2>1 DEF SignalPerMessage, TaskState, Started, Woken, Owed
  <2> QED
    BY <1>1, <2>1, <2>3, <2>4, <2>5 DEF SpinInv
<1>8. CASE SyncWait
  <2>1. /\ \/ sync!WaitAsync(Caller, session) \/ sync!CheckToken(Caller) \/ sync!StoreToken(Caller)
           \/ sync!RegisterToken(Caller) \/ sync!VerifyToken(Caller) \/ sync!EnterWait(Caller)
        /\ mainPc \in {"wait", "await"} /\ mainPc' = "await"
        /\ UNCHANGED <<parserVars, queue, delivered, producePc>>
    BY <1>8 DEF SyncWait
  <2>2. /\ EventState' /\ resetPc' = resetPc /\ pc[Caller] # "completed" /\ signals' \in Nat
        /\ \/ signals' <= signals /\ pc'[Caller] # "completed"
           \/ signals > 0 /\ signals' = signals - 1 /\ pc'[Caller] = "completed"
    <3>1. /\ EventState' /\ resetPc' = resetPc /\ pc[Caller] # "completed"
          /\ \/ signals' <= signals /\ pc'[Caller] # "completed"
             \/ signals > 0 /\ signals' = signals - 1 /\ pc'[Caller] = "completed"
      BY <1>0, <2>1, EventWait
    <3> QED
      BY <3>1 DEF EventState
  <2>3. TaskState'
    BY <1>0, <2>1, <2>2 DEF TaskState
  <2>4. SignalPerMessage'
    BY <1>0, <2>1, <2>2 DEF SignalPerMessage, Woken, Owed
  <2> QED
    BY <1>2, <2>1, <2>2, <2>3, <2>4 DEF SpinInv
<1>9. CASE Awaited
  <2>1. /\ sync!Resume(Caller) /\ mainPc = "await" /\ UNCHANGED <<parserVars, queue, delivered, producePc>>
        /\ mainPc' \in {"dequeue", "drain", "failed"}
        /\ mainPc' = "dequeue" => pc[Caller] = "completed"
    BY <1>9 DEF Awaited
  <2>2. EventState' /\ signals' = signals /\ resetPc' = resetPc /\ pc'[Caller] = "idle"
    BY <1>0, <2>1, EventResume
  <2>3. TaskState'
    BY <1>0, <2>1, <2>2 DEF TaskState
  <2>4. SignalPerMessage'
    BY <1>0, <2>1, <2>2 DEF SignalPerMessage, Woken, Owed
  <2> QED
    BY <1>2, <2>1, <2>2, <2>3, <2>4 DEF SpinInv
<1>10. CASE Dequeue
  <2>1. /\ mainPc = "dequeue" /\ queue # << >> /\ Consume /\ mainPc' \in {"canceling", "out", "wait"}
        /\ UNCHANGED <<waits, signals, pc, resetPc, parserVars, producePc>>
    BY <1>10 DEF Dequeue, sync!CancelToken, sync!fields, syncVars
  <2>2. queue' \in Seq(Runs) /\ delivered' \in Seq(Runs) /\ Len(queue') = Len(queue) - 1
    BY <1>0, <2>1, ConsumeFacts
  <2>3. EventState' /\ PipeTypes'
    BY <1>0, <1>1, <2>1, <2>2 DEF PipeTypes
  <2>4. TaskState'
    BY <1>0, <2>1 DEF TaskState
  <2>5. SignalPerMessage'
    BY <1>0, <2>1, <2>2 DEF SignalPerMessage, Woken, Owed, TaskState
  <2> QED
    BY <2>3, <2>4, <2>5 DEF SpinInv
<1>11. CASE Drain
  <2>1. /\ mainPc = "drain" /\ mainPc' \in {"drain", "out"}
        /\ UNCHANGED <<waits, signals, pc, resetPc, parserVars, producePc>>
        /\ UNCHANGED <<queue, delivered>> \/ (queue # << >> /\ Consume)
    BY <1>11 DEF Drain, syncVars
  <2>2. queue' \in Seq(Runs) /\ delivered' \in Seq(Runs)
    BY <1>0, <2>1, ConsumeFacts DEF PipeTypes
  <2>3. EventState' /\ PipeTypes'
    BY <1>0, <1>1, <2>1, <2>2 DEF PipeTypes
  <2>4. TaskState' /\ SignalPerMessage'
    BY <1>0, <2>1 DEF TaskState, SignalPerMessage
  <2> QED
    BY <2>3, <2>4 DEF SpinInv
<1>12. CASE CancelFromOutside
  <2>1. UNCHANGED <<waits, signals, pc, resetPc, parserVars, queue, delivered, pcs>>
    BY <1>12 DEF CancelFromOutside, sync!CancelToken, sync!fields
  <2> QED
    BY <1>0, <1>1, <1>2, <2>1 DEF SpinInv, TaskState, SignalPerMessage, Woken, Owed
<1>13. CASE Callback
  <2>1. sync!RunCallback /\ UNCHANGED <<parserVars, queue, delivered, pcs>>
    BY <1>13 DEF Callback
  <2>2. EventState' /\ signals' = signals /\ resetPc' = resetPc /\ pc'[Caller] \in {pc[Caller], "canceled"}
    BY <1>0, <2>1, EventCallback
  <2>3. mainPc # "await" => pc'[Caller] = "idle"
    <3>1. mainPc # "await" => pc[Caller] # "pending"
      BY <1>0 DEF TaskState
    <3>2. pc[Caller] # "pending" => pc'[Caller] = pc[Caller]
      BY <1>0, <2>1 DEF sync!RunCallback, sync!CanceledPc, EventState
    <3> QED
      BY <1>0, <3>1, <3>2 DEF TaskState
  <2>4. TaskState'
    BY <1>0, <2>1, <2>2, <2>3 DEF TaskState
  <2>5. SignalPerMessage'
    BY <1>0, <2>1, <2>2 DEF SignalPerMessage, Woken, Owed
  <2> QED
    BY <1>2, <2>1, <2>2, <2>4, <2>5 DEF SpinInv
<1>14. CASE UNCHANGED vars
  <2>1. UNCHANGED <<waits, signals, pc, resetPc, parserVars, queue, delivered, pcs>>
    BY <1>14 DEF vars, syncVars
  <2> QED
    BY <1>0, <1>1, <1>2, <2>1 DEF SpinInv, TaskState, SignalPerMessage, Woken, Owed
<1> QED
  BY <1>3, <1>4, <1>5, <1>6, <1>7, <1>8, <1>9, <1>10, <1>11, <1>12, <1>13, <1>14
  DEF Next, Fill, Produce, Main

LEMMA SpinInvariant == Spec => []SpinInv
  BY SpinInit, SpinStep, PTL DEF Spec

\* The loop `while (!queue.TryDequeue(out msg)) { }' of ParseMessagesAsync never spins: each
\* completed await of `sync' finds a message, in every call and whatever is canceled when.
THEOREM SpinFindsMessageHolds == Spec => []SpinFindsMessage
<1>1. SpinInv => SpinFindsMessage
  <2> SUFFICES ASSUME SpinInv, mainPc = "dequeue" PROVE queue # << >>
    BY DEF SpinFindsMessage
  <2>1. Len(queue) >= 1
    BY DEF SpinInv, SignalPerMessage, Woken, Owed, EventState, PipeTypes
  <2> QED
    BY <2>1
<1> QED
  BY <1>1, SpinInvariant, PTL

-----------------------------------------------------------------------------
(* The first call cuts the source into its messages *)

\* The messages cut so far, delivered or queued; the next one begins behind them.
Cut == Len(delivered) + Len(queue)
RunOf(i) == IF i <= Len(delivered) THEN delivered[i] ELSE queue[i - Len(delivered)]
Ended == Overrun \/ producePc = "done"
Whole(i, run) ==
    /\ run.from = End[i - 1] + 1
    /\ run.to = End[i] \/ (run.to < End[i] /\ i = Cut /\ Ended)
InOrder == \A i \in 1..Cut : Whole(i, RunOf(i))

\* The rest of message Cut + 1 from a place within its chunks, after piece p.
InChunks(p) == /\ p < End[Cut + 1] - 1
               /\ \E blank \in (begun + 1)..p : Stream[blank].what = "blank" /\ Stream[blank].len = Chunked
\* Where the HttpObject is in the message it parses.
AtPiece ==
    /\ begun = End[Cut] /\ Cut <= Messages /\ begun <= pos
    /\ mode # "fields" => Cut < Messages
    /\ \/ mode = "fields" /\ \A p \in (begun + 1)..pos : Stream[p].what \notin Empty
       \/ mode = "body" /\ pos + left = End[Cut + 1]
       \/ mode = "chunks" /\ InChunks(pos)
       \/ mode = "chunk" /\ InChunks(pos + left)
Parsing == producePc \in {"loop", "push", "set", "redirect"} /\ ~Overrun
Position ==
    /\ Parsing => AtPiece
    /\ producePc = "loop" => pos = advanced
    /\ producePc = "push" => pos <= seen
\* A new HttpObject is rented at the start of a call: the first one finds the stream untouched.
FirstStart ==
    /\ session \in Nat
    /\ session = 0 => mainPc = "idle"
    /\ session = 0 \/ (session = 1 /\ mainPc = "reset") => Cut = 0 /\ advanced = 0
OrderInv == SpinInv /\ FirstStart /\ (session <= 1 => Position /\ InOrder)

\* The grammar of the message the position is in.
LEMMA MessageFacts ==
    ASSUME NEW m \in Nat, m < Messages
    PROVE  /\ End[m] \in Nat /\ End[m + 1] \in Nat /\ End[m] < End[m + 1]
           /\ End[m + 1] <= Len(Stream) /\ Len(Stream) \in Nat
           /\ IsMessage(End[m] + 1, End[m + 1])
<1>1. m + 1 \in 1..Messages /\ m \in 0..Messages /\ m + 1 \in 0..Messages /\ (m + 1) - 1 = m
  BY StreamAssumption
<1>2. End[m] \in 0..Len(Stream) /\ End[m + 1] \in 0..Len(Stream) /\ Len(Stream) \in Nat
  BY <1>1, StreamAssumption
<1>3. End[(m + 1) - 1] < End[m + 1] /\ IsMessage(End[(m + 1) - 1] + 1, End[m + 1])
  BY <1>1, StreamAssumption
<1> QED
  BY <1>1, <1>2, <1>3

\* The next line of a head is in the head, up to its empty line.
LEMMA HeadLine ==
    ASSUME PipeTypes, AtPiece, mode = "fields", Cut \in Nat, NEW q \in (pos + 1)..seen, LineTo(q)
    PROVE  /\ Cut < Messages
           /\ \/ Stream[q].what = "line"
              \/ /\ Stream[q].what = "blank" /\ Length(q) = Stream[q].len
                 /\ q \in (begun + 1)..End[Cut + 1]
                 /\ \/ Length(q) \in Nat /\ End[Cut + 1] = q + Length(q)
                    \/ Length(q) = Chunked /\ q < End[Cut + 1] - 1
<1>1. q \in Nat /\ q <= seen /\ pos < q /\ seen \in 0..Len(Stream) /\ Len(Stream) \in Nat
  BY PieceFacts, StreamAssumption DEF PipeTypes
<1>2. /\ begun = End[Cut] /\ begun <= pos /\ begun \in Nat /\ pos \in Nat /\ Cut <= Messages
      /\ \A p \in (begun + 1)..pos : Stream[p].what \notin Empty
  BY DEF AtPiece, PipeTypes
<1>3. Cut < Messages
  <2>1. Cut = Messages => begun = Len(Stream)
    BY <1>2, StreamAssumption
  <2> QED
    BY <1>1, <1>2, <2>1, StreamAssumption
<1>4. PICK blank \in (begun + 1)..End[Cut + 1] :
        /\ Stream[blank].what = "blank"
        /\ \A p \in (begun + 1)..(blank - 1) : Stream[p].what \in {"part", "line"}
        /\ \/ Stream[blank].len \in Nat /\ End[Cut + 1] = blank + Stream[blank].len
           \/ Stream[blank].len = Chunked /\ blank < End[Cut + 1] - 1
  BY <1>2, <1>3, MessageFacts DEF IsMessage
<1>5. blank \in Nat /\ begun < blank /\ blank <= End[Cut + 1] /\ End[Cut + 1] \in Nat
  BY <1>2, <1>3, <1>4, MessageFacts
<1>6. pos < blank
  BY <1>2, <1>4, <1>5 DEF Empty
<1>7. q <= blank
  <2>1. blank < q => blank \in (pos + 1)..(q - 1)
    BY <1>1, <1>2, <1>5, <1>6
  <2> QED
    BY <1>1, <1>4, <1>5, <2>1 DEF LineTo, LineFeeds
<1>8. CASE q = blank
  BY <1>3, <1>4, <1>8 DEF Length
<1>9. CASE q < blank
  <2>1. q \in (begun + 1)..(blank - 1)
    BY <1>1, <1>2, <1>5, <1>9
  <2> QED
    BY <1>3, <1>4, <2>1 DEF LineTo, LineFeeds
<1> QED
  BY <1>1, <1>5, <1>7, <1>8, <1>9

\* The next line of a chunked body: a CRLF, a size line with its chunk, or the zero line.
LEMMA BodyLine ==
    ASSUME PipeTypes, AtPiece, mode = "chunks", Cut \in Nat, NEW q \in (pos + 1)..seen, LineTo(q)
    PROVE  \/ Stream[q].what = "crlf" /\ q < End[Cut + 1] - 1
           \/ /\ Stream[q].what = "size" /\ q < End[Cut + 1] - 1
              /\ Length(q) \in Nat \ {0} /\ q + Length(q) < End[Cut + 1] - 1
           \/ Stream[q].what = "zero" /\ Length(q) = 0 /\ q = End[Cut + 1] - 1
<1>1. q \in Nat /\ q <= seen /\ pos < q /\ Stream[q] \in Piece
  BY PieceFacts
<1>2. /\ begun = End[Cut] /\ begun <= pos /\ begun \in Nat /\ pos \in Nat /\ Cut < Messages
      /\ InChunks(pos)
  BY DEF AtPiece, PipeTypes
<1> DEFINE last == End[Cut + 1]
<1>3. PICK b \in (begun + 1)..pos : Stream[b].what = "blank" /\ Stream[b].len = Chunked
  BY <1>2 DEF InChunks
<1>4. PICK blank \in (begun + 1)..last :
        /\ Stream[blank].what = "blank"
        /\ \A p \in (begun + 1)..(blank - 1) : Stream[p].what \in {"part", "line"}
        /\ \/ /\ Stream[blank].len \in Nat /\ last = blank + Stream[blank].len
              /\ \A p \in (blank + 1)..last : Stream[p].what = "body"
           \/ /\ Stream[blank].len = Chunked
              /\ blank < last - 1
              /\ Stream[last - 1].what = "zero" /\ Stream[last].what = "end"
              /\ \A p \in (blank + 1)..(last - 2) :
                    /\ Stream[p].what \in {"part", "size", "data", "crlf"}
                    /\ Stream[p].what = "size" => Stream[p].len > 0 /\ p + Stream[p].len < last - 1
  <2>1. IsMessage(begun + 1, last)
    BY <1>2, MessageFacts
  <2> QED
    BY <2>1 DEF IsMessage
<1>5. /\ blank \in Nat /\ begun < blank /\ b \in Nat /\ begun < b /\ b <= pos
      /\ last \in Nat /\ pos < last - 1
  <2>1. last \in Nat
    BY <1>2, MessageFacts
  <2>2. pos < last - 1
    BY <1>2 DEF InChunks
  <2> HIDE DEF last
  <2>3. blank \in Nat /\ begun < blank /\ b \in Nat /\ begun < b /\ b <= pos
    BY <1>2, <1>3, <1>4, <2>1
  <2> QED
    BY <2>1, <2>2, <2>3
<1>6. blank <= b
  BY <1>2, <1>3, <1>4, <1>5
<1>7. CASE Stream[blank].len = Chunked
  <2>1. /\ Stream[last - 1].what = "zero"
        /\ \A p \in (blank + 1)..(last - 2) :
              /\ Stream[p].what \in {"part", "size", "data", "crlf"}
              /\ Stream[p].what = "size" => Stream[p].len > 0 /\ p + Stream[p].len < last - 1
    BY <1>4, <1>7 DEF Chunked
  <2>2. q <= last - 1
    <3>1. last - 1 < q => last - 1 \in (pos + 1)..(q - 1)
      BY <1>1, <1>2, <1>5
    <3> QED
      BY <1>1, <1>5, <2>1, <3>1 DEF LineTo, LineFeeds
  <2>3. CASE q = last - 1
    BY <2>1, <2>3 DEF Length
  <2>4. CASE q < last - 1
    <3>1. q \in (blank + 1)..(last - 2)
      BY <1>1, <1>2, <1>5, <1>6, <2>4
    <3>2. Stream[q].what \in {"size", "crlf"}
      BY <2>1, <3>1 DEF LineTo, LineFeeds
    <3>3. Stream[q].what = "size" => Length(q) = Stream[q].len /\ Length(q) \in Nat
      BY PieceFacts DEF Length
    <3> QED
      BY <2>1, <2>4, <3>1, <3>2, <3>3
  <2> QED
    BY <1>1, <1>5, <2>2, <2>3, <2>4
<1>8. CASE Stream[blank].len \in Nat
  <2>1. /\ \A p \in (blank + 1)..last : Stream[p].what = "body"
        /\ Stream[b].what = "blank" /\ Stream[b].len = Chunked
    BY <1>3, <1>4, <1>8 DEF Chunked
  <2>2. b # blank
    BY <1>8, <2>1 DEF Chunked
  <2>3. b \in (blank + 1)..last
    BY <1>2, <1>5, <1>6, <2>2
  <2> QED
    BY <2>1, <2>3
<1> QED
  BY <1>4, <1>7, <1>8

\* The i-th message keeps its run when the consumer takes the oldest one, and when one is queued.
LEMMA ConsumeKeeps ==
    ASSUME PipeTypes, queue # << >>, Consume
    PROVE  Cut' = Cut /\ Cut \in Nat /\ \A i \in 1..Cut : RunOf(i)' = RunOf(i)
<1>1. /\ Len(queue) \in Nat \ {0} /\ Len(queue') = Len(queue) - 1
      /\ \A i \in 1..Len(queue') : queue'[i] = queue[i + 1]
      /\ Len(delivered) \in Nat /\ Len(delivered') = Len(delivered) + 1
      /\ \A i \in 1..Len(delivered) : delivered'[i] = delivered[i]
      /\ delivered'[Len(delivered) + 1] = queue[1]
  BY ConsumeFacts
<1>2. Cut' = Cut /\ Cut \in Nat
  BY <1>1 DEF Cut
<1>3. ASSUME NEW i \in 1..Cut PROVE RunOf(i)' = RunOf(i)
  <2>0. i \in Nat /\ i <= Len(delivered) + Len(queue)
    BY <1>1 DEF Cut
  <2>1. CASE i <= Len(delivered)
    BY <1>1, <1>3, <2>0, <2>1 DEF RunOf
  <2>2. CASE i = Len(delivered) + 1
    <3>1. i - Len(delivered) = 1
      BY <1>1, <2>2
    <3> QED
      BY <1>1, <2>0, <2>2, <3>1 DEF RunOf
  <2>3. CASE i > Len(delivered) + 1
    <3>1. i - Len(delivered') \in 1..Len(queue') /\ (i - Len(delivered')) + 1 = i - Len(delivered)
      BY <1>1, <2>0, <2>3
    <3>2. RunOf(i)' = queue'[i - Len(delivered')] /\ RunOf(i) = queue[i - Len(delivered)]
      BY <1>1, <2>0, <2>3 DEF RunOf
    <3> QED
      BY <1>1, <3>1, <3>2
  <2> QED
    BY <1>1, <2>0, <2>1, <2>2, <2>3
<1> QED
  BY <1>2, <1>3

LEMMA CompleteKeeps ==
    ASSUME PipeTypes, NEW last \in Nat, NEW consumed \in Nat, Complete(last, consumed),
           delivered' = delivered
    PROVE  /\ Cut' = Cut + 1 /\ Cut \in Nat
           /\ \A i \in 1..Cut : RunOf(i)' = RunOf(i)
           /\ \A i \in {Cut + 1} : RunOf(i)' = [from |-> begun + 1, to |-> last]
<1>1. /\ Len(queue) \in Nat /\ Len(queue') = Len(queue) + 1 /\ Len(delivered) \in Nat
      /\ \A i \in 1..Len(queue) : queue'[i] = queue[i]
      /\ queue'[Len(queue) + 1] = [from |-> begun + 1, to |-> last]
  BY CompleteFacts DEF PipeTypes
<1>2. Cut' = Cut + 1 /\ Cut \in Nat /\ Cut = Len(delivered) + Len(queue)
  BY <1>1 DEF Cut
<1>3. ASSUME NEW i \in 1..Cut PROVE RunOf(i)' = RunOf(i)
  <2>1. i > Len(delivered) => i - Len(delivered) \in 1..Len(queue)
    BY <1>1, <1>2
  <2> QED
    BY <1>1, <2>1 DEF RunOf
<1>4. ASSUME NEW i \in {Cut + 1} PROVE RunOf(i)' = queue'[Len(queue) + 1]
  <2>1. i - Len(delivered) = Len(queue) + 1 /\ ~(i <= Len(delivered))
    BY <1>1, <1>2
  <2> QED
    BY <2>1 DEF RunOf
<1> QED
  BY <1>1, <1>2, <1>3, <1>4

LEMMA CountFacts ==
    ASSUME PipeTypes
    PROVE  Cut \in Nat /\ Len(queue) \in Nat /\ Len(delivered) \in Nat
  BY DEF PipeTypes, Cut

\* A message that ends at its end, or a chunked one cut before it when Push overruns the buffer.
LEMMA CompleteInOrder ==
    ASSUME PipeTypes, InOrder, AtPiece, producePc = "push", pos <= seen, Cut < Messages,
           NEW last \in Nat, NEW consumed \in Nat, Complete(last, consumed),
           delivered' = delivered, seen' = seen,
           \/ last = End[Cut + 1] /\ consumed = last /\ consumed <= seen
           \/ last < End[Cut + 1] /\ consumed > seen
    PROVE  /\ InOrder'
           /\ ~Overrun' => AtPiece'
<1>0. Cut \in Nat /\ seen \in Nat
  BY CountFacts, StreamAssumption DEF PipeTypes
<1>1. /\ Cut' = Cut + 1 /\ pos' = consumed /\ begun' = consumed /\ mode' = "fields" /\ producePc' = "set"
      /\ \A i \in 1..Cut : RunOf(i)' = RunOf(i)
      /\ \A i \in {Cut + 1} : RunOf(i)' = [from |-> begun + 1, to |-> last]
  BY CompleteKeeps, CompleteFacts
<1>2. ~Ended
  BY <1>0 DEF Ended, Overrun
<1>3. begun = End[Cut] /\ (Cut + 1) - 1 = Cut
  BY <1>0 DEF AtPiece
<1>4. consumed > seen => Overrun'
  BY <1>1 DEF Overrun
<1>5. ASSUME NEW i \in 1..Cut' PROVE Whole(i, RunOf(i))'
  <2>1. CASE i \in 1..Cut
    <3>1. Whole(i, RunOf(i)) /\ RunOf(i).from = End[i - 1] + 1 /\ RunOf(i).to = End[i]
      BY <1>2, <2>1 DEF InOrder, Whole
    <3> QED
      BY <1>1, <2>1, <3>1 DEF Whole
  <2>2. CASE i = Cut + 1
    <3>1. RunOf(i)' = [from |-> End[i - 1] + 1, to |-> last]
      BY <1>1, <1>3, <2>2
    <3>2. last = End[i] \/ (last < End[i] /\ i = Cut' /\ Ended')
      BY <1>1, <1>4, <2>2 DEF Ended
    <3> QED
      BY <3>1, <3>2 DEF Whole
  <2> QED
    BY <1>0, <1>1, <2>1, <2>2
<1>6. InOrder'
  BY <1>5 DEF InOrder
<1>7. ASSUME ~Overrun' PROVE AtPiece'
  <2>1. last = End[Cut + 1] /\ consumed = last /\ Cut + 1 <= Messages
    BY <1>0, <1>4, <1>7, StreamAssumption
  <2>2. \A p \in (begun' + 1)..pos' : FALSE
    BY <1>1
  <2>3. begun' = End[Cut'] /\ Cut' <= Messages /\ begun' <= pos'
    BY <1>1, <2>1
  <2> QED
    BY <1>1, <2>2, <2>3 DEF AtPiece
<1> QED
  BY <1>6, <1>7

\* A step of Push that queues nothing keeps the messages as they are.
LEMMA StayInOrder ==
    ASSUME PipeTypes, InOrder, UNCHANGED <<queue, delivered>>, Ended => Ended'
    PROVE  InOrder' /\ Cut' = Cut
<1>1. Cut' = Cut /\ \A i \in 1..Cut : RunOf(i)' = RunOf(i)
  BY DEF Cut, RunOf
<1> QED
  BY <1>1 DEF InOrder, Whole

\* A step of Push ends the message at its end, goes on within it, or ends the task.
LEMMA PushInOrder ==
    ASSUME PipeTypes, InOrder, Position, Push
    PROVE  Position' /\ InOrder'
<1>0. /\ producePc = "push" /\ AtPiece /\ pos <= seen /\ ~Ended /\ Cut \in Nat
      /\ UNCHANGED <<seen, advanced, delivered>>
      /\ pos \in Nat /\ seen \in Nat /\ left \in Nat /\ begun \in Nat
      /\ begun = End[Cut] /\ begun <= pos /\ Cut <= Messages
  <2>1. producePc = "push" /\ UNCHANGED <<seen, advanced, delivered>>
    BY PushFacts DEF pipeVars
  <2>2. AtPiece /\ pos <= seen /\ ~Ended
    BY <2>1 DEF Position, Parsing, Overrun, Ended
  <2> QED
    BY <2>1, <2>2, CountFacts, StreamAssumption DEF PipeTypes, AtPiece
<1>1. ASSUME Cut < Messages, NEW last \in Nat, NEW consumed \in Nat, Complete(last, consumed),
             \/ last = End[Cut + 1] /\ consumed = last /\ consumed <= seen
             \/ last < End[Cut + 1] /\ consumed > seen
      PROVE  Position' /\ InOrder'
  <2>1. InOrder' /\ (~Overrun' => AtPiece') /\ producePc' = "set"
    BY <1>0, <1>1, CompleteInOrder, CompleteFacts
  <2> QED
    BY <2>1 DEF Position, Parsing
<1>2. ASSUME UNCHANGED queue, producePc' \in {"push", "redirect", "spin", "done"},
             producePc' \in {"push", "redirect"} => AtPiece', pos' <= seen
      PROVE  Position' /\ InOrder'
  <2>1. InOrder' /\ Cut' = Cut
    BY <1>0, <1>2, StayInOrder
  <2> QED
    BY <1>0, <1>2, <2>1 DEF Position, Parsing
<1>3. ASSUME UNCHANGED queue PROVE Cut' = Cut
  BY <1>0, <1>3 DEF Cut
<1>4. ASSUME NEW q \in (pos + 1)..seen, ParseLine(q) \/ EndHead(q) PROVE Position' /\ InOrder'
  <2>0. mode = "fields" /\ LineTo(q)
    BY <1>4 DEF ParseLine, EndHead
  <2>1. q \in Nat /\ q <= seen /\ pos < q
    BY PieceFacts
  <2>2. /\ Cut < Messages
        /\ \/ Stream[q].what = "line"
           \/ /\ Stream[q].what = "blank" /\ Length(q) = Stream[q].len
              /\ q \in (begun + 1)..End[Cut + 1]
              /\ \/ Length(q) \in Nat /\ End[Cut + 1] = q + Length(q)
                 \/ Length(q) = Chunked /\ q < End[Cut + 1] - 1
    BY <1>0, <2>0, HeadLine
  <2>3. CASE ParseLine(q)
    <3>1. /\ pos' = q /\ UNCHANGED <<begun, mode, left, queue, producePc>> /\ Stream[q].what \notin Empty
      BY <2>3 DEF ParseLine, current
    <3>2. \A p \in (pos + 1)..(q - 1) : Stream[p].what \notin Empty
      BY <2>0 DEF LineTo, LineFeeds, Empty
    <3>3. \A p \in (begun + 1)..pos : Stream[p].what \notin Empty
      BY <1>0, <2>0 DEF AtPiece
    <3>4. \A p \in (begun + 1)..q : Stream[p].what \notin Empty
      BY <1>0, <2>1, <3>1, <3>2, <3>3
    <3>5. AtPiece'
      BY <1>0, <1>3, <2>0, <2>1, <3>1, <3>4 DEF AtPiece
    <3> QED
      BY <1>0, <1>2, <2>1, <3>1, <3>5
  <2>4. CASE EndHead(q) /\ Length(q) = 0
    <3>1. Complete(q, q) /\ Stream[q].what \in Empty
      BY <2>4 DEF EndHead
    <3>2. q = End[Cut + 1]
      BY <2>1, <2>2, <2>4, <3>1 DEF Empty, Chunked
    <3> QED
      BY <1>1, <2>1, <2>2, <3>1, <3>2
  <2>5. CASE EndHead(q) /\ Length(q) # 0
    <3>1. /\ pos' = q /\ UNCHANGED <<begun, queue, producePc>> /\ Stream[q].what = "blank"
          /\ mode' = (IF Length(q) = Chunked THEN "chunks" ELSE "body")
          /\ left' = (IF Length(q) = Chunked THEN 0 ELSE Length(q))
      BY <2>2, <2>5 DEF EndHead, Empty
    <3>2. Cut' = Cut /\ (Cut + 1)' = Cut + 1
      BY <1>3, <3>1
    <3>3. CASE Length(q) = Chunked
      <4>1. InChunks(pos)'
        BY <1>0, <2>1, <2>2, <3>1, <3>2, <3>3 DEF InChunks, Chunked
      <4>2. AtPiece'
        BY <1>0, <2>1, <2>2, <3>1, <3>2, <3>3, <4>1 DEF AtPiece
      <4> QED
        BY <1>0, <1>2, <2>1, <3>1, <4>2
    <3>4. CASE Length(q) # Chunked
      <4>1. pos' + left' = End[Cut + 1]
        BY <2>1, <2>2, <3>1, <3>4
      <4>2. AtPiece'
        BY <1>0, <2>1, <2>2, <3>1, <3>2, <3>4, <4>1 DEF AtPiece
      <4> QED
        BY <1>0, <1>2, <2>1, <3>1, <4>2
    <3> QED
      BY <3>3, <3>4
  <2> QED
    BY <1>4, <2>3, <2>4, <2>5
<1>5. ASSUME NEW q \in (pos + 1)..seen, SkipLine(q) \/ TakeChunk(q) \/ BeginChunk(q) \/ EndChunks(q)
      PROVE  Position' /\ InOrder'
  <2>0. mode = "chunks" /\ LineTo(q)
    BY <1>5 DEF SkipLine, TakeChunk, BeginChunk, EndChunks
  <2>1. q \in Nat /\ q <= seen /\ pos < q
    BY PieceFacts
  <2>2. \/ Stream[q].what = "crlf" /\ q < End[Cut + 1] - 1
        \/ /\ Stream[q].what = "size" /\ q < End[Cut + 1] - 1
           /\ Length(q) \in Nat \ {0} /\ q + Length(q) < End[Cut + 1] - 1
        \/ Stream[q].what = "zero" /\ Length(q) = 0 /\ q = End[Cut + 1] - 1
    BY <1>0, <2>0, BodyLine
  <2>3. Cut < Messages /\ End[Cut + 1] \in Nat /\ InChunks(pos)
    BY <1>0, <2>0, MessageFacts DEF AtPiece
  <2>4. ASSUME NEW p \in Nat, pos <= p, p < End[Cut + 1] - 1, UNCHANGED <<begun, queue>>
        PROVE  /\ Cut' = Cut /\ p < End[Cut' + 1] - 1
               /\ \E blank \in (begun' + 1)..p : Stream[blank].what = "blank" /\ Stream[blank].len = Chunked
    <3>1. PICK blank \in (begun + 1)..pos : Stream[blank].what = "blank" /\ Stream[blank].len = Chunked
      BY <2>3 DEF InChunks
    <3>2. blank \in (begun' + 1)..p
      BY <1>0, <2>4, <3>1
    <3> QED
      BY <1>3, <2>4, <3>1, <3>2
  <2>5. CASE SkipLine(q)
    <3>1. pos' = q /\ UNCHANGED <<begun, mode, left, queue, producePc>> /\ Stream[q].what \in Empty
      BY <2>5 DEF SkipLine, current
    <3>2. q < End[Cut + 1] - 1 /\ pos <= q
      BY <1>0, <2>1, <2>2, <3>1 DEF Empty
    <3>3. InChunks(pos)' /\ Cut' = Cut
      BY <2>1, <2>4, <3>1, <3>2 DEF InChunks
    <3>4. AtPiece'
      BY <1>0, <2>0, <2>1, <2>3, <3>1, <3>3 DEF AtPiece
    <3> QED
      BY <1>0, <1>2, <2>1, <3>1, <3>4
  <2>6. CASE TakeChunk(q)
    <3>1. /\ pos' = q + Length(q) /\ UNCHANGED <<begun, mode, left, queue, producePc>>
          /\ Length(q) \in 1..(seen - q)
      BY <2>6 DEF TakeChunk, current
    <3>2. q + Length(q) < End[Cut + 1] - 1 /\ q + Length(q) \in Nat /\ pos <= q + Length(q)
          /\ q + Length(q) <= seen
      BY <1>0, <2>1, <2>2, <2>6, <3>1 DEF TakeChunk, Empty
    <3>3. InChunks(pos)' /\ Cut' = Cut
      BY <2>4, <3>1, <3>2 DEF InChunks
    <3>4. AtPiece'
      BY <1>0, <2>0, <2>1, <2>3, <3>1, <3>2, <3>3 DEF AtPiece
    <3> QED
      BY <1>0, <1>2, <3>1, <3>2, <3>4
  <2>7. CASE BeginChunk(q)
    <3>1. /\ pos' = seen /\ mode' = "chunk" /\ left' = Length(q) - (seen - q) /\ q < seen
          /\ UNCHANGED <<begun, queue>> /\ producePc' = "redirect" /\ Length(q) > seen - q
          /\ Stream[q].what \notin Empty
      BY <2>7 DEF BeginChunk, PushEnds
    <3>2. Length(q) \in Nat /\ q + Length(q) < End[Cut + 1] - 1
      BY <1>0, <2>1, <2>2, <3>1 DEF Empty
    <3>3. pos' + left' = q + Length(q) /\ q + Length(q) \in Nat /\ pos <= q + Length(q)
      BY <1>0, <2>1, <3>1, <3>2
    <3>4. InChunks(pos + left)' /\ Cut' = Cut
      BY <2>4, <3>1, <3>2, <3>3 DEF InChunks
    <3>5. AtPiece'
      BY <1>0, <2>3, <3>1, <3>4 DEF AtPiece
    <3> QED
      BY <1>0, <1>2, <3>1, <3>5
  <2>8. CASE EndChunks(q)
    <3>1. /\ Stream[q].what \notin Empty /\ (Length(q) = 0 \/ q = seen)
          /\ \/ q = seen /\ Complete(q, q + 1)
             \/ q < seen /\ Complete(q + 1, q + 1)
      BY <2>8 DEF EndChunks
    <3>2. CASE q = seen
      <4>1. Complete(q, q + 1) /\ q + 1 \in Nat /\ q + 1 > seen
        BY <1>0, <2>1, <3>1, <3>2
      <4>2. q < End[Cut + 1]
        BY <2>1, <2>2, <2>3, <3>1 DEF Empty
      <4> QED
        BY <1>1, <2>1, <2>3, <4>1, <4>2
    <3>3. CASE q < seen
      <4>1. Complete(q + 1, q + 1) /\ Length(q) = 0 /\ q + 1 \in Nat /\ q + 1 <= seen
        BY <1>0, <2>1, <3>1, <3>3
      <4>2. q + 1 = End[Cut + 1]
        BY <2>1, <2>2, <2>3, <3>1, <4>1 DEF Empty
      <4> QED
        BY <1>1, <2>3, <4>1, <4>2
    <3> QED
      BY <3>1, <3>2, <3>3
  <2> QED
    BY <1>5, <2>5, <2>6, <2>7, <2>8
<1>6. CASE FillBody
  <2>0. mode = "body" /\ Cut < Messages /\ pos + left = End[Cut + 1] /\ End[Cut + 1] \in Nat
    BY <1>0, <1>6, MessageFacts DEF FillBody, AtPiece
  <2>1. CASE seen - pos > left
    <3>1. producePc' = "done" /\ UNCHANGED <<pos, queue>>
      BY <1>6, <2>1 DEF FillBody, PushThrows
    <3> QED
      BY <1>0, <1>2, <3>1
  <2>2. CASE seen - pos = left
    <3>1. Complete(seen, seen) /\ seen = End[Cut + 1]
      BY <1>0, <1>6, <2>0, <2>2 DEF FillBody
    <3> QED
      BY <1>0, <1>1, <2>0, <3>1
  <2>3. CASE seen - pos < left
    <3>1. /\ pos' = seen /\ left' = left - (seen - pos) /\ UNCHANGED <<begun, mode, queue>>
          /\ producePc' = "redirect"
      BY <1>0, <1>6, <2>3 DEF FillBody, PushEnds
    <3>2. pos' + left' = End[Cut + 1] /\ Cut' = Cut
      BY <1>0, <1>3, <2>0, <3>1
    <3>3. AtPiece'
      BY <1>0, <2>0, <3>1, <3>2 DEF AtPiece
    <3> QED
      BY <1>0, <1>2, <3>1, <3>3
  <2> QED
    BY <1>0, <2>1, <2>2, <2>3
<1>7. CASE FillChunk
  <2>0. mode = "chunk" /\ Cut < Messages /\ InChunks(pos + left)
    BY <1>0, <1>7 DEF FillChunk, AtPiece
  <2>1. CASE seen - pos < left
    <3>1. /\ pos' = seen /\ left' = left - (seen - pos) /\ UNCHANGED <<begun, mode, queue>>
          /\ producePc' = "redirect"
      BY <1>7, <2>1 DEF FillChunk, PushEnds
    <3>2. pos' + left' = pos + left /\ Cut' = Cut
      BY <1>0, <1>3, <3>1
    <3>3. InChunks(pos + left)'
      BY <2>0, <3>1, <3>2 DEF InChunks
    <3>4. AtPiece'
      BY <1>0, <2>0, <3>1, <3>2, <3>3 DEF AtPiece
    <3> QED
      BY <1>0, <1>2, <3>1, <3>4
  <2>2. CASE ~(seen - pos < left)
    <3>1. /\ pos' = pos + left /\ left' = 0 /\ mode' = "chunks" /\ UNCHANGED <<begun, queue, producePc>>
      BY <1>7, <2>2 DEF FillChunk
    <3>2. Cut' = Cut /\ pos' <= seen /\ begun <= pos'
      BY <1>0, <1>3, <2>2, <3>1
    <3>3. InChunks(pos)'
      BY <2>0, <3>1, <3>2 DEF InChunks
    <3>4. AtPiece'
      BY <1>0, <2>0, <3>1, <3>2, <3>3 DEF AtPiece
    <3> QED
      BY <1>0, <1>2, <3>1, <3>2, <3>4
  <2> QED
    BY <2>1, <2>2
<1>8. CASE ParseLinesEnds \/ ParseLinesThrows \/ ChunksEnd
  <2>1. /\ UNCHANGED <<pos, begun, mode, left, queue>>
        /\ producePc' \in {"redirect", "spin", "done"}
    BY <1>8 DEF ParseLinesEnds, ParseLinesThrows, ChunksEnd, PushEnds, PushThrows, current
  <2>2. AtPiece'
    BY <1>0, <1>3, <2>1 DEF AtPiece, InChunks
  <2> QED
    BY <1>0, <1>2, <2>1, <2>2
<1> QED
  BY <1>4, <1>5, <1>6, <1>7, <1>8 DEF Push

LEMMA OrderInit == Init => OrderInv
<1> SUFFICES ASSUME Init PROVE OrderInv
  OBVIOUS
<1>1. Cut = 0
  BY DEF Init, Cut
<1>2. Position /\ InOrder
  BY <1>1 DEF Init, Position, Parsing, InOrder
<1> QED
  BY <1>1, <1>2, SpinInit DEF OrderInv, FirstStart, Init

LEMMA OrderStep == OrderInv /\ [Next]_vars => OrderInv'
<1> SUFFICES ASSUME OrderInv, [Next]_vars PROVE OrderInv'
  OBVIOUS
<1>0. SpinInv' /\ PipeTypes /\ TaskState /\ FirstStart /\ session \in Nat
  BY SpinStep DEF OrderInv, SpinInv, FirstStart
<1> USE DEF pcs, pipeVars, current, parserVars
<1>1. ASSUME Cut' = Cut, advanced' = advanced \/ producePc = "redirect", session' \in Nat,
             \/ session' = session /\ (mainPc' = mainPc \/ (mainPc # "idle" /\ mainPc' # "reset"))
             \/ session' = session + 1 /\ mainPc = "idle" /\ mainPc' = "reset"
             \/ session' = session /\ mainPc = "reset"
      PROVE  FirstStart'
  BY <1>0, <1>1 DEF FirstStart, TaskState
<1>2. ASSUME UNCHANGED <<advanced, pos, seen, begun, mode, left, queue, delivered>>,
             \/ producePc' = producePc
             \/ producePc = "set" /\ producePc' = "redirect"
             \/ producePc' = "done"
      PROVE  (Position => Position') /\ (InOrder => InOrder') /\ Cut' = Cut
  <2>1. Cut' = Cut /\ \A i \in 1..Cut : RunOf(i)' = RunOf(i)
    BY <1>2 DEF Cut, RunOf
  <2>2. Ended => Ended'
    BY <1>2 DEF Ended, Overrun
  <2>3. InOrder => InOrder'
    BY <2>1, <2>2 DEF InOrder, Whole
  <2>4. Parsing' => Parsing
    BY <1>2 DEF Parsing, Overrun
  <2>5. AtPiece => AtPiece'
    BY <1>2, <2>1 DEF AtPiece, InChunks
  <2>6. Position => Position'
    BY <1>2, <2>4, <2>5 DEF Position
  <2> QED
    BY <2>1, <2>3, <2>6
<1>3. CASE FillPipe \/ FillStops \/ FillFails \/ ReadThrows \/ ProduceStops \/ RedirectFails \/ SyncSet
           \/ Canceling \/ WhenAll \/ SyncWait \/ Awaited \/ CancelFromOutside \/ Callback
           \/ UNCHANGED vars
  <2>1. /\ UNCHANGED <<advanced, pos, seen, begun, mode, left, queue, delivered, session>>
        /\ mainPc' = mainPc \/ (mainPc # "idle" /\ mainPc' # "reset")
    BY <1>3 DEF FillPipe, FillStops, FillFails, ReadThrows, ProduceStops, RedirectFails, SyncSet,
                Canceling, WhenAll, SyncWait, Awaited, CancelFromOutside, Callback, vars
  <2>2. \/ producePc' = producePc
        \/ producePc = "set" /\ producePc' = "redirect"
        \/ producePc' = "done"
    BY <1>3 DEF FillPipe, FillStops, FillFails, ReadThrows, ProduceStops, RedirectFails, SyncSet,
                Canceling, WhenAll, SyncWait, Awaited, CancelFromOutside, Callback, vars
  <2>3. (Position => Position') /\ (InOrder => InOrder') /\ Cut' = Cut
    BY <1>2, <2>1, <2>2
  <2> QED
    BY <1>0, <1>1, <2>1, <2>3 DEF OrderInv
<1>4. CASE ProduceRead
  <2>1. /\ UNCHANGED <<syncVars, session, filled, advanced, begun, mode, left, queue, delivered, mainPc>>
        /\ producePc = "loop" /\ producePc' = "push" /\ pos' = advanced /\ seen' = filled /\ filled > advanced
    BY <1>4 DEF ProduceRead
  <2>2. Cut' = Cut /\ \A i \in 1..Cut : RunOf(i)' = RunOf(i)
    BY <2>1 DEF Cut, RunOf
  <2>3. InOrder => InOrder'
    BY <2>1, <2>2 DEF InOrder, Whole, Ended, Overrun
  <2>4. Position => AtPiece /\ pos' = pos
    BY <2>1 DEF Position, Parsing, Overrun
  <2>5. Position => Position'
    <3>1. advanced <= filled
      BY <1>0, <2>1, StreamAssumption DEF PipeTypes
    <3>2. Position => AtPiece'
      BY <2>1, <2>2, <2>4 DEF AtPiece, InChunks
    <3> QED
      BY <2>1, <3>1, <3>2 DEF Position
  <2> QED
    BY <1>0, <1>1, <2>1, <2>2, <2>3, <2>5 DEF OrderInv
<1>5. CASE Redirect
  <2>1. /\ UNCHANGED <<syncVars, session, filled, seen, pos, begun, mode, left, queue, delivered, mainPc>>
        /\ producePc = "redirect"
        /\ \/ pos > seen /\ producePc' = "done" /\ advanced' = advanced
           \/ ~(pos > seen) /\ producePc' = "loop" /\ advanced' = pos
    BY <1>5 DEF Redirect
  <2>2. Cut' = Cut /\ \A i \in 1..Cut : RunOf(i)' = RunOf(i)
    BY <2>1 DEF Cut, RunOf
  <2>3. InOrder => InOrder'
    BY <2>1, <2>2 DEF InOrder, Whole, Ended, Overrun
  <2>4. AtPiece => AtPiece'
    BY <2>1, <2>2 DEF AtPiece, InChunks
  <2>5. Position => Position'
    BY <2>1, <2>4 DEF Position, Parsing, Overrun
  <2> QED
    BY <1>0, <1>1, <2>1, <2>2, <2>3, <2>5 DEF OrderInv
<1>6. CASE Push
  <2>1. producePc = "push" /\ session' = session /\ mainPc' = mainPc /\ advanced' = advanced
    BY <1>0, <1>6, PushFacts
  <2>2. mainPc \notin {"idle", "reset"}
    BY <1>0, <2>1 DEF TaskState
  <2>3. FirstStart'
    BY <1>0, <2>1, <2>2 DEF FirstStart
  <2> QED
    BY <1>0, <1>6, <2>1, <2>3, PushInOrder DEF OrderInv
<1>7. CASE SyncReset
  <2>1. /\ UNCHANGED <<advanced, pos, seen, begun, mode, left, queue, delivered, producePc>> /\ mainPc' = "reset"
        /\ \/ mainPc = "idle" /\ session' = session + 1
           \/ mainPc = "reset" /\ session' = session
    BY <1>7 DEF SyncReset
  <2>2. (Position => Position') /\ (InOrder => InOrder') /\ Cut' = Cut
    BY <1>2, <2>1
  <2>3. session' \in Nat /\ (session' <= 1 => session <= 1)
    BY <1>0, <2>1
  <2> QED
    BY <1>0, <1>1, <2>1, <2>2, <2>3 DEF OrderInv
<1>8. CASE Started
  <2>1. /\ UNCHANGED <<advanced, seen, queue, delivered, session>>
        /\ mainPc = "reset" /\ mainPc' # "reset" /\ producePc = "done"
        /\ \/ UNCHANGED <<pos, begun, mode, left, producePc>>
           \/ pos' = advanced /\ begun' = advanced /\ mode' = "fields" /\ producePc' = "loop"
    BY <1>0, <1>8 DEF Started, TaskState
  <2>2. Cut' = Cut
    BY <2>1 DEF Cut
  <2>3. FirstStart'
    BY <1>0, <1>1, <2>1, <2>2
  <2>4. CASE UNCHANGED <<pos, begun, mode, left, producePc>>
    BY <1>0, <1>2, <2>1, <2>3, <2>4 DEF OrderInv
  <2>5. ASSUME session <= 1, pos' = advanced, begun' = advanced, mode' = "fields", producePc' = "loop"
        PROVE  Position' /\ InOrder'
    <3>1. Cut = 0 /\ advanced = 0
      BY <1>0, <2>1, <2>5 DEF FirstStart
    <3>2. AtPiece' /\ InOrder'
      BY <2>1, <2>2, <2>5, <3>1, StreamAssumption DEF AtPiece, InOrder
    <3> QED
      BY <2>1, <2>5, <3>2 DEF Position
  <2> QED
    BY <1>0, <2>1, <2>3, <2>4, <2>5 DEF OrderInv
<1>9. CASE Dequeue \/ Drain
  <2>1. /\ UNCHANGED <<advanced, pos, seen, begun, mode, left, session, producePc>>
        /\ mainPc # "idle" /\ mainPc' # "reset"
        /\ UNCHANGED <<queue, delivered>> \/ (queue # << >> /\ Consume)
    BY <1>9 DEF Dequeue, Drain
  <2>2. CASE UNCHANGED <<queue, delivered>>
    <3>1. (Position => Position') /\ (InOrder => InOrder') /\ Cut' = Cut
      BY <1>2, <2>1, <2>2
    <3> QED
      BY <1>0, <1>1, <2>1, <3>1 DEF OrderInv
  <2>3. CASE queue # << >> /\ Consume
    <3>1. Cut' = Cut /\ \A i \in 1..Cut : RunOf(i)' = RunOf(i)
      BY <1>0, <2>3, ConsumeKeeps
    <3>2. InOrder => InOrder'
      BY <2>1, <3>1 DEF InOrder, Whole, Ended, Overrun
    <3>3. Position => Position'
      BY <2>1, <3>1 DEF Position, Parsing, Overrun, AtPiece, InChunks
    <3> QED
      BY <1>0, <1>1, <2>1, <3>1, <3>2, <3>3 DEF OrderInv
  <2> QED
    BY <2>1, <2>2, <2>3
<1> QED
  BY <1>3, <1>4, <1>5, <1>6, <1>7, <1>8, <1>9 DEF Next, Fill, Produce, Main

\* The first call of ParseMessagesAsync hands the messages of its source to the consumer one by
\* one, once and in order, wherever a read cuts them, whatever fails and whatever is canceled
\* when; only the last one may lack its end, if it is chunked, and then no more will come.
THEOREM DeliveredInOrderHolds == Spec => []DeliveredInOrder
<1>1. OrderInv => DeliveredInOrder
  <2> SUFFICES ASSUME OrderInv, session <= 1, NEW i \in 1..Len(delivered)
               PROVE  /\ delivered[i].from = End[i - 1] + 1
                      /\ \/ delivered[i].to = End[i]
                         \/ /\ delivered[i].to < End[i]
                            /\ i = Len(delivered) /\ queue = << >>
                            /\ Overrun \/ producePc = "done"
    BY DEF DeliveredInOrder
  <2>1. Cut \in Nat /\ Len(queue) \in Nat /\ Len(delivered) \in Nat /\ queue \in Seq(Runs)
    BY CountFacts DEF OrderInv, SpinInv, PipeTypes
  <2>2. i \in 1..Cut /\ RunOf(i) = delivered[i]
    BY <2>1 DEF Cut, RunOf
  <2>3. Whole(i, delivered[i])
    BY <2>2 DEF OrderInv, InOrder
  <2>4. i = Cut => i = Len(delivered) /\ Len(queue) = 0
    BY <2>1 DEF Cut
  <2>5. Len(queue) = 0 => queue = << >>
    BY <2>1, EmptySeq
  <2> QED
    BY <2>3, <2>4, <2>5 DEF Whole, Ended
<1> QED
  BY <1>1, OrderInit, OrderStep, PTL DEF Spec
=============================================================================

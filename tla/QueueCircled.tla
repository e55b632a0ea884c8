---------------------------- MODULE QueueCircled ----------------------------
(***************************************************************************)
(* The ring buffer QueueCircled<T> (Izhg.Lib.Collections/Collections/       *)
(* CircledQueue.cs) as a double-ended queue.  A `ref T' result               *)
(* (Extend...) is the slot the caller stores an item in: the store is part   *)
(* of the action.  A call that throws before it changes anything is a call   *)
(* that is not enabled.  The build is DEBUG (Dequeue clears its slot).        *)
(***************************************************************************)
EXTENDS Integers, Sequences

CONSTANTS Items, Default, Capacity

ASSUME CapacityAssumption == Capacity \in Nat \ {0}
ASSUME DefaultAssumption == Default \in Items

VARIABLES items, count, head, tail, last

vars == <<items, count, head, tail, last>>

Index == 0..(Capacity - 1)

Init ==
    /\ items = [i \in Index |-> Default]
    /\ count = 0 /\ head = 0 /\ tail = 0 /\ last = 0

-----------------------------------------------------------------------------
(* Reading *)

SequenceIndexToActualIndex(i) == (head + i) % Capacity
Peak == items[head]
PeakFromEnd == items[last]
PeakDoubleFromEnd ==
    LET penultimate == IF last - 1 < 0 THEN Capacity + (last - 1) ELSE last - 1
    IN  <<items[penultimate], items[last]>>

-----------------------------------------------------------------------------
(* Both ends *)

\* Mutant: the overwritten item stays the head of the queue.
EnqueueKeepsHead(v) ==
    /\ items' = [items EXCEPT ![tail] = v]
    /\ last' = tail /\ tail' = (tail + 1) % Capacity
    /\ count' = IF count + 1 > Capacity THEN Capacity ELSE count + 1
    /\ UNCHANGED head

\* Enqueue with overriding on overflow
Enqueue(v) ==
    /\ items' = [items EXCEPT ![tail] = v]
    /\ IF count + 1 > Capacity
       THEN /\ last' = head
            /\ head' = (head + 1) % Capacity /\ tail' = (head + 1) % Capacity
            /\ count' = Capacity
       ELSE /\ last' = tail
            /\ tail' = (tail + 1) % Capacity
            /\ count' = count + 1 /\ UNCHANGED head

\* "Unsafe": the caller knows that the queue is not empty.
Dequeue ==
    /\ count > 0
    /\ items' = [items EXCEPT ![head] = Default]
    /\ head' = (head + 1) % Capacity
    /\ count' = count - 1
    /\ UNCHANGED <<tail, last>>

ExtendAfterLast(v) ==
    /\ count < Capacity
    /\ items' = [items EXCEPT ![tail] = v]
    /\ last' = tail
    /\ tail' = (tail + 1) % Capacity
    /\ count' = count + 1
    /\ UNCHANGED head

ExtendBeforeHead(v) ==
    LET before == IF head - 1 < 0 THEN Capacity + (head - 1) ELSE head - 1
    IN  /\ count < Capacity
        /\ head' = before
        /\ items' = [items EXCEPT ![before] = v]
        /\ count' = count + 1
        /\ UNCHANGED <<tail, last>>

\* Mutant: last is left where it was.
ShrinkLastKeepsLast ==
    /\ count > 0
    /\ tail' = last /\ count' = count - 1
    /\ UNCHANGED <<items, head, last>>

ShrinkLast ==
    /\ count > 0
    /\ tail' = last
    /\ last' = IF last - 1 < 0 THEN last - 1 + Capacity ELSE last - 1
    /\ count' = count - 1
    /\ UNCHANGED <<items, head>>

ShrinkHead ==
    /\ count > 0
    /\ head' = (head + 1) % Capacity
    /\ count' = count - 1
    /\ UNCHANGED <<items, tail, last>>

-----------------------------------------------------------------------------
(* The whole queue *)

SetByIndex(v, i) ==
    /\ items' = [items EXCEPT ![SequenceIndexToActualIndex(i)] = v]
    /\ UNCHANGED <<count, head, tail, last>>

Fill(v) ==
    /\ items' = [i \in Index |-> v]
    /\ count' = Capacity /\ head' = 0 /\ tail' = 0 /\ last' = Capacity - 1

Reset ==
    /\ count' = 0 /\ head' = 0 /\ tail' = 0 /\ last' = 0
    /\ UNCHANGED items

Clear ==
    /\ count' = 0 /\ head' = 0 /\ tail' = 0 /\ last' = 0
    /\ items' = [i \in Index |-> Default]

-----------------------------------------------------------------------------

\* The operations of a double-ended queue.  ExtendBeforeHead is restricted to a queue with
\* items: on an empty one the code leaves `last' at the slot of an item that is gone.
Next ==
    \/ Dequeue \/ ShrinkLast \/ ShrinkHead \/ Reset \/ Clear
    \/ \E v \in Items : \/ Enqueue(v) \/ ExtendAfterLast(v) \/ Fill(v)
                        \/ count > 0 /\ ExtendBeforeHead(v)
                        \/ \E i \in 0..(count - 1) : SetByIndex(v, i)
Spec == Init /\ [][Next]_vars

-----------------------------------------------------------------------------
(* Properties *)

\* The indices stay inside the array (the type invariant).
TypeOK ==
    /\ items \in [Index -> Items]
    /\ count \in 0..Capacity
    /\ head \in Index /\ tail \in Index /\ last \in Index

\* tail is count slots after head, and in a queue with items last is the slot before tail:
\* the three indices, each moved by its own operations, agree after any sequence of them.
IndicesAgree ==
    /\ tail = (head + count) % Capacity
    /\ count > 0 => tail = (last + 1) % Capacity

\* The items in the order of the queue.
Content == [i \in 1..count |-> items[(head + (i - 1)) % Capacity]]

\* Peak, PeakFromEnd and PeakDoubleFromEnd see the items that GetByIndex sees at the ends.
EndsAgree ==
    /\ count > 0 => Peak = Content[1]
    /\ count > 0 => PeakFromEnd = Content[count]
    /\ count > 1 => PeakDoubleFromEnd = <<Content[count - 1], Content[count]>>

\* The ring buffer is a bounded double-ended queue: whatever slots are used, each operation
\* changes the items a reader can see exactly as the abstract one does.
bq == INSTANCE BoundedQueue WITH q <- Content
ImplementsQueue == bq!Spec
=============================================================================

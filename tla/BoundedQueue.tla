---------------------------- MODULE BoundedQueue ----------------------------
(***************************************************************************)
(* What QueueCircled promises: a double-ended queue of at most Capacity      *)
(* items in which a new item, when there is no room, replaces the oldest.    *)
(***************************************************************************)
EXTENDS Integers, Sequences

CONSTANTS Items, Capacity
VARIABLE q

Init == q = << >>

Enqueue(v) == q' = Append(IF Len(q) < Capacity THEN q ELSE Tail(q), v)
PutFirst(v) == Len(q) < Capacity /\ q' = <<v>> \o q
RemoveFirst == q # << >> /\ q' = Tail(q)
RemoveLast == q # << >> /\ q' = SubSeq(q, 1, Len(q) - 1)
Set(i, v) == q' = [q EXCEPT ![i] = v]
Fill(v) == q' = [i \in 1..Capacity |-> v]
Clear == q' = << >>

Next ==
    \/ RemoveFirst \/ RemoveLast \/ Clear
    \/ \E v \in Items : Enqueue(v) \/ PutFirst(v) \/ Fill(v) \/ \E i \in 1..Len(q) : Set(i, v)

Spec == Init /\ [][Next]_q
=============================================================================

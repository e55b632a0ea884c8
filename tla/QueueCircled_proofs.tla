------------------------- MODULE QueueCircled_proofs -------------------------
(***************************************************************************)
(* For every capacity and every set of items: the indices of QueueCircled    *)
(* agree, and its double-ended operations implement BoundedQueue.  For every *)
(* substring and stream: the matcher built on it reports a match exactly     *)
(* where the stream ends with the substring.                                 *)
(***************************************************************************)
EXTENDS SubstringMatchQueue, SequenceTheorems, TLAPS

\* An index that runs past the end of the array wraps once.
LEMMA Wrap ==
    ASSUME NEW x \in 0..(2 * Capacity - 1)
    PROVE  x % Capacity = IF x < Capacity THEN x ELSE x - Capacity
<1>1. CASE x < Capacity BY <1>1, CapacityAssumption, SMT
<1>2. CASE x >= Capacity BY <1>2, CapacityAssumption, SMT
<1> QED BY <1>1, <1>2, CapacityAssumption

-----------------------------------------------------------------------------
(* The indices *)

IndexInv == TypeOK /\ IndicesAgree

LEMMA TypeInit == Init => TypeOK
BY CapacityAssumption, DefaultAssumption DEF Init, TypeOK, Index

LEMMA AgreeInit == Init => IndicesAgree
BY CapacityAssumption, Wrap DEF Init, IndicesAgree

\* What the invariant says about the indices, without %.
LEMMA Linear ==
    ASSUME IndexInv
    PROVE  /\ count \in 0..Capacity /\ head \in Index /\ tail \in Index /\ last \in Index
           /\ tail = IF head + count < Capacity THEN head + count ELSE head + count - Capacity
           /\ count > 0 => tail = IF last + 1 < Capacity THEN last + 1 ELSE 0
           /\ (head + 1) % Capacity = IF head + 1 < Capacity THEN head + 1 ELSE 0
           /\ (tail + 1) % Capacity = IF tail + 1 < Capacity THEN tail + 1 ELSE 0
           /\ Capacity \in Nat \ {0}
<1>1. /\ count \in 0..Capacity /\ head \in Index /\ tail \in Index /\ last \in Index
      /\ Capacity \in Nat \ {0}
  BY CapacityAssumption DEF IndexInv, TypeOK
<1>2. /\ head + count \in 0..(2 * Capacity - 1) /\ head + 1 \in 0..(2 * Capacity - 1)
      /\ tail + 1 \in 0..(2 * Capacity - 1) /\ last + 1 \in 0..(2 * Capacity - 1)
  BY <1>1 DEF Index
<1>3. tail = (head + count) % Capacity /\ (count > 0 => tail = (last + 1) % Capacity)
  BY DEF IndexInv, IndicesAgree
<1> QED BY <1>1, <1>2, <1>3, Wrap DEF Index

\* The same facts suffice to have the invariant.
LEMMA FromLinear ==
    ASSUME NEW c \in 0..Capacity, NEW h \in Index, NEW t \in Index, NEW l \in Index,
           t = (IF h + c < Capacity THEN h + c ELSE h + c - Capacity),
           c > 0 => t = IF l + 1 < Capacity THEN l + 1 ELSE 0
    PROVE  t = (h + c) % Capacity /\ (c > 0 => t = (l + 1) % Capacity)
<1>1. h + c \in 0..(2 * Capacity - 1) /\ l + 1 \in 0..(2 * Capacity - 1)
  BY CapacityAssumption DEF Index
<1> QED BY <1>1, Wrap, CapacityAssumption DEF Index

\* Every operation stores items in slots of the array.
LEMMA ItemsStep == IndexInv /\ [Next]_vars => items' \in [Index -> Items]
<1> SUFFICES ASSUME IndexInv, [Next]_vars PROVE items' \in [Index -> Items]
  OBVIOUS
<1> USE DefaultAssumption
<1>0. items \in [Index -> Items]
  BY DEF IndexInv, TypeOK
<1>1. CASE Dequeue \/ Clear \/ ShrinkLast \/ ShrinkHead \/ Reset \/ UNCHANGED vars
  BY <1>0, <1>1 DEF Dequeue, Clear, ShrinkLast, ShrinkHead, Reset, vars
<1>2. ASSUME NEW v \in Items,
             Enqueue(v) \/ ExtendAfterLast(v) \/ Fill(v) \/ ExtendBeforeHead(v)
      PROVE  items' \in [Index -> Items]
  BY <1>0, <1>2 DEF Enqueue, ExtendAfterLast, Fill, ExtendBeforeHead
<1>3. ASSUME NEW v \in Items, NEW i \in 0..(count - 1), SetByIndex(v, i)
      PROVE  items' \in [Index -> Items]
  BY <1>0, <1>3 DEF SetByIndex
<1> QED BY <1>1, <1>2, <1>3 DEF Next

\* Every operation leaves the indices inside the array.
LEMMA RangeStep ==
    ASSUME IndexInv, [Next]_vars
    PROVE  count' \in 0..Capacity /\ head' \in Index /\ tail' \in Index /\ last' \in Index
<1> DEFINE G == count' \in 0..Capacity /\ head' \in Index /\ tail' \in Index /\ last' \in Index
<1>1. CASE Dequeue BY <1>1, Linear DEF Dequeue, Index
<1>2. CASE ShrinkLast
  <2>1. tail' = last /\ count' = count - 1 /\ head' = head /\ count > 0
    BY <1>2 DEF ShrinkLast
  <2>2. last' = IF last - 1 < 0 THEN last - 1 + Capacity ELSE last - 1
    BY <1>2 DEF ShrinkLast
  <2> QED BY <2>1, <2>2, Linear DEF Index
<1>3. CASE ShrinkHead BY <1>3, Linear DEF ShrinkHead, Index
<1>4. CASE Reset \/ Clear BY <1>4, Linear DEF Reset, Clear, Index
<1>6. ASSUME NEW v \in Items, Enqueue(v) PROVE G
  <2>1. CASE count + 1 > Capacity
    <3>1. last' = head /\ head' = (head + 1) % Capacity /\ tail' = (head + 1) % Capacity
          /\ count' = Capacity
      BY <1>6, <2>1 DEF Enqueue
    <3> QED BY <3>1, Linear DEF Index
  <2>2. CASE ~(count + 1 > Capacity)
    <3>1. last' = tail /\ tail' = (tail + 1) % Capacity /\ count' = count + 1 /\ head' = head
      BY <1>6, <2>2 DEF Enqueue
    <3> QED BY <3>1, <2>2, Linear DEF Index
  <2> QED BY <2>1, <2>2
<1>7. ASSUME NEW v \in Items, ExtendAfterLast(v) PROVE G
  BY <1>7, Linear DEF ExtendAfterLast, Index
<1>8. ASSUME NEW v \in Items, Fill(v) PROVE G
  BY <1>8, Linear DEF Fill, Index
<1>9. ASSUME NEW v \in Items, ExtendBeforeHead(v) PROVE G
  <2>1. /\ count < Capacity /\ count' = count + 1 /\ tail' = tail /\ last' = last
        /\ head' = IF head - 1 < 0 THEN Capacity + (head - 1) ELSE head - 1
    BY <1>9 DEF ExtendBeforeHead
  <2> QED BY <2>1, Linear DEF Index
<1>10. ASSUME NEW v \in Items, NEW i \in 0..(count - 1), SetByIndex(v, i) PROVE G
  BY <1>10, Linear DEF SetByIndex
<1>11. CASE UNCHANGED vars
  BY <1>11, Linear DEF vars
<1> QED BY <1>1, <1>2, <1>3, <1>4, <1>6, <1>7, <1>8, <1>9, <1>10, <1>11 DEF Next

LEMMA TypeStep == IndexInv /\ [Next]_vars => TypeOK'
BY ItemsStep, RangeStep DEF TypeOK

LEMMA AgreeStep == IndexInv /\ TypeOK' /\ [Next]_vars => IndicesAgree'
<1> SUFFICES ASSUME IndexInv, TypeOK', [Next]_vars
             PROVE  /\ tail' = (head' + count') % Capacity
                    /\ count' > 0 => tail' = (last' + 1) % Capacity
  BY DEF IndicesAgree
<1>0. /\ count' \in 0..Capacity /\ head' \in Index /\ tail' \in Index /\ last' \in Index
  BY DEF TypeOK
<1> DEFINE G == /\ tail' = (IF head' + count' < Capacity THEN head' + count'
                                                       ELSE head' + count' - Capacity)
                /\ count' > 0 => tail' = IF last' + 1 < Capacity THEN last' + 1 ELSE 0
<1>s. SUFFICES G
  <2> HIDE DEF IndexInv
  <2> QED BY <1>0, FromLinear
<1>1. CASE Dequeue BY <1>1, Linear DEF Dequeue, Index
<1>2. CASE ShrinkLast
  <2>1. tail' = last /\ count' = count - 1 /\ head' = head /\ count > 0
    BY <1>2 DEF ShrinkLast
  <2>2. last' = IF last - 1 < 0 THEN last - 1 + Capacity ELSE last - 1
    BY <1>2 DEF ShrinkLast
  <2>3. tail = (IF last + 1 < Capacity THEN last + 1 ELSE 0) /\ last \in 0..(Capacity - 1)
        /\ Capacity \in Nat \ {0} /\ head \in 0..(Capacity - 1) /\ count \in 1..Capacity
        /\ tail = (IF head + count < Capacity THEN head + count ELSE head + count - Capacity)
    BY <2>1, Linear DEF Index
  <2>4. tail' = (IF head' + count' < Capacity THEN head' + count' ELSE head' + count' - Capacity)
    BY <2>1, <2>3
  <2>5. tail' = IF last' + 1 < Capacity THEN last' + 1 ELSE 0
    BY <2>1, <2>2, <2>3
  <2> QED BY <2>4, <2>5
<1>3. CASE ShrinkHead BY <1>3, Linear DEF ShrinkHead, Index
<1>4. CASE Reset BY <1>4, Linear DEF Reset, Index
<1>5. CASE Clear BY <1>5, Linear DEF Clear, Index
<1>6. ASSUME NEW v \in Items, Enqueue(v) PROVE G
  <2>1. CASE count + 1 > Capacity BY <1>6, <2>1, Linear DEF Enqueue, Index
  <2>2. CASE ~(count + 1 > Capacity) BY <1>6, <2>2, Linear DEF Enqueue, Index
  <2> QED BY <2>1, <2>2
<1>7. ASSUME NEW v \in Items, ExtendAfterLast(v) PROVE G
  BY <1>7, Linear DEF ExtendAfterLast, Index
<1>8. ASSUME NEW v \in Items, Fill(v) PROVE G
  BY <1>8, Linear DEF Fill, Index
<1>9. ASSUME NEW v \in Items, count > 0, ExtendBeforeHead(v) PROVE G
  BY <1>9, Linear DEF ExtendBeforeHead, Index
<1>10. ASSUME NEW v \in Items, NEW i \in 0..(count - 1), SetByIndex(v, i) PROVE G
  BY <1>10, Linear DEF SetByIndex, Index
<1>11. CASE UNCHANGED vars
  BY <1>11, Linear DEF vars, Index
<1> QED BY <1>1, <1>2, <1>3, <1>4, <1>5, <1>6, <1>7, <1>8, <1>9, <1>10, <1>11 DEF Next

\* Whatever the capacity and whatever the sequence of operations, tail is count slots after
\* head and last is the slot before tail.
THEOREM IndicesAgreeHolds == Spec => [](TypeOK /\ IndicesAgree)
<1>1. Init => IndexInv
  BY TypeInit, AgreeInit DEF IndexInv
<1>2. IndexInv /\ [Next]_vars => IndexInv'
  BY TypeStep, AgreeStep DEF IndexInv
<1>3. IndexInv => TypeOK /\ IndicesAgree
  BY DEF IndexInv
<1> QED BY <1>1, <1>2, <1>3, PTL DEF Spec

-----------------------------------------------------------------------------
(* The content *)

\* The slot of the i-th item of a queue whose first item is in slot h.
At(h, i) == IF h + (i - 1) < Capacity THEN h + (i - 1) ELSE h + (i - 1) - Capacity

LEMMA AtIsMod ==
    ASSUME NEW h \in Index, NEW i \in 1..Capacity
    PROVE  (h + (i - 1)) % Capacity = At(h, i) /\ At(h, i) \in Index
<1>1. h + (i - 1) \in 0..(2 * Capacity - 1)
  BY CapacityAssumption DEF Index
<1> QED BY <1>1, Wrap, CapacityAssumption DEF At, Index

\* A function on 1..n is a sequence.
LEMMA FunctionIsSeq ==
    ASSUME NEW n \in Nat, NEW f \in [1..n -> Items]
    PROVE  f \in Seq(Items) /\ Len(f) = n
OBVIOUS

\* The n items of array a from slot h on.
Read(a, h, n) == [i \in 1..n |-> a[(h + (i - 1)) % Capacity]]

LEMMA ReadIsSeq ==
    ASSUME NEW a \in [Index -> Items], NEW h \in Index, NEW n \in 0..Capacity
    PROVE  /\ Read(a, h, n) \in Seq(Items) /\ Len(Read(a, h, n)) = n
           /\ \A i \in 1..n : Read(a, h, n)[i] = a[At(h, i)] /\ At(h, i) \in Index
<1>2. \A i \in 1..n : (h + (i - 1)) % Capacity = At(h, i) /\ At(h, i) \in Index
  BY AtIsMod, CapacityAssumption
<1>3. Read(a, h, n) \in [1..n -> Items]
  BY <1>2 DEF Read
<1>4. \A i \in 1..n : Read(a, h, n)[i] = a[At(h, i)]
  BY <1>2 DEF Read
<1> QED BY <1>2, <1>3, <1>4, FunctionIsSeq, CapacityAssumption

LEMMA ContentIsRead == Content = Read(items, head, count) /\ Content' = Read(items', head', count')
BY DEF Content, Read

\* last is the slot of the last item.
LEMMA LastSlot ==
    ASSUME IndexInv, count > 0
    PROVE  last = At(head, count)
<1>1. /\ Capacity \in Nat \ {0} /\ last \in 0..(Capacity - 1)
      /\ head \in 0..(Capacity - 1) /\ count \in 1..Capacity
      /\ tail = IF last + 1 < Capacity THEN last + 1 ELSE 0
      /\ tail = IF head + count < Capacity THEN head + count ELSE head + count - Capacity
  BY Linear DEF Index
<1>2. last = IF head + (count - 1) < Capacity THEN head + (count - 1)
                                             ELSE head + (count - 1) - Capacity
  BY <1>1
<1> QED BY <1>2 DEF At

\* Peak, PeakFromEnd and PeakDoubleFromEnd agree with GetByIndex, for every capacity.
THEOREM EndsAgreeHolds == Spec => []EndsAgree
<1>1. TypeOK /\ IndicesAgree => EndsAgree
  <2> SUFFICES ASSUME IndexInv PROVE EndsAgree
    BY DEF IndexInv
  <2>1. ASSUME count > 0 PROVE last = At(head, count)
    BY <2>1, LastSlot
  <2>2. ASSUME count > 1
        PROVE  (IF last - 1 < 0 THEN Capacity + (last - 1) ELSE last - 1) = At(head, count - 1)
    BY <2>1, <2>2, Linear DEF At, Index
  <2>3. \A i \in 1..count : Content[i] = items[At(head, i)]
    BY ContentIsRead, ReadIsSeq DEF IndexInv, TypeOK
  <2>4. count \in Nat
    BY Linear
  <2>5. At(head, 1) = head
    BY Linear DEF At, Index
  <2>6. ASSUME count > 0 PROVE Peak = Content[1]
    BY <2>3, <2>4, <2>5, <2>6 DEF Peak
  <2> QED BY <2>1, <2>2, <2>3, <2>4, <2>6 DEF EndsAgree, PeakFromEnd, PeakDoubleFromEnd
<1> QED BY <1>1, IndicesAgreeHolds, PTL

-----------------------------------------------------------------------------
(* The refinement *)

\* A sequence that holds the items of n slots is what is read from them.
LEMMA ReadEquals ==
    ASSUME NEW a \in [Index -> Items], NEW h \in Index, NEW n \in 0..Capacity,
           NEW t \in Seq(Items), Len(t) = n, \A i \in 1..n : t[i] = a[At(h, i)]
    PROVE  Read(a, h, n) = t
<1>1. Read(a, h, n) \in Seq(Items) /\ Len(Read(a, h, n)) = n
      /\ \A i \in 1..n : Read(a, h, n)[i] = a[At(h, i)]
  BY ReadIsSeq
<1> QED BY <1>1, SeqEqual

\* The slot after h.
LEMMA NextSlot ==
    ASSUME NEW h \in Index
    PROVE  /\ (h + 1) % Capacity = IF h + 1 < Capacity THEN h + 1 ELSE 0
           /\ (h + 1) % Capacity \in Index
<1>1. h + 1 \in 0..(2 * Capacity - 1) /\ h \in 0..(Capacity - 1) /\ Capacity \in Nat \ {0}
  BY CapacityAssumption DEF Index
<1>2. (h + 1) % Capacity = IF h + 1 < Capacity THEN h + 1 ELSE h + 1 - Capacity
  BY <1>1, Wrap
<1> QED BY <1>1, <1>2 DEF Index

\* Storing an item after the last one appends it.
LEMMA ReadAppend ==
    ASSUME NEW a \in [Index -> Items], NEW b \in [Index -> Items], NEW h \in Index,
           NEW n \in 0..(Capacity - 1), NEW m, m = n + 1, NEW v \in Items,
           b[At(h, m)] = v, \A i \in 1..n : b[At(h, i)] = a[At(h, i)]
    PROVE  Read(b, h, m) = Append(Read(a, h, n), v)
<1> DEFINE t == Append(Read(a, h, n), v)
<1>1. n \in 0..Capacity /\ n + 1 \in 0..Capacity /\ n \in Nat
  BY CapacityAssumption
<1>2. Read(a, h, n) \in Seq(Items) /\ Len(Read(a, h, n)) = n
      /\ \A i \in 1..n : Read(a, h, n)[i] = a[At(h, i)]
  BY <1>1, ReadIsSeq
<1>3. /\ t \in Seq(Items) /\ Len(t) = n + 1 /\ t[n + 1] = v
      /\ \A i \in 1..n : t[i] = Read(a, h, n)[i]
  BY <1>2, AppendProperties
<1> HIDE DEF t
<1>4. ASSUME NEW i \in 1..(n + 1) PROVE t[i] = b[At(h, i)]
  <2>1. CASE i = n + 1 BY <2>1, <1>3
  <2>2. CASE i \in 1..n BY <2>2, <1>2, <1>3
  <2> QED BY <2>1, <2>2, <1>1
<1>5. Read(b, h, n + 1) = t
  BY <1>1, <1>3, <1>4, ReadEquals
<1> QED BY <1>5 DEF t

LEMMA ReadNotEmpty ==
    ASSUME NEW a \in [Index -> Items], NEW h \in Index, NEW n \in 1..Capacity
    PROVE  Read(a, h, n) # << >>
<1>1. n \in 0..Capacity /\ n > 0
  BY CapacityAssumption
<1>2. Read(a, h, n) \in Seq(Items) /\ Len(Read(a, h, n)) = n
  BY <1>1, ReadIsSeq
<1> QED BY <1>1, <1>2, EmptySeq

\* Moving the head forward takes the first item away.
LEMMA ReadTail ==
    ASSUME NEW a \in [Index -> Items], NEW b \in [Index -> Items], NEW h \in Index,
           NEW n \in 1..Capacity, NEW m, m = n - 1, NEW k, k = (h + 1) % Capacity,
           \A i \in 2..n : b[At(h, i)] = a[At(h, i)]
    PROVE  Read(b, k, m) = Tail(Read(a, h, n))
<1> DEFINE t == Tail(Read(a, h, n))
<1>1. n \in 0..Capacity /\ n - 1 \in 0..Capacity /\ n \in Nat /\ Capacity \in Nat \ {0}
  BY CapacityAssumption
<1>2. k = (IF h + 1 < Capacity THEN h + 1 ELSE 0) /\ k \in Index
  BY NextSlot
<1>3. Read(a, h, n) \in Seq(Items) /\ Len(Read(a, h, n)) = n
      /\ \A i \in 1..n : Read(a, h, n)[i] = a[At(h, i)]
  BY <1>1, ReadIsSeq
<1>4. Read(a, h, n) # << >>
  BY ReadNotEmpty
<1>5. t \in Seq(Items) /\ Len(t) = n - 1 /\ \A i \in 1..(n - 1) : t[i] = Read(a, h, n)[i + 1]
  BY <1>3, <1>4, HeadTailProperties
<1> HIDE DEF t
<1>6. ASSUME NEW i \in 1..(n - 1) PROVE t[i] = b[At(k, i)]
  <2>1. i + 1 \in 2..n /\ i + 1 \in 1..n
    BY <1>1
  <2>2. At(k, i) = At(h, i + 1)
    BY <1>1, <1>2 DEF At, Index
  <2>3. t[i] = a[At(h, i + 1)]
    BY <1>3, <1>5, <2>1
  <2> QED BY <2>1, <2>2, <2>3
<1>7. Read(b, k, n - 1) = t
  BY <1>1, <1>2, <1>5, <1>6, ReadEquals
<1> QED BY <1>7 DEF t

\* Forgetting the last item.
LEMMA ReadFront ==
    ASSUME NEW a \in [Index -> Items], NEW h \in Index, NEW n \in 1..Capacity
    PROVE  /\ Read(a, h, n) # << >>
           /\ Read(a, h, n - 1) = SubSeq(Read(a, h, n), 1, Len(Read(a, h, n)) - 1)
<1> DEFINE t == SubSeq(Read(a, h, n), 1, n - 1)
<1>1. n \in 0..Capacity /\ n - 1 \in 0..Capacity /\ n \in Nat
  BY CapacityAssumption
<1>2. Read(a, h, n) \in Seq(Items) /\ Len(Read(a, h, n)) = n
      /\ \A i \in 1..n : Read(a, h, n)[i] = a[At(h, i)]
  BY <1>1, ReadIsSeq
<1>3. Read(a, h, n) # << >>
  BY <1>1, <1>2, EmptySeq
<1>4. \A i \in 1..(n - 1) : Read(a, h, n)[i] \in Items
  BY <1>1, <1>2, ElementOfSeq
<1>5. t \in Seq(Items) /\ Len(t) = n - 1 /\ \A i \in 1..(n - 1) : t[i] = Read(a, h, n)[i]
  <2>1. /\ t \in Seq(Items) /\ Len(t) = IF 1 <= n - 1 THEN (n - 1) - 1 + 1 ELSE 0
        /\ \A i \in 1..((n - 1) - 1 + 1) : t[i] = Read(a, h, n)[1 + i - 1]
    BY <1>1, <1>4, SubSeqProperties
  <2> HIDE DEF t
  <2> QED BY <1>1, <2>1
<1> HIDE DEF t
<1>6. Read(a, h, n - 1) = t
  BY <1>1, <1>2, <1>5, ReadEquals
<1> QED BY <1>2, <1>3, <1>6 DEF t

\* Storing an item before the head puts it first.
LEMMA ReadPutFirst ==
    ASSUME NEW a \in [Index -> Items], NEW b \in [Index -> Items], NEW h \in Index,
           NEW k \in Index, k = (IF h - 1 < 0 THEN Capacity + (h - 1) ELSE h - 1),
           NEW n \in 0..(Capacity - 1), NEW m, m = n + 1, NEW v \in Items,
           b[k] = v, \A j \in Index \ {k} : b[j] = a[j]
    PROVE  Read(b, k, m) = <<v>> \o Read(a, h, n)
<1> DEFINE t == <<v>> \o Read(a, h, n)
<1>1. n \in 0..Capacity /\ n + 1 \in 0..Capacity /\ n \in Nat /\ Capacity \in Nat \ {0}
  BY CapacityAssumption
<1>2. Read(a, h, n) \in Seq(Items) /\ Len(Read(a, h, n)) = n
      /\ \A i \in 1..n : Read(a, h, n)[i] = a[At(h, i)] /\ At(h, i) \in Index
  BY <1>1, ReadIsSeq
<1>3. <<v>> \in Seq(Items) /\ Len(<<v>>) = 1 /\ <<v>>[1] = v
  OBVIOUS
<1>4. /\ t \in Seq(Items) /\ Len(t) = 1 + n
      /\ \A i \in 1..(1 + n) : t[i] = IF i <= 1 THEN <<v>>[i] ELSE Read(a, h, n)[i - 1]
  BY <1>2, <1>3, ConcatProperties
<1> HIDE DEF t
<1>5. ASSUME NEW i \in 1..(n + 1) PROVE t[i] = b[At(k, i)]
  <2>1. CASE i = 1
    <3>1. At(k, 1) = k BY <1>1 DEF At, Index
    <3>2. t[1] = v BY <1>1, <1>3, <1>4
    <3> QED BY <2>1, <3>1, <3>2
  <2>2. CASE i # 1
    <3>1. i - 1 \in 1..n /\ i \in 1..(1 + n) /\ ~(i <= 1)
      BY <1>1, <2>2
    <3>2. At(k, i) = At(h, i - 1) /\ At(k, i) # k
      BY <1>1, <3>1 DEF At, Index
    <3>3. At(h, i - 1) \in Index /\ t[i] = a[At(h, i - 1)]
      BY <1>2, <1>4, <3>1
    <3> QED BY <3>2, <3>3
  <2> QED BY <2>1, <2>2
<1>6. Len(t) = n + 1
  BY <1>1, <1>4
<1>7. Read(b, k, n + 1) = t
  BY <1>1, <1>4, <1>5, <1>6, ReadEquals, Zenon
<1> QED BY <1>7 DEF t

\* Storing an item in the slot of the i-th one replaces it.
LEMMA ReadSet ==
    ASSUME NEW a \in [Index -> Items], NEW b \in [Index -> Items], NEW h \in Index,
           NEW n \in 0..Capacity, NEW i \in 1..n, NEW v \in Items,
           b[At(h, i)] = v, \A k \in Index \ {At(h, i)} : b[k] = a[k],
           NEW t \in Seq(Items), Len(t) = n, t[i] = v,
           \A j \in 1..n : j # i => t[j] = a[At(h, j)]
    PROVE  Read(b, h, n) = t
<1>1. n \in Nat /\ Capacity \in Nat \ {0} /\ h \in 0..(Capacity - 1)
  BY CapacityAssumption DEF Index
<1>2. ASSUME NEW j \in 1..n PROVE t[j] = b[At(h, j)]
  <2>1. j # i => At(h, j) # At(h, i)
    BY <1>1 DEF At
  <2>2. At(h, j) \in Index
    BY <1>1, AtIsMod
  <2> QED BY <2>1, <2>2
<1> QED BY <1>2, ReadEquals

LEMMA ReadNone == ASSUME NEW a, NEW h PROVE Read(a, h, 0) = << >>
BY DEF Read

LEMMA ReadFill ==
    ASSUME NEW v \in Items
    PROVE  Read([i \in Index |-> v], 0, Capacity) = [i \in 1..Capacity |-> v]
<1>1. \A i \in 1..Capacity : (0 + (i - 1)) % Capacity \in Index
  BY AtIsMod, CapacityAssumption DEF Index
<1> QED BY <1>1 DEF Read

\* With room, the new item is the last one.
PutLast(v) ==
    /\ count < Capacity /\ count' = count + 1 /\ head' = head
    /\ items' = [items EXCEPT ![tail] = v]
LEMMA RoomPuts ==
    ASSUME IndexInv, TypeOK', NEW v \in Items, PutLast(v)
    PROVE  bq!Enqueue(v)
<1>t. /\ items \in [Index -> Items] /\ head \in Index /\ count \in 0..Capacity
      /\ items' \in [Index -> Items] /\ head' \in Index /\ count' \in 0..Capacity
      /\ Capacity \in Nat \ {0} /\ count \in Nat
  BY CapacityAssumption DEF IndexInv, TypeOK
<1>r. Content = Read(items, head, count) /\ Content' = Read(items', head', count')
  BY ContentIsRead
<1>l. Content \in Seq(Items) /\ Len(Content) = count
  BY <1>t, <1>r, ReadIsSeq
<1>a. tail = At(head, count + 1) \/ count = Capacity
  BY Linear DEF At, Index
<1>1. /\ count \in 0..(Capacity - 1) /\ tail = At(head, count + 1)
      /\ At(head, count + 1) \in Index
  BY <1>t, <1>a, AtIsMod DEF PutLast
<1>2. \A i \in 1..count : At(head, i) # At(head, count + 1) /\ At(head, i) \in Index
  BY <1>t, <1>1 DEF At, Index
<1>3. /\ items'[At(head, count + 1)] = v
      /\ \A i \in 1..count : items'[At(head, i)] = items[At(head, i)]
  BY <1>t, <1>1, <1>2 DEF PutLast
<1>4. Content' = Append(Content, v)
  <2>0. /\ items \in [Index -> Items] /\ items' \in [Index -> Items] /\ head \in Index
        /\ count \in 0..(Capacity - 1) /\ count' = count + 1 /\ items'[At(head, count')] = v
        /\ \A i \in 1..count : items'[At(head, i)] = items[At(head, i)]
    BY <1>t, <1>1, <1>3 DEF PutLast
  <2>1. Read(items', head, count') = Append(Read(items, head, count), v)
    BY <2>0, ReadAppend
  <2>2. head' = head
    BY DEF PutLast
  <2> QED BY <2>1, <2>2, <1>r, Zenon
<1> QED BY <1>l, <1>4 DEF bq!Enqueue, PutLast

\* Enqueue of the ring buffer is Enqueue of the abstract queue.
LEMMA EnqueuePuts ==
    ASSUME IndexInv, TypeOK', NEW v \in Items, Enqueue(v)
    PROVE  bq!Enqueue(v)
<1>t. /\ items \in [Index -> Items] /\ head \in Index /\ count \in 0..Capacity
      /\ items' \in [Index -> Items] /\ head' \in Index /\ count' \in 0..Capacity
      /\ Capacity \in Nat \ {0} /\ count \in Nat
  BY CapacityAssumption DEF IndexInv, TypeOK
<1>r. Content = Read(items, head, count) /\ Content' = Read(items', head', count')
  BY ContentIsRead
<1>l. Content \in Seq(Items) /\ Len(Content) = count
  BY <1>t, <1>r, ReadIsSeq
<1>a. tail = At(head, count + 1) \/ count = Capacity
  BY Linear DEF At, Index
<1>1. CASE count + 1 > Capacity
  <2> DEFINE k == (head + 1) % Capacity
  <2> DEFINE n == Capacity - 1
  <2>1. /\ count = Capacity /\ head' = k /\ count' = Capacity
        /\ items' = [items EXCEPT ![tail] = v] /\ tail = head
    BY <1>1, <1>t, Linear DEF Enqueue, Index
  <2>2. k = (IF head + 1 < Capacity THEN head + 1 ELSE 0) /\ k \in Index
    BY <1>t, NextSlot
  <2> HIDE DEF k
  <2>3. /\ n \in 0..(Capacity - 1) /\ n + 1 = Capacity /\ At(k, n + 1) = head
        /\ \A i \in 1..n : At(k, i) # head /\ At(k, i) \in Index
    BY <1>t, <2>2 DEF At, Index
  <2>4. /\ items'[At(k, n + 1)] = v
        /\ \A i \in 1..n : items'[At(k, i)] = items[At(k, i)]
    BY <1>t, <2>1, <2>3
  <2>5. Read(items', k, count') = Append(Read(items, k, n), v)
    <3>1. /\ items \in [Index -> Items] /\ items' \in [Index -> Items] /\ k \in Index
          /\ n \in 0..(Capacity - 1) /\ count' = n + 1 /\ items'[At(k, count')] = v
          /\ \A i \in 1..n : items'[At(k, i)] = items[At(k, i)]
      BY <1>t, <2>1, <2>2, <2>3, <2>4
    <3> HIDE DEF n
    <3> QED BY <3>1, ReadAppend
  <2>6. Read(items, k, n) = Tail(Content)
    BY <1>t, <1>r, <2>1, ReadTail DEF k
  <2>7. Content' = Append(Tail(Content), v)
    BY <1>r, <2>1, <2>3, <2>5, <2>6
  <2> QED BY <1>l, <1>t, <2>1, <2>7 DEF bq!Enqueue
<1>2. CASE ~(count + 1 > Capacity)
  <2>1. count < Capacity
    BY <1>t, <1>2
  <2>2. count' = count + 1 /\ head' = head /\ items' = [items EXCEPT ![tail] = v]
    BY <1>2 DEF Enqueue
  <2> QED BY <2>1, <2>2, RoomPuts DEF PutLast
<1> QED BY <1>1, <1>2

\* The step of each operation is the step of the abstract queue.
LEMMA QueueStep == IndexInv /\ TypeOK' /\ [Next]_vars => [bq!Next]_Content
<1> SUFFICES ASSUME IndexInv, TypeOK', [Next]_vars PROVE bq!Next \/ UNCHANGED Content
  OBVIOUS
<1>t. /\ items \in [Index -> Items] /\ head \in Index /\ count \in 0..Capacity
      /\ items' \in [Index -> Items] /\ head' \in Index /\ count' \in 0..Capacity
      /\ Capacity \in Nat \ {0} /\ count \in Nat
  BY CapacityAssumption DEF IndexInv, TypeOK
<1>r. Content = Read(items, head, count) /\ Content' = Read(items', head', count')
  BY ContentIsRead
<1>l. Content \in Seq(Items) /\ Len(Content) = count
  BY <1>t, <1>r, ReadIsSeq
<1>a. tail = At(head, count + 1) \/ count = Capacity
  BY Linear DEF At, Index
<1>1. CASE Dequeue
  <2>1. \A i \in 2..count : At(head, i) # head /\ At(head, i) \in Index
    BY <1>t DEF At, Index
  <2>2. /\ count \in 1..Capacity /\ count' = count - 1 /\ head' = (head + 1) % Capacity
        /\ items' = [items EXCEPT ![head] = Default]
    BY <1>1, <1>t DEF Dequeue
  <2>3. \A i \in 2..count : items'[At(head, i)] = items[At(head, i)]
    BY <1>t, <2>1, <2>2
  <2>4. Content # << >> /\ Content' = Tail(Content)
    <3>0. /\ items \in [Index -> Items] /\ items' \in [Index -> Items] /\ head \in Index
          /\ count \in 1..Capacity /\ count' = count - 1 /\ head' = (head + 1) % Capacity
          /\ \A i \in 2..count : items'[At(head, i)] = items[At(head, i)]
      BY <1>t, <2>2, <2>3
    <3>1. Read(items', head', count') = Tail(Read(items, head, count))
      BY <3>0, ReadTail
    <3>2. Read(items, head, count) # << >>
      BY <3>0, ReadNotEmpty
    <3> QED BY <3>1, <3>2, <1>r, Zenon
  <2> QED BY <2>4 DEF bq!Next, bq!RemoveFirst
<1>2. CASE ShrinkLast
  <2>1. count \in 1..Capacity /\ count' = count - 1 /\ head' = head /\ items' = items
    BY <1>2, <1>t DEF ShrinkLast
  <2>2. Content # << >> /\ Content' = SubSeq(Content, 1, Len(Content) - 1)
    BY <1>t, <1>r, <2>1, ReadFront
  <2> QED BY <2>2 DEF bq!Next, bq!RemoveLast
<1>3. CASE ShrinkHead
  <2>1. count \in 1..Capacity /\ count' = count - 1 /\ head' = (head + 1) % Capacity
        /\ items' = items
    BY <1>3, <1>t DEF ShrinkHead
  <2>2. Content # << >> /\ Content' = Tail(Content)
    <3>0. /\ items \in [Index -> Items] /\ items' \in [Index -> Items] /\ head \in Index
          /\ count \in 1..Capacity /\ count' = count - 1 /\ head' = (head + 1) % Capacity
          /\ \A i \in 2..count : items'[At(head, i)] = items[At(head, i)]
      BY <1>t, <2>1
    <3>1. Read(items', head', count') = Tail(Read(items, head, count))
      BY <3>0, ReadTail
    <3>2. Read(items, head, count) # << >>
      BY <3>0, ReadNotEmpty
    <3> QED BY <3>1, <3>2, <1>r, Zenon
  <2> QED BY <2>2 DEF bq!Next, bq!RemoveFirst
<1>4. CASE Reset \/ Clear
  <2>1. Content' = << >>
    BY <1>4, <1>r, ReadNone DEF Reset, Clear
  <2> QED BY <2>1 DEF bq!Next, bq!Clear
<1>6. ASSUME NEW v \in Items, Enqueue(v) PROVE bq!Next
  BY <1>6, EnqueuePuts DEF bq!Next
<1>7. ASSUME NEW v \in Items, ExtendAfterLast(v) PROVE bq!Next
  <2>1. bq!Enqueue(v)
    BY <1>7, RoomPuts DEF ExtendAfterLast, PutLast
  <2> QED BY <2>1 DEF bq!Next
<1>8. ASSUME NEW v \in Items, Fill(v) PROVE bq!Next
  <2>1. Content' = [i \in 1..Capacity |-> v]
    BY <1>8, <1>r, ReadFill DEF Fill
  <2> QED BY <2>1 DEF bq!Next, bq!Fill
<1>9. ASSUME NEW v \in Items, ExtendBeforeHead(v) PROVE bq!Next
  <2>1. /\ count \in 0..(Capacity - 1) /\ count' = count + 1 /\ count < Capacity
        /\ head' = (IF head - 1 < 0 THEN Capacity + (head - 1) ELSE head - 1)
        /\ items' = [items EXCEPT ![head'] = v]
    BY <1>9, <1>t DEF ExtendBeforeHead
  <2>2. items'[head'] = v /\ \A j \in Index \ {head'} : items'[j] = items[j]
    BY <1>t, <2>1
  <2>3. Content' = <<v>> \o Content
    <3>1. Read(items', head', count') = <<v>> \o Read(items, head, count)
      <4>1. /\ items \in [Index -> Items] /\ items' \in [Index -> Items] /\ head \in Index
            /\ head' \in Index /\ count \in 0..(Capacity - 1) /\ count' = count + 1
            /\ head' = (IF head - 1 < 0 THEN Capacity + (head - 1) ELSE head - 1)
            /\ items'[head'] = v /\ \A j \in Index \ {head'} : items'[j] = items[j]
        BY <1>t, <2>1, <2>2
      <4> QED BY <4>1, ReadPutFirst, SMTT(30)
    <3> QED BY <3>1, <1>r, <2>1, Zenon
  <2> QED BY <1>l, <2>1, <2>3 DEF bq!Next, bq!PutFirst
<1>10. ASSUME NEW v \in Items, NEW i \in 0..(count - 1), SetByIndex(v, i) PROVE bq!Next
  <2>1. i + 1 \in 1..count /\ i + 1 \in 1..Capacity /\ (i + 1) - 1 = i
    BY <1>t
  <2>2. (head + i) % Capacity = At(head, i + 1)
    BY <1>t, <2>1, AtIsMod
  <2>3. items' = [items EXCEPT ![At(head, i + 1)] = v] /\ count' = count /\ head' = head
    BY <1>10, <2>2 DEF SetByIndex, SequenceIndexToActualIndex
  <2>4. Content' = [Content EXCEPT ![i + 1] = v]
    <3> DEFINE k == i + 1
    <3> DEFINE t == [Content EXCEPT ![k] = v]
    <3>1. Content \in Seq(Items) /\ Len(Content) = count /\ k \in 1..count
          /\ \A j \in 1..count : Content[j] = items[At(head, j)]
      <4>1. \A j \in 1..count : Read(items, head, count)[j] = items[At(head, j)]
        BY <1>t, ReadIsSeq
      <4> QED BY <1>l, <1>r, <2>1, <4>1
    <3>2. /\ t \in Seq(Items) /\ Len(t) = count
          /\ \A j \in 1..count : t[j] = IF j = k THEN v ELSE Content[j]
      <4> HIDE DEF k
      <4> QED BY <3>1, ExceptSeq
    <3>3. t[k] = v /\ \A j \in 1..count : j # k => t[j] = items[At(head, j)]
      <4> HIDE DEF k, t
      <4> QED BY <3>1, <3>2
    <3>4. /\ items'[At(head, k)] = v
          /\ \A j \in Index \ {At(head, k)} : items'[j] = items[j]
      <4>1. At(head, k) \in Index
        BY <1>t, <2>1, AtIsMod
      <4> QED BY <1>t, <2>3, <4>1
    <3>5. items \in [Index -> Items] /\ items' \in [Index -> Items] /\ head \in Index
          /\ count \in 0..Capacity
      BY <1>t
    <3>6. Read(items', head, count) = t
      <4>1. t \in Seq(Items) /\ Len(t) = count /\ k \in 1..count
        BY <3>1, <3>2
      <4> HIDE DEF k, t
      <4> QED BY <4>1, <3>3, <3>4, <3>5, ReadSet, SMTT(30)
    <3> QED BY <3>6, <1>r, <2>3
  <2>5. bq!Set(i + 1, v)
    BY <2>4 DEF bq!Set
  <2> QED BY <1>l, <2>1, <2>5 DEF bq!Next
<1>11. CASE UNCHANGED vars
  BY <1>11, <1>r DEF vars
<1> QED BY <1>1, <1>2, <1>3, <1>4, <1>6, <1>7, <1>8, <1>9, <1>10, <1>11 DEF Next

\* The ring buffer implements the bounded double-ended queue, for every capacity.
THEOREM QueueImplemented == Spec => ImplementsQueue
<1>1. Init => bq!Init
  BY ContentIsRead, ReadNone DEF Init, bq!Init
<1>2. TypeOK /\ IndicesAgree /\ TypeOK' /\ [Next]_vars => [bq!Next]_Content
  BY QueueStep DEF IndexInv
<1> QED BY <1>1, <1>2, IndicesAgreeHolds, PTL DEF Spec, ImplementsQueue, bq!Spec

-----------------------------------------------------------------------------
(* The matcher *)

\* c is the end of s, as much of it as fits in the window.
IsWindow(c, s) ==
    /\ Len(c) = IF Len(s) < Capacity THEN Len(s) ELSE Capacity
    /\ \A i \in 1..Len(c) : c[i] = s[Len(s) - Len(c) + i]

\* One more byte moves the window by one place.
LEMMA WindowMoves ==
    ASSUME NEW c \in Seq(Items), NEW s \in Seq(Items), NEW b \in Items, IsWindow(c, s)
    PROVE  IsWindow(Append(IF Len(c) < Capacity THEN c ELSE Tail(c), b), Append(s, b))
<1>0. Capacity \in Nat \ {0} /\ Len(c) \in Nat /\ Len(s) \in Nat
  BY CapacityAssumption
<1> DEFINE t == Append(s, b)
<1>1. Len(t) = Len(s) + 1 /\ t[Len(s) + 1] = b /\ \A i \in 1..Len(s) : t[i] = s[i]
  OBVIOUS
<1> HIDE DEF t
<1>2. CASE Len(c) < Capacity
  <2> DEFINE d == Append(c, b)
  <2>1. Len(d) = Len(c) + 1 /\ d[Len(c) + 1] = b /\ \A i \in 1..Len(c) : d[i] = c[i]
    OBVIOUS
  <2> HIDE DEF d
  <2>2. Len(c) = Len(s) /\ \A i \in 1..Len(c) : c[i] = s[i]
    <3>1. Len(c) = Len(s)
      BY <1>0, <1>2 DEF IsWindow
    <3>2. \A i \in 1..Len(c) : Len(s) - Len(c) + i = i
      BY <1>0, <3>1
    <3>3. \A i \in 1..Len(c) : c[i] = s[Len(s) - Len(c) + i]
      BY Zenon DEF IsWindow
    <3> QED BY <3>1, <3>2, <3>3, Zenon
  <2>3. Len(d) = Len(t) /\ Len(d) = IF Len(t) < Capacity THEN Len(t) ELSE Capacity
    BY <1>0, <1>1, <1>2, <2>1, <2>2
  <2>4. \A i \in 1..Len(d) : d[i] = t[i] /\ Len(t) - Len(d) + i = i
    BY <1>0, <1>1, <2>1, <2>2
  <2>5. IsWindow(d, t)
    BY <2>3, <2>4, Zenon DEF IsWindow
  <2> QED BY <1>2, <2>5 DEF d, t
<1>3. CASE ~(Len(c) < Capacity)
  <2> DEFINE r == Tail(c)
             d == Append(r, b)
  <2>0. Len(c) = Capacity /\ Len(s) >= Capacity
    BY <1>0, <1>3 DEF IsWindow
  <2>1. /\ Len(c) = Capacity /\ Len(s) >= Capacity
        /\ \A i \in 1..Capacity : c[i] = s[Len(s) - Capacity + i]
    BY <2>0, Zenon DEF IsWindow
  <2>2. r \in Seq(Items) /\ Len(r) = Capacity - 1 /\ \A i \in 1..Capacity - 1 : r[i] = c[i + 1]
    BY <1>0, <2>1
  <2> HIDE DEF r
  <2>3. Len(d) = Capacity /\ d[Capacity] = b /\ \A i \in 1..Capacity - 1 : d[i] = r[i]
    BY <1>0, <2>2
  <2> HIDE DEF d
  <2>4. \A i \in 1..Capacity : d[i] = t[Len(t) - Capacity + i]
    <3> SUFFICES ASSUME NEW i \in 1..Capacity PROVE d[i] = t[Len(s) + 1 - Capacity + i]
      BY <1>0, <1>1
    <3>1. CASE i = Capacity
      BY <1>0, <1>1, <2>3, <3>1
    <3>2. CASE i # Capacity
      <4>1. /\ i \in 1..Capacity - 1 /\ i + 1 \in 1..Capacity
            /\ Len(s) + 1 - Capacity + i = Len(s) - Capacity + (i + 1)
            /\ Len(s) + 1 - Capacity + i \in 1..Len(s)
        BY <1>0, <2>1, <3>2
      <4>2. d[i] = s[Len(s) - Capacity + (i + 1)]
        BY <2>1, <2>2, <2>3, <4>1
      <4> QED BY <1>1, <4>1, <4>2
    <3> QED BY <3>1, <3>2
  <2>5. IsWindow(d, t)
    BY <1>0, <1>1, <2>1, <2>3, <2>4 DEF IsWindow
  <2> QED BY <1>3, <2>5 DEF d, r, t
<1> QED BY <1>2, <1>3

\* The inductive invariant: the queue holds the end of the stream.
MatchInv == IndexInv /\ stream \in Seq(Items) /\ IsWindow(Content, stream) /\ MatchIsSuffix

LEMMA Shift ==
    ASSUME NEW n \in Nat
    PROVE  /\ \A i \in 1..n : i - 1 \in 0..(n - 1) /\ (i - 1) + 1 = i
           /\ \A j \in 0..(n - 1) : j + 1 \in 1..n /\ (j + 1) - 1 = j
OBVIOUS

\* The comparison loop reads the queue from its head.
LEMMA ComparesContent ==
    ASSUME TypeOK'
    PROVE  Compares <=> \A i \in 1..count' : Content'[i] = substring[i]
<1>1. count' \in Nat /\ Capacity \in Nat
  BY CapacityAssumption DEF TypeOK
<1>2. \A i \in 1..count' : Content'[i] = items'[(head' + (i - 1)) % Capacity]
  BY DEF Content
<1>3. ASSUME Compares, NEW i \in 1..count' PROVE Content'[i] = substring[i]
  <2>1. i - 1 \in 0..(count' - 1) /\ (i - 1) + 1 = i
    BY <1>1, <1>3, Shift, Zenon
  <2>2. items'[(head' + (i - 1)) % Capacity] = substring[(i - 1) + 1]
    BY <1>3, <2>1 DEF Compares
  <2> QED BY <1>2, <2>1, <2>2
<1>4. ASSUME \A i \in 1..count' : Content'[i] = substring[i], NEW j \in 0..(count' - 1)
      PROVE  items'[(head' + j) % Capacity] = substring[j + 1]
  <2>1. j + 1 \in 1..count' /\ (j + 1) - 1 = j
    BY <1>1, <1>4, Shift, Zenon
  <2>2. Content'[j + 1] = items'[(head' + ((j + 1) - 1)) % Capacity] /\ Content'[j + 1] = substring[j + 1]
    BY <1>2, <1>4, <2>1
  <2> QED BY <2>1, <2>2
<1> QED BY <1>3, <1>4 DEF Compares

LEMMA WindowIsSuffix ==
    ASSUME NEW c \in Seq(Items), NEW s \in Seq(Items), IsWindow(c, s)
    PROVE  (Len(substring) = Len(c) /\ \A i \in 1..Len(c) : c[i] = substring[i]) <=>
               /\ Len(s) >= Len(substring)
               /\ SubSeq(s, Len(s) - Len(substring) + 1, Len(s)) = substring
<1>1. /\ Capacity \in Nat \ {0} /\ Len(c) \in Nat /\ Len(s) \in Nat
      /\ substring \in Seq(Items) /\ Len(substring) = Capacity
  BY CapacityAssumption, SubstringAssumption
<1>2. Len(substring) = Len(c) <=> Len(s) >= Capacity
  BY <1>1 DEF IsWindow
<1>3. ASSUME Len(s) >= Capacity
      PROVE  (\A i \in 1..Len(c) : c[i] = substring[i]) <=> SubSeq(s, Len(s) - Capacity + 1, Len(s)) = substring
  <2> DEFINE e == SubSeq(s, Len(s) - Capacity + 1, Len(s))
  <2>1. e \in Seq(Items) /\ Len(e) = Capacity /\ \A i \in 1..Capacity : e[i] = s[Len(s) - Capacity + i]
    BY <1>1, <1>3
  <2>0. Len(c) = Capacity
    BY <1>1, <1>3 DEF IsWindow
  <2>2. Len(c) = Capacity /\ \A i \in 1..Capacity : c[i] = s[Len(s) - Capacity + i]
    BY <2>0, Zenon DEF IsWindow
  <2> HIDE DEF e
  <2>3. \A i \in 1..Capacity : c[i] = e[i]
    BY <2>1, <2>2
  <2>4. e = substring <=> \A i \in 1..Capacity : e[i] = substring[i]
    BY <1>1, <2>1
  <2> QED BY <2>2, <2>3, <2>4 DEF e
<1> QED BY <1>1, <1>2, <1>3

LEMMA MatchStep == MatchInv /\ [MatchNext]_matchVars => MatchInv'
<1> SUFFICES ASSUME MatchInv, [MatchNext]_matchVars PROVE MatchInv'
  OBVIOUS
<1>1. CASE UNCHANGED matchVars
  BY <1>1 DEF matchVars, MatchInv, IndexInv, TypeOK, IndicesAgree, IsWindow, Content, MatchIsSuffix
<1>2. ASSUME NEW b \in Items, IsMatchOnEnqeue(b) PROVE MatchInv'
  <2>1. /\ Enqueue(b) /\ stream' = Append(stream, b)
        /\ isMatch' = (Len(substring) = count' /\ Compares)
    BY <1>2 DEF IsMatchOnEnqeue
  <2>2. [Next]_vars
    BY <2>1 DEF Next
  <2>3. IndexInv /\ stream \in Seq(Items) /\ IsWindow(Content, stream)
    BY DEF MatchInv
  <2>4. TypeOK' /\ IndexInv'
    BY <2>2, <2>3, TypeStep, AgreeStep DEF IndexInv
  <2>5. /\ Content \in Seq(Items) /\ Content' \in Seq(Items) /\ Len(Content') = count'
    <3>1. /\ items \in [Index -> Items] /\ head \in Index /\ count \in 0..Capacity
          /\ items' \in [Index -> Items] /\ head' \in Index /\ count' \in 0..Capacity
      BY <2>3, <2>4 DEF IndexInv, TypeOK
    <3> QED BY <3>1, ContentIsRead, ReadIsSeq
  <2>6. Content' = Append(IF Len(Content) < Capacity THEN Content ELSE Tail(Content), b)
    BY <2>1, <2>3, <2>4, EnqueuePuts DEF bq!Enqueue
  <2>7. stream' \in Seq(Items) /\ IsWindow(Content', stream')
    BY <2>1, <2>3, <2>5, <2>6, WindowMoves
  <2>8. (Len(substring) = Len(Content') /\ \A i \in 1..Len(Content') : Content'[i] = substring[i]) <=>
            /\ Len(stream') >= Len(substring)
            /\ SubSeq(stream', Len(stream') - Len(substring) + 1, Len(stream')) = substring
    BY <2>5, <2>7, WindowIsSuffix
  <2>9. MatchIsSuffix'
    BY <2>1, <2>4, <2>5, <2>8, ComparesContent DEF MatchIsSuffix
  <2> QED BY <2>4, <2>7, <2>9 DEF MatchInv, IsWindow
<1> QED BY <1>1, <1>2 DEF MatchNext

\* SubstringMatchQueue.IsMatchOnEnqeue is true exactly when the bytes so far end with the
\* substring, for every substring, every stream and every alphabet.
THEOREM MatchIsSuffixHolds == MatchSpec => []MatchIsSuffix
<1>1. MatchInit => MatchInv
  <2> SUFFICES ASSUME MatchInit PROVE MatchInv
    OBVIOUS
  <2>1. IndexInv
    BY TypeInit, AgreeInit DEF MatchInit, IndexInv
  <2>2. stream = << >> /\ Content = << >> /\ isMatch = FALSE
    BY ContentIsRead, ReadNone DEF MatchInit, Init
  <2>3. Capacity > 0 /\ Len(substring) = Capacity /\ Capacity \in Nat
    BY CapacityAssumption, SubstringAssumption
  <2> QED BY <2>1, <2>2, <2>3 DEF MatchInv, IsWindow, MatchIsSuffix
<1>2. MatchInv => MatchIsSuffix
  BY DEF MatchInv
<1> QED BY <1>1, <1>2, MatchStep, PTL DEF MatchSpec
=============================================================================

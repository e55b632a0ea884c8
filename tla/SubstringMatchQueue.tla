------------------------ MODULE SubstringMatchQueue ------------------------
(***************************************************************************)
(* The stream matcher SubstringMatchQueue (Izhg.Lib.Collections/Collections/ *)
(* SubstringMatchQueue.cs): a QueueCircled whose capacity is the length of    *)
(* the substring is the window over the bytes seen so far.                    *)
(***************************************************************************)
EXTENDS QueueCircled

CONSTANTS substring,      \* as a sequence of Items
          MaxBytes        \* bound on the bytes that arrive

ASSUME SubstringAssumption ==
    substring \in Seq(Items) /\ Len(substring) = Capacity /\ MaxBytes \in Nat

VARIABLES isMatch,        \* the last result of IsMatchOnEnqeue
          stream          \* every byte that was given to it

matchVars == <<items, count, head, tail, last, isMatch, stream>>

MatchInit == Init /\ isMatch = FALSE /\ stream = << >>

\* Mutant: the bytes are compared in the order of the array.
ComparesArray == \A i \in 0..(Capacity - 1) : items'[i] = substring[i + 1]

\* The comparison loop, on the queue after Enqueue
Compares ==
    \A i \in 0..(count' - 1) : items'[(head' + i) % Capacity] = substring[i + 1]

IsMatchOnEnqeue(b) ==
    /\ Len(stream) < MaxBytes
    /\ Enqueue(b)
    /\ isMatch' = (Len(substring) = count' /\ Compares)
    /\ stream' = Append(stream, b)

MatchNext == \E b \in Items : IsMatchOnEnqeue(b)
MatchSpec == MatchInit /\ [][MatchNext]_matchVars

-----------------------------------------------------------------------------

\* A match is reported exactly when the stream ends with the substring, however often the
\* window has wrapped and whatever partial matches came before.
MatchIsSuffix ==
    isMatch <=> /\ Len(stream) >= Len(substring)
                /\ SubSeq(stream, Len(stream) - Len(substring) + 1, Len(stream)) = substring
=============================================================================

----------------------- MODULE MC_SubstringMatchQueue -----------------------
(* The end of an HTTP header, for checking QueueCircled and the matcher built on it with TLC:   *)
(* a queue is used with all its operations, or as the window of a matcher.                       *)
EXTENDS SubstringMatchQueue
CONSTANTS cr, lf, other
VARIABLE use

Bytes == {cr, lf, other}
EndOfHeader == <<cr, lf, cr, lf>>

MCInit == MatchInit /\ use \in {"queue", "matcher"}
MCNext ==
    /\ \/ use = "queue" /\ Next /\ UNCHANGED <<isMatch, stream>>
       \/ use = "matcher" /\ MatchNext
    /\ UNCHANGED use
MCSpec == MCInit /\ [][MCNext]_<<matchVars, use>>
=============================================================================

----------------------- MODULE MC_AsyncAutoResetEvent -----------------------
(* Model values and symmetry for checking AsyncAutoResetEvent with TLC. *)
EXTENDS AsyncAutoResetEvent, TLC
CONSTANTS w1, w2, k1, k2
MCWaiters == {w1, w2}
MCTokens == {k1, k2}
Symmetry == Permutations(MCWaiters) \cup Permutations(MCTokens)
=============================================================================

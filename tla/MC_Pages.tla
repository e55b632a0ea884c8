------------------------------ MODULE MC_Pages ------------------------------
(* Model-checking instance of Pages.  Ids and values are only compared. *)
EXTENDS Pages, TLC

Symmetry == Permutations(Consoles) \cup Permutations(Connections) \cup Permutations(Values)
=============================================================================

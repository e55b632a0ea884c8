----------------------- MODULE MC_ConnectionsToDomain -----------------------
(* Model values and symmetry for checking ConnectionsToDomain with TLC. *)
EXTENDS ConnectionsToDomain, TLC
CONSTANTS s1, s2, c1, c2, n1, n2
Two == {s1, s2}
TwoClients == {c1, c2}
TwoNodes == {n1, n2}
Symmetry == Permutations(Sessions) \cup Permutations(Clients) \cup Permutations(Nodes)
=============================================================================

---------------------------- MODULE MC_ServerBase ----------------------------
(* The connections and the client objects, for checking ServerBase with TLC. *)
EXTENDS ServerBase
CONSTANTS c1, c2, o1, o2
Two == {c1, c2}
TwoClients == {o1, o2}
=============================================================================

-------------------------- MODULE MC_GrpcConnection --------------------------
(* Model values for checking GrpcConnection with TLC. *)
EXTENDS GrpcConnection
CONSTANTS p1, p2, d1, d2
MCProducers == {p1, p2}
MCData == {d1, d2}
=============================================================================

-------------------------- MODULE MCPortRendezvous --------------------------
(* Instances of PortRendezvous for TLC. *)
EXTENDS PortRendezvous, TLC

Symmetry == Permutations(Clients)
=============================================================================

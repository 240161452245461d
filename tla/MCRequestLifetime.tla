------------------------- MODULE MCRequestLifetime -------------------------
(* Instances of RequestLifetime for TLC. *)
EXTENDS RequestLifetime, TLC

Symmetry == Permutations(Interactive) \cup Permutations(Pids)
=============================================================================

-------------------------- MODULE MCInteractiveIO --------------------------
(* Instances of InteractiveIO for TLC. *)
EXTENDS InteractiveIO
=============================================================================

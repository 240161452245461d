-------------------------- MODULE MCSteamBootstrap --------------------------
(* Instances of SteamBootstrap for TLC. *)
EXTENDS SteamBootstrap

MCEnvironments ==
    {{}, {"kill", "full"}, {"term"}, {"term", "full", "crash"}, {"kill", "power"}}
=============================================================================

----------------------------- MODULE MCVmRuntime -----------------------------
(* Instances of VmRuntime for TLC. *)
EXTENDS VmRuntime

\* Nothing goes wrong; the session does, in each of its ways; launchers and boots do,
\* but no VM ends; VMs crash, are stopped and answer late.
MCEnvironments ==
    {{}, {"exec"}, {"hang", "deaf"}, {"die", "bus"}, {"noise"},
     {"kvm", "interrupt", "stall"}, {"crash", "stop", "slow"}}
=============================================================================

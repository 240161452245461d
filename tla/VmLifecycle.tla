----------------------------- MODULE VmLifecycle -----------------------------
(***************************************************************************)
(* The VM of one runtime as its launchers see it: VirtualMachine.ensure    *)
(* and ready, run by any number of launchers under one flock; the transient*)
(* systemd unit that owns the VM; the VM's own boot, answers and death;    *)
(* `x86-arm stop`, which takes no lock; and the request of muvm's client,  *)
(* which comes after ensure and is not protected by anything.  VmRuntime   *)
(* adds what happens inside the boot.                                      *)
(***************************************************************************)
EXTENDS Naturals, FiniteSets

CONSTANTS
    Launchers,  \* processes that call ensure, each once
    Environments, \* sets of the things in AllFaults that may happen together
    NoLauncher

\* What may go wrong in the guest's session (GuestSession), which ends the boot.
SessionFaults == {"exec", "hang", "deaf", "die", "noise", "bus"}

AllFaults == SessionFaults \cup
             {"kvm",        \* a launcher has no access to /dev/kvm
              "interrupt",  \* a launcher is killed, or interrupted, in ensure
              "slow",       \* a serving VM misses the half second of a probe
              "stall",      \* a boot never finishes and never exits
              "crash",      \* the VM exits by itself
              "stop"}       \* the user, or the end of the session, stops it

ASSUME EnvironmentsAssumption == Environments \subseteq SUBSET AllFaults
ASSUME LaunchersAssumption == IsFiniteSet(Launchers)
ASSUME NoLauncherAssumption == NoLauncher \notin Launchers

VARIABLES
    pc,         \* where each launcher is in ensure, or after it
    lock,       \* the launcher that holds startup.lock
    late,       \* launchers whose 45 s are over
    unit,       \* the systemd unit
    vm,         \* the VM process in it
    starts,     \* how many VMs were started: the last one's number
    served,     \* the VMs that came to answer requests
    gone,       \* the VMs that crashed, or were stopped
    answered,   \* the VM whose answer each launcher accepted, or 0
    faults      \* the faults of this environment

vars == <<pc, lock, late, unit, vm, starts, served, gone, answered, faults>>
vmVars == <<unit, vm, starts, served, gone>>

Accepted == {"ok", "joined", "missed"}
Ended == Accepted \cup {"nokvm", "refused", "exited", "timeout", "killed"}
Holding == {"first", "reset", "run", "poll", "check"}

TypeOK ==
    /\ pc \in [Launchers -> {"start", "blocked"} \cup Holding \cup Ended]
    /\ lock \in Launchers \cup {NoLauncher}
    /\ late \subseteq Launchers
    /\ unit \in {"none", "active", "stopping", "failed"}
    /\ vm \in {"off", "booting", "serving", "stuck"}
    /\ starts \in 0 .. Cardinality(Launchers)
    /\ served \subseteq 1 .. starts
    /\ gone \subseteq 1 .. starts
    /\ answered \in [Launchers -> 0 .. starts]
    /\ faults \in Environments

Init ==
    /\ pc = [l \in Launchers |-> "start"]
    /\ lock = NoLauncher
    /\ late = {}
    /\ unit = "none"
    /\ vm = "off"
    /\ starts = 0
    /\ served = {}
    /\ gone = {}
    /\ answered = [l \in Launchers |-> 0]
    /\ faults \in Environments

Move(l, from, to) ==
    /\ pc[l] = from
    /\ pc' = [pc EXCEPT ![l] = to]

\* Leaving the `with` block, by return, by exception or by death.
Leave(l, to) ==
    /\ pc' = [pc EXCEPT ![l] = to]
    /\ lock' = IF lock = l THEN NoLauncher ELSE lock

\* Mutant: a connection that is taken up counts as an answer.
Ready_ConnectOnly(result) == result = (vm \in {"booting", "serving"})

\* ready(): TRUE when the worker ran a command within half a second.
Ready(result) ==
    \/ result = (vm = "serving")
    \/ "slow" \in faults /\ vm = "serving" /\ result = FALSE

---------------------------------------------------------------------------
(* ensure().                                                               *)

Open(l) ==
    /\ \/ Move(l, "start", "blocked")
       \/ "kvm" \in faults /\ Move(l, "start", "nokvm")
    /\ UNCHANGED <<lock, late, vmVars, answered, faults>>

\* Mutant: no flock.
Lock_Shared(l) ==
    /\ Move(l, "blocked", "first")
    /\ lock' = l
    /\ UNCHANGED <<late, vmVars, answered, faults>>

Lock(l) ==
    /\ lock = NoLauncher
    /\ Move(l, "blocked", "first")
    /\ lock' = l
    /\ UNCHANGED <<late, vmVars, answered, faults>>

FirstProbe(l) ==
    /\ pc[l] = "first"
    /\ \/ /\ Ready(TRUE)
          /\ Leave(l, "ok")
          /\ answered' = [answered EXCEPT ![l] = starts]
       \/ /\ Ready(FALSE)
          /\ Move(l, "first", "reset")
          /\ UNCHANGED <<lock, answered>>
    /\ UNCHANGED <<late, vmVars, faults>>

\* Mutant: no reset-failed; --collect, which comes later, is relied on.
ResetFailed_Skipped(l) ==
    /\ Move(l, "reset", "run")
    /\ UNCHANGED <<lock, late, vmVars, answered, faults>>

\* Mutant: whatever is in the unit is taken down before the start.
ResetFailed_Stops(l) ==
    /\ Move(l, "reset", "run")
    /\ unit' = "none"
    /\ vm' = "off"
    /\ UNCHANGED <<lock, late, starts, served, gone, answered, faults>>

\* reset-failed forgets a failed unit and leaves any other alone.
ResetFailed(l) ==
    /\ Move(l, "reset", "run")
    /\ unit' = IF unit = "failed" THEN "none" ELSE unit
    /\ UNCHANGED <<lock, late, vm, starts, served, gone, answered, faults>>

\* systemd-run with check=True: a unit that is loaded already is an error.
RunUnit(l) ==
    /\ pc[l] = "run"
    /\ \/ /\ unit = "none"
          /\ unit' = "active"
          /\ vm' = "booting"
          /\ starts' = starts + 1
          /\ Move(l, "run", "poll")
          /\ UNCHANGED lock
       \/ /\ unit # "none"
          /\ Leave(l, "refused")
          /\ UNCHANGED <<unit, vm, starts>>
    /\ UNCHANGED <<late, served, gone, answered, faults>>

\* One turn of the loop.  A turn that comes before the next is-active changes
\* nothing, so the turns here are those that end with it.
Poll(l) ==
    /\ pc[l] = "poll"
    /\ l \notin late
    /\ \/ /\ Ready(TRUE)
          /\ Leave(l, "ok")
          /\ answered' = [answered EXCEPT ![l] = starts]
       \/ /\ Ready(FALSE)
          /\ Move(l, "poll", "check")
          /\ UNCHANGED <<lock, answered>>
    /\ UNCHANGED <<late, vmVars, faults>>

\* "VM exited during startup"
Check(l) ==
    /\ pc[l] = "check"
    /\ \/ unit = "active" /\ Move(l, "check", "poll") /\ UNCHANGED lock
       \/ unit # "active" /\ Leave(l, "exited")
    /\ UNCHANGED <<late, vmVars, answered, faults>>

\* The 45 s end only on a boot that does not finish or on missed answers.
Expire(l) ==
    /\ pc[l] \in {"poll", "check"}
    /\ vm = "stuck" \/ "slow" \in faults
    /\ late' = late \cup {l}
    /\ UNCHANGED <<pc, lock, vmVars, answered, faults>>

\* Mutant: the loop has no deadline.
Timeout_Never(l) == FALSE

\* "VM did not start": the unit is left as it is.
Timeout(l) ==
    /\ pc[l] = "poll"
    /\ l \in late
    /\ Leave(l, "timeout")
    /\ UNCHANGED <<late, vmVars, answered, faults>>

Interrupt(l) ==
    /\ "interrupt" \in faults
    /\ pc[l] \in {"blocked", "ok"} \cup Holding
    /\ Leave(l, "killed")
    /\ UNCHANGED <<late, vmVars, answered, faults>>

\* The muvm client that run_process starts: it joins a VM that serves, which need not
\* be the one that answered.  What it does where there is none is muvm's own.
Request(l) ==
    /\ pc[l] = "ok"
    /\ pc' = [pc EXCEPT ![l] = IF vm = "serving" THEN "joined" ELSE "missed"]
    /\ UNCHANGED <<lock, late, vmVars, answered, faults>>

---------------------------------------------------------------------------
(* The unit and the VM.                                                    *)

BootDone ==
    /\ unit = "active"
    /\ vm = "booting"
    /\ vm' = "serving"
    /\ served' = served \cup {starts}
    /\ UNCHANGED <<pc, lock, late, unit, starts, gone, answered, faults>>

BootStalls ==
    /\ "stall" \in faults
    /\ vm = "booting"
    /\ vm' = "stuck"
    /\ UNCHANGED <<pc, lock, late, unit, starts, served, gone, answered, faults>>

\* prepare-session failed, and with it muvm.
BootFails ==
    /\ faults \cap SessionFaults # {}
    /\ unit = "active"
    /\ vm = "booting"
    /\ vm' = "off"
    /\ unit' = "failed"
    /\ UNCHANGED <<pc, lock, late, starts, served, gone, answered, faults>>

Crash ==
    /\ "crash" \in faults
    /\ unit = "active"
    /\ vm' = "off"
    /\ unit' = "failed"
    /\ gone' = gone \cup {starts}
    /\ UNCHANGED <<pc, lock, late, starts, served, answered, faults>>

\* --collect: a failed unit is unloaded.
Collect ==
    /\ unit = "failed"
    /\ unit' = "none"
    /\ UNCHANGED <<pc, lock, late, vm, starts, served, gone, answered, faults>>

\* stop(), or PartOf=graphical-session.target.
Stop ==
    /\ "stop" \in faults
    /\ unit = "active"
    /\ unit' = "stopping"
    /\ UNCHANGED <<pc, lock, late, vm, starts, served, gone, answered, faults>>

\* TimeoutStopSec ends even a VM that does not react.
Stopped ==
    /\ unit = "stopping"
    /\ unit' = "none"
    /\ vm' = "off"
    /\ gone' = gone \cup {starts}
    /\ UNCHANGED <<pc, lock, late, starts, served, answered, faults>>

EnsureStep(l) ==
    \/ Lock(l) \/ FirstProbe(l) \/ ResetFailed(l) \/ RunUnit(l)
    \/ Poll(l) \/ Check(l) \/ Timeout(l) \/ Request(l)

BootStep == BootDone \/ BootFails \/ BootStalls

UnitStep == BootStep \/ Collect \/ Stopped

Next ==
    \/ \E l \in Launchers :
          Open(l) \/ EnsureStep(l) \/ Expire(l) \/ Interrupt(l)
    \/ UnitStep \/ Crash \/ Stop

Spec == Init /\ [][Next]_vars

(* Launchers are scheduled and time passes for them; systemd finishes what *)
(* it began, and a boot ends or stalls.                                    *)
Fairness ==
    /\ \A l \in Launchers : WF_vars(EnsureStep(l)) /\ WF_vars(Expire(l))
    /\ WF_vars(UnitStep)

FairSpec == Spec /\ Fairness

---------------------------------------------------------------------------
\* A launcher that goes on to run its command was answered by a VM that had
\* finished its boot, not by a socket that merely accepts ("a protocol request
\* confirms readiness", docs/design.md).
OkMeansServed ==
    \A l \in Launchers : pc[l] \in Accepted => answered[l] \in served

\* Between the answer and the request nothing holds the VM.  A launcher whose request
\* finds none serving was answered by a VM that has crashed or was stopped since: no
\* other launcher's start, probe or failure takes a VM that answered away from it, and
\* no VM leaves by itself (ensure, VirtualMachine.stop, execute).
AnsweredIsJoined ==
    \A l \in Launchers : pc[l] = "missed" => answered[l] \in gone

\* ensure comes to an end whatever happens to the VM, to other launchers and
\* to the lock they hold.
EnsureEnds == \A l \in Launchers : pc[l] = "blocked" ~> pc[l] \in Ended

\* Where nothing goes wrong, launchers that start a VM at the same time start
\* one, and all get it.
ColdStartIsShared ==
    faults = {} =>
        /\ starts <= 1
        /\ \A l \in Launchers : pc[l] \in Ended => pc[l] \in {"ok", "joined"}

\* A start that failed is forgotten.  Where sessions fail and nothing else goes wrong
\* (no launcher dies with the lock, no probe is slow, no VM stalls or ends by itself),
\* the failed unit turns no launcher away: whoever waits for it has the lock, and
\* reset-failed does not rely on --collect having come first (ensure, the catch of
\* prepare-session).
FailedStartIsForgotten ==
    faults \subseteq SessionFaults \cup {"kvm"} =>
        \A l \in Launchers : pc[l] # "refused"

\* "flock serializes cold starts" (docs/design.md): no launcher is turned away
\* because another one's start is under way.
ColdStartIsSerial == \A l \in Launchers : pc[l] # "refused"
=============================================================================

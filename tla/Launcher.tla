------------------------------- MODULE Launcher -------------------------------
(***************************************************************************)
(* One run of x86-arm, from main to its exit: what it refuses, what it     *)
(* decides (EnvironmentPolicy), the VM it asks for, and then the private   *)
(* script of private_script around run_process, which relays signals to    *)
(* its child.  Python runs a handler between two steps of the main thread, *)
(* so a signal here arrives when its handler runs.                         *)
(***************************************************************************)
EXTENDS EnvironmentPolicy

CONSTANTS
    Jobs,       \* what x86-arm may be asked to do, and where (records; see Init)
    NoPlan,     \* before anything was decided
    Signals,    \* the relayed signals, in the order of the tuple `signals`
    Interrupt,  \* SIGINT, which Python turns into KeyboardInterrupt
    MaxSignals  \* a bound on Job.signals, how often each signal may come

Signal == {Signals[i] : i \in DOMAIN Signals}

ASSUME SignalsAssumption ==
    /\ Signals \in Seq(Signal)
    /\ \A i, j \in DOMAIN Signals : Signals[i] = Signals[j] => i = j
ASSUME InterruptAssumption == Interrupt \in Signal
ASSUME MaxSignalsAssumption == MaxSignals \in Nat
ASSUME JobsAssumption ==
    \A j \in Jobs :
        /\ j.signals \in 0 .. MaxSignals
        /\ j.ignored \subseteq Signal
        /\ j.settings.backend \in {"auto", "fex", "muvm"}
        /\ \A k \in DOMAIN j.source : j.source[k] = "host"

VARIABLES
    job,        \* the command line, the settings, the caller's environment, the host
    plan,       \* what execute decided
    vm,         \* what was asked of the VM
    pc,         \* where the main thread is
    script,     \* does the private directory exist?
    installed,  \* how many handlers were installed
    restored,   \* how many of them were replaced again
    process,    \* is the variable `process` set?
    pending,    \* the list `pending`, less what the loop has sent
    child,      \* the child process
    result,     \* how the launcher ends
    arrivals,   \* per signal, how often it came
    taken,      \* per signal, how often `forward` ran for it
    sent        \* per signal, how often the live child was sent it

vars == <<job, plan, vm, pc, script, installed, restored, process, pending, child, result,
          arrivals, taken, sent>>
jobVars == <<job, plan, vm>>
mainVars == <<jobVars, pc, script, installed, restored, result>>
runVars == <<script, installed, restored, process, pending, child, arrivals, taken, sent>>

TypeOK ==
    /\ job.signals \in 0 .. MaxSignals
    /\ plan # NoPlan => plan.backend \in {"fex", "muvm"}
    /\ vm \in {"untouched", "asked", "stopped"}
    /\ pc \in {"load", "doctor", "stop", "program", "environment", "ensure", "start",
               "write", "install", "popen", "assign", "flush", "wait", "restore",
               "cleanup", "ended"}
    /\ script \in BOOLEAN
    /\ installed \in 0 .. Len(Signals)
    /\ restored \in 0 .. installed
    /\ process \in BOOLEAN
    /\ pending \in Seq(Signal)
    /\ child \in {"none", "alive", "zombie", "reaped"}
    /\ result \in {"none", "status", "refused", "error", "interrupted", "killed"}
    /\ arrivals \in [Signal -> 0 .. MaxSignals]
    /\ taken \in [Signal -> 0 .. MaxSignals]
    /\ sent \in [Signal -> 0 .. MaxSignals]

Init ==
    /\ job \in Jobs
    /\ plan = NoPlan
    /\ vm = "untouched"
    /\ pc = "load"
    /\ script = FALSE
    /\ installed = 0
    /\ restored = 0
    /\ process = FALSE
    /\ pending = <<>>
    /\ child = "none"
    /\ result = "none"
    /\ arrivals = [s \in Signal |-> 0]
    /\ taken = [s \in Signal |-> 0]
    /\ sent = [s \in Signal |-> 0]

\* The signals whose handler is `forward` now.
Handled == {Signals[i] : i \in restored + 1 .. installed}

Move(from, to) == pc = from /\ pc' = to

\* Popen.send_signal polls first, which reaps a child that has exited; what it
\* does not reap itself wait() does, and the signal is dropped all the same.
SendSignal(s) ==
    /\ sent' = IF child = "alive" THEN [sent EXCEPT ![s] = @ + 1] ELSE sent
    /\ child' = IF child = "zombie" THEN "reaped" ELSE child

---------------------------------------------------------------------------
(* main and execute.                                                       *)

\* RuntimeError and its like end in main, with status 126.
Refuse ==
    /\ pc' = "ended"
    /\ result' = "refused"

Load ==
    /\ pc = "load"
    /\ IF ~job.schema \/ (job.root /\ job.command # "doctor")
       THEN Refuse
       ELSE /\ pc' = IF job.command \in {"doctor", "stop"} THEN job.command ELSE "program"
            /\ UNCHANGED result
    /\ UNCHANGED <<jobVars, runVars>>

\* VirtualMachine.__init__
NoVirtualMachine == "XDG_RUNTIME_DIR" \notin DOMAIN job.source

Backend == BackendFor(job.settings.backend, job.host.pagesize)

\* doctor probes a VM and starts none.
Doctor ==
    /\ pc = "doctor"
    /\ IF \/ BackendRefused(job.settings.backend, job.host.pagesize)
          \/ GraphicsRefused(job.settings, job.host.drivers, Backend)
          \/ Backend = "muvm" /\ NoVirtualMachine
       THEN Refuse
       ELSE pc' = "ended" /\ result' = "status"
    /\ UNCHANGED <<jobVars, runVars>>

StopVm ==
    /\ pc = "stop"
    /\ IF NoVirtualMachine
       THEN Refuse /\ UNCHANGED vm
       ELSE pc' = "ended" /\ result' = "status" /\ vm' = "stopped"
    /\ UNCHANGED <<job, plan, runVars>>

\* execute: the backend, then the program.
ChooseProgram ==
    /\ pc = "program"
    /\ IF \/ BackendRefused(job.settings.backend, job.host.pagesize)
          \/ job.command \in {"run", "binfmt"} /\ ~job.arguments
          \/ job.command = "run" /\ ProgramRefused(job.host)
       THEN Refuse
       ELSE pc' = "environment" /\ UNCHANGED result
    /\ UNCHANGED <<jobVars, runVars>>

\* guest_environment, and what execute makes of it.
Plan ==
    LET icds == GuestManifests(job.settings, job.host.drivers, Backend)
        natives == NativeManifests(job.settings, job.host, Backend)
    IN [backend |-> Backend, icds |-> icds, natives |-> natives,
        env |-> CommandEnvironment(job.settings, job.source, Backend, icds, natives)]

\* Mutant: the VM is started while the environment is worked out.
ChooseEnvironment_AsksFirst ==
    /\ pc = "environment"
    /\ vm' = IF Backend = "muvm" THEN "asked" ELSE vm
    /\ IF GraphicsRefused(job.settings, job.host.drivers, Backend)
       THEN Refuse /\ UNCHANGED plan
       ELSE /\ pc' = "start"
            /\ plan' = Plan
            /\ UNCHANGED result
    /\ UNCHANGED <<job, runVars>>

\* execute, up to the VirtualMachine object.
ChooseEnvironment ==
    /\ pc = "environment"
    /\ IF \/ GraphicsRefused(job.settings, job.host.drivers, Backend)
          \/ Backend = "muvm" /\ NoVirtualMachine
       THEN Refuse /\ UNCHANGED plan
       ELSE /\ pc' = IF Backend = "muvm" THEN "ensure" ELSE "start"
            /\ plan' = Plan
            /\ UNCHANGED result
    /\ UNCHANGED <<job, vm, runVars>>

\* vm.ensure() is VmLifecycle's; here it succeeds or raises.
EnsureVm ==
    /\ pc = "ensure"
    /\ vm' = "asked"
    /\ \/ pc' = "start" /\ UNCHANGED result
       \/ pc' = "ended" /\ result' = "error"
    /\ UNCHANGED <<job, plan, runVars>>

---------------------------------------------------------------------------
(* run_process in private_script.                                           *)

\* os.getcwd may fail, in a directory that was removed, or the temporary directory.
MakeDirectory ==
    /\ \/ Move("start", "write") /\ script' = TRUE /\ UNCHANGED result
       \/ Move("start", "ended") /\ result' = "error" /\ UNCHANGED script
    /\ UNCHANGED <<jobVars, installed, restored, process, pending, child,
                   arrivals, taken, sent>>

\* A file that cannot be written goes with its directory.
WriteScript ==
    /\ \/ Move("write", "install") /\ UNCHANGED result
       \/ Move("write", "cleanup") /\ result' = "error"
    /\ UNCHANGED <<jobVars, script, installed, restored, process, pending, child,
                   arrivals, taken, sent>>

\* One signal.signal call for each signal, before Popen.
Install ==
    /\ pc = "install"
    /\ IF installed < Len(Signals)
       THEN installed' = installed + 1 /\ UNCHANGED pc
       ELSE pc' = "popen" /\ UNCHANGED installed
    /\ UNCHANGED <<jobVars, script, restored, process, pending, child, result,
                   arrivals, taken, sent>>

\* Mutant: the handlers are installed while the child runs already.
Popen_Unprotected ==
    /\ pc \in {"install", "popen"}
    /\ pc' = "assign"
    /\ child' = "alive"
    /\ UNCHANGED <<jobVars, script, installed, restored, process, pending, result,
                   arrivals, taken, sent>>

\* The fork of Popen, or its exception.
Popen ==
    /\ \/ /\ Move("popen", "assign")
          /\ child' = "alive"
          /\ UNCHANGED result
       \/ /\ Move("popen", "restore")
          /\ result' = "error"
          /\ UNCHANGED child
    /\ UNCHANGED <<jobVars, script, installed, restored, process, pending,
                   arrivals, taken, sent>>

Assign ==
    /\ Move("assign", "flush")
    /\ process' = TRUE
    /\ UNCHANGED <<jobVars, script, installed, restored, pending, child, result,
                   arrivals, taken, sent>>

\* Mutant: the signals are taken off the list while it is iterated over.
Flush_SkipsEveryOther ==
    /\ pc = "flush"
    /\ IF pending # <<>>
       THEN /\ SendSignal(Head(pending))
            /\ pending' = SubSeq(pending, 3, Len(pending))
            /\ UNCHANGED pc
       ELSE pc' = "wait" /\ UNCHANGED <<pending, child, sent>>
    /\ UNCHANGED <<jobVars, script, installed, restored, process, result, arrivals, taken>>

\* The loop over what came before `process` was set.
Flush ==
    /\ pc = "flush"
    /\ IF pending # <<>>
       THEN /\ SendSignal(Head(pending))
            /\ pending' = Tail(pending)
            /\ UNCHANGED pc
       ELSE pc' = "wait" /\ UNCHANGED <<pending, child, sent>>
    /\ UNCHANGED <<jobVars, script, installed, restored, process, result, arrivals, taken>>

\* Mutant: a status that send_signal's poll has taken is waited for again.
Wait_ForZombie ==
    /\ child = "zombie"
    /\ Move("wait", "restore")
    /\ child' = "reaped"
    /\ result' = "status"
    /\ UNCHANGED <<jobVars, script, installed, restored, process, pending,
                   arrivals, taken, sent>>

\* wait() reaps the child, or finds that send_signal did.
Wait ==
    /\ child \in {"zombie", "reaped"}
    /\ Move("wait", "restore")
    /\ child' = "reaped"
    /\ result' = "status"
    /\ UNCHANGED <<jobVars, script, installed, restored, process, pending,
                   arrivals, taken, sent>>

\* The finally block of run_process.
Restore ==
    /\ pc = "restore"
    /\ IF restored < installed
       THEN restored' = restored + 1 /\ UNCHANGED pc
       ELSE pc' = "cleanup" /\ UNCHANGED restored
    /\ UNCHANGED <<jobVars, script, installed, process, pending, child, result,
                   arrivals, taken, sent>>

\* The end of private_script's block.
Cleanup ==
    /\ Move("cleanup", "ended")
    /\ script' = FALSE
    /\ UNCHANGED <<jobVars, installed, restored, process, pending, child, result,
                   arrivals, taken, sent>>

---------------------------------------------------------------------------
(* Signals, and the child.                                                 *)

Arrive(s) ==
    /\ pc # "ended"
    /\ arrivals[s] < job.signals
    /\ arrivals' = [arrivals EXCEPT ![s] = @ + 1]

\* The handler.
Forward(s) ==
    /\ Arrive(s)
    /\ s \in Handled
    /\ taken' = [taken EXCEPT ![s] = @ + 1]
    /\ IF process
       THEN SendSignal(s) /\ UNCHANGED pending
       ELSE pending' = Append(pending, s) /\ UNCHANGED <<child, sent>>
    /\ UNCHANGED <<mainVars, process>>

\* KeyboardInterrupt unwinds to main; TemporaryDirectory removes the script,
\* unless it is the removal that was interrupted.
RaiseInterrupt ==
    /\ Arrive(Interrupt)
    /\ Interrupt \notin Handled \cup job.ignored
    /\ result' = "interrupted"
    /\ \/ /\ pc \in {"load", "doctor", "stop", "program", "environment", "ensure", "start"}
          /\ pc' = "ended"
          /\ UNCHANGED script
       \/ /\ pc \in {"write", "install", "restore"}
          /\ pc' = "cleanup"
          /\ UNCHANGED script
       \/ /\ pc = "cleanup"
          /\ pc' = "ended"
          /\ script' \in BOOLEAN
    /\ UNCHANGED <<jobVars, installed, restored, process, pending, child, taken, sent>>

\* The default action of the other signals, unless they were ignored at the start
\* (nohup, a job in the background): the handlers put back are the ones found.
Killed(s) ==
    /\ Arrive(s)
    /\ s # Interrupt
    /\ s \notin Handled \cup job.ignored
    /\ pc' = "ended"
    /\ result' = "killed"
    /\ UNCHANGED <<jobVars, script, installed, restored, process, pending, child,
                   taken, sent>>

\* muvm exits when it likes, by itself or on a signal.
ChildExit ==
    /\ child = "alive"
    /\ child' = "zombie"
    /\ UNCHANGED <<mainVars, process, pending, arrivals, taken, sent>>

---------------------------------------------------------------------------
MainStep ==
    \/ Load \/ Doctor \/ StopVm \/ ChooseProgram \/ ChooseEnvironment \/ EnsureVm
    \/ MakeDirectory \/ WriteScript \/ Install \/ Popen \/ Assign \/ Flush
    \/ Wait \/ Restore \/ Cleanup

Next ==
    \/ MainStep
    \/ \E s \in Signal : Forward(s) \/ Killed(s)
    \/ RaiseInterrupt \/ ChildExit

Spec == Init /\ [][Next]_vars

\* The main thread is scheduled; nobody promises that the child exits.
FairSpec == Spec /\ WF_vars(MainStep)

---------------------------------------------------------------------------
\* While the launcher waits for a live child, every signal it took reached the
\* child, once: those that came before Popen returned too (run_process).
SignalsAreRelayed == pc = "wait" /\ child = "alive" => sent = taken

\* No relayed signal, whenever it comes, ends the launcher or removes its script
\* while the child runs: bash reads that script as it goes.
ChildIsAttended == child = "alive" => script /\ pc \notin {"cleanup", "ended"}

\* A launcher whose child exited ends, even when a handler reaped the child.
LauncherEnds == child \in {"zombie", "reaped"} ~> pc = "ended"

\* A launcher that ran its command leaves no private file behind
\* ("signal forwarding and private file cleanup", docs/testing.md).
ScriptIsRemoved == pc = "ended" /\ child = "reaped" => ~script

\* What main and execute refuse (a schema, root, a missing program, a backend or drivers
\* that do not fit) they refuse before they ask for the VM or write a file, so a mistyped
\* command does not boot a VM.  Errors of what follows (the VM, a directory that is gone,
\* the script, the command) are not refusals.
RefusedStartsNothing ==
    result = "refused" => vm = "untouched" /\ ~script /\ child = "none"

\* The variables that name ARM loaders and plug-ins reach neither an x86 application
\* nor, from the caller, the emulator; and the emulator gets none of the guest's but
\* the three a request to the VM carries ("separate environments", docs/design.md).
LoadersStayApart ==
    plan # NoPlan =>
        LET app == ApplicationEnvironment(plan.env, plan.backend)
            launch == LaunchEnvironment(job.source, job.host, plan.env, plan.backend)
        IN /\ \A k \in LoaderEnvironment \cap DOMAIN app : app[k] # "host"
           /\ \A k \in LoaderEnvironment \cap DOMAIN launch :
                 plan.backend = "muvm" /\ k \in MesaControls /\ launch[k] # "host"

\* In the VM an application's display, sound and session are the VM's, never the
\* host's, whose sockets do not exist there, unless the configuration says so.
EndpointsAreTheVms ==
    plan # NoPlan /\ plan.backend = "muvm" =>
        LET app == ApplicationEnvironment(plan.env, plan.backend)
        IN \A k \in VmEnvironment \cap DOMAIN app : app[k] # "host"

\* "Ordinary application variables [...] are preserved" (docs/design.md); and a variable of
\* the configuration wins over the caller's and over one that the VM has of that name.
CallersVariablesArrive ==
    plan # NoPlan =>
        LET app == ApplicationEnvironment(plan.env, plan.backend)
            ours == GuestKeys("muvm", "software", {"lvp"}) \cup VmEnvironment
                    \cup LoaderEnvironment
        IN /\ \A k \in DOMAIN job.source \ (ours \cup DOMAIN job.settings.environment) :
                 k \in DOMAIN app /\ app[k] = "host"
           /\ \A k \in DOMAIN job.settings.environment : app[k] = "config"

\* "Native Vulkan filters manifests for the selected transport" (docs/design.md): the
\* drivers on both sides of the thunk are of the transport the VM was started with,
\* and lavapipe is among none of them without the gate.
DriversMatchTransport ==
    plan # NoPlan =>
        LET mode == GpuMode(job.settings, plan.backend)
            hardware == {Known[d] : d \in job.host.drivers \cap DOMAIN Known}
            drivers == plan.icds \cup plan.natives
        IN /\ mode = "venus" => drivers \subseteq {"virtio"}
           /\ mode = "software" => drivers \subseteq {"lvp"}
           /\ mode = "drm" /\ hardware # {} => drivers \subseteq hardware
           /\ "lvp" \in drivers => job.settings.allowSoftwareRendering
=============================================================================

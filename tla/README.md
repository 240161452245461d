# A model of x86-on-arm

This directory holds a TLA+ description of this repository: how an x86 command gets
from a host terminal to a process in the microVM, how its output, its exit code and
its end get back, and what is decided and prepared around it. The reference is the
code at this commit: the Python of `src/runtime/x86_on_arm`, the Rust and C++ that
`src/compat/patches` adds to muvm and FEX, and the scripts that run in the guest or
before it. TLC checks the modules on small instances; TLAPS proves the safety of
every component for all values of its constants.

## The system

    terminal -- x86-arm (Python) -- muvm client ==vsock== muvm worker -- command
                  |  ensure/ready        |  one port, one     |  one task, one
                  |  systemd-run         |  lock per request  |  thread, one cgroup
                  v                      v                    v  per request
              VM unit (systemd)      port.lock files      processes under FEX

| part | state it keeps | operations | talks to |
| --- | --- | --- | --- |
| launcher (`cli.py`, `execution.py`) | pending signals, a private script, the child | refuse or decide, ensure the VM, run muvm or FEX, relay signals, return a status; `doctor`, `stop` | environment policy, VM lifecycle, muvm client |
| VM lifecycle (`vm.py`, `service.py`) | `startup.lock`, a transient systemd unit, the VM's sockets | `ensure`, `ready`, `serve`, `stop` | systemd, the worker (probe) |
| port rendezvous (`interactive-stdio.patch`, `launch.rs`) | a lock file, a socket path and a number per request | find a port, bind, send the request, accept; connect from the guest | client, worker |
| request lifetime (`client-lifetime.patch`) | the handler, task and I/O thread of each request, its cgroup, its leader | accept, read, spawn, join, acknowledge, terminate, remove | client, kernel, processes |
| interactive I/O (`interactive-stdio.patch`) | two sockets, pipes or a terminal, four threads, a mutex | forward input, pump output, window size, exit | client, child |
| guest session (`session.py`) | FEXServer, its readiness pipe, the session bus | start, wait until ready, start the bus, take the server down | FEX, the boot of the VM |
| environment policy (`environment.py`) | none | which variables cross, which graphics and which backend | launcher |
| guest utilities of Wayland (`fex/wayland-*.patch`) | lists, arrays, message arguments in a 32-bit guest layout | allocate, grow, convert | the host's libwayland |
| EGL and GLES thunks (`fex/egl-*`, `fex/gles-*`) | none | convert attributes and pointers | the host's GL |
| Steam and Wine bootstraps (`applications/*.sh`) | a lock, a staging directory, the installed tree | unpack once, run | launcher |
| PressureVessel wrapper (`pressure-vessel.c`) | none | rewrite an argument vector | Steam |
| guest image and VM preparation (`guest/`) | files of the image, driver links | assemble, mount | VM lifecycle |
| composition (`flake.nix`, `nix/`) | none | evaluate packages | - |

What is hard in it:

- **three parties end independently.** A client dies at any point, its processes
  fork and outlive their leader, the worker's task and thread learn of each by
  different descriptors in any order, and the result must be one of two: completed
  and acknowledged, or cancelled and killed;
- **identifiers are reused.** cgroup.procs is a snapshot; the pid it names may be
  another request's process by the time it is signalled;
- **everything may block.** Sockets, pipes and terminals are bounded, and the two
  directions of a stream must not wait for each other;
- **launchers race.** For lock files, for a VM, and with the VM's own boot and death;
- **root helpers fail.** cgroups are written by forked children that gain root;
- **a pipe's end is ambiguous.** FEXServer closes its readiness pipe when it is ready,
  and the kernel closes it when it dies, before its parent can wait for it;
- **commands outlive their shell.** Steam's bootstrap runs cp, chmod and mv under a flock that
  a killed shell's children keep;
- **four environments.** The caller's variables meet those of the runtime, the VM and the
  configuration, and each of launcher, emulator and application gets its own mixture;
- **foreign arithmetic.** Wayland's arrays grow with a guest's 32-bit sizes.

The full list of such places, each at its line with the property that covers it,
is `hazards` in `PROJECT.json`.

### What makes each part correct

| part | correct when |
| --- | --- |
| request lifetime | signals reach only what was cancelled; an exit code comes after all output; nothing runs untracked, but for what a failed helper leaves of a client that is gone; nothing survives a kill; a gone client's request is retired and its thread ends; a sent request is handled |
| port rendezvous | a port has one holder; racing is not an error; a client reads its own command's stream |
| VM lifecycle | `ensure` ends; success means a VM that answered, and whose request finds it unless it ended since; concurrent cold starts share one VM |
| interactive I/O | output is complete at the exit; packets do not mix; blocked input does not block output or the exit |
| launcher | every signal taken over reaches a live child once; the script outlives the command and not the launcher; what is refused starts nothing |
| environment policy | no loader, driver or endpoint of one side reaches another; the caller's own variables arrive; drivers on both sides fit the transport |
| guest session | success means FEXServer was ready and a bus runs; failure leaves no server; a boot is decided |
| Steam bootstrap | an unpacking that is killed, fails or ends with its session leaves either nothing or a whole tree under the version's name; one installer at a time; nobody waits for ever |
| Wayland utilities | lists stay rings in their order; what a caller may write has been allocated |
| guest image, thunk paths | links survive relocation and keep their target; the database that is built is the one the image check accepts |

## The modules

### RequestLifetime

The client, the worker and the processes of any number of requests.

| variable | in the code |
| --- | --- |
| `client`, `sent` | `launch` and `request_launch`: connected, request written, `OK` read, I/O loop, `CMD_EXIT` read, acknowledgement written |
| `task` | the accept loop's `handle_connection` (`reading`, `starting`), then `wait_for_child` (`join`, then either `drain` or `term`, `pass`, `killed`, `drain`), `retired` after `remove_when_empty` |
| `cgroups`, `leader`, `code` | `RequestCgroup`'s directory, `Child`, the stop pipe |
| `io` | `run_io_guest` from its connection to `CMD_EXIT` |
| `owner`, `out`, `zombie`, `termed`, `doomed` | the kernel's view of the processes: cgroup membership, output descriptors, pending signals |
| `todo`, `cur`, `pinned`, `checked` | one iteration of the loop in `signal_members`: listed, `pidfd_open`, `/proc/<pid>/cgroup`, `pidfd_send_signal` |

Every system call of the SIGTERM pass whose order matters is an action of its own,
with forks, exits and identifier reuse between any two. A probe is a request
without an I/O port, which gets no cgroup and no acknowledgement. `HelperFails`
is a root helper that cannot be forked: the code then returns an error from the
task and leaves the request (`abandoned`), its processes alive and in their cgroup. `NoStrays` allows this, and
only of a client that went away. The grace period of 500 ms is the time
between the end of the pass and `Kill`, of any length.
The thread's streams are abstracted to "does a live process still hold them"; their
contents and back-pressure are InteractiveIO's subject.

### RequestPromise

The abstract specification: per request a phase and whether it has processes, and
processes that hold output. It says that a request completes only with its output
closed, is otherwise cancelled and killed, never both, and is over only when
nothing of it is left. `RequestLifetime!Promise` gives the mapping: `PromisePhase`
from `task` and `client`, the two sets from `owner`, `zombie` and `out`.

### PortRendezvous

`find_vsock_port` (one action per lock file tried), the client's bind, request and
accept, the guest thread's connection by port number, and the client's death at any
point, which drops the lock and the socket and resets connections nobody accepted.
The variable `earlyDeath` is chosen at the start and says whether a client may die
between its request and its thread's connection: where none does, a stream is a client's own.

### VmLifecycle

`ensure` line by line for any number of launchers under one flock, the unit
(`systemd-run --collect`, failure, stop), the boot, answers and death of the VM, and the
request of muvm's client that follows `ensure` without the lock (`Request`: it joins
the VM that serves by then, or misses it). `answered` is the number of the VM whose answer
a launcher accepted, `served` the VMs that finished their boot, `gone` those that crashed or were stopped (a history variable).
`Environments` gives the sets of faults an instance chooses from at the start. A turn of the polling loop that
comes before the next `is-active` changes nothing and is left out.

### GuestSession and VmRuntime

GuestSession is `prepare-session` (`session.py`) from the pipe to the `raise`: `Popen` and the close
of the write end, `select` with its timeout, `read` and `poll` in one step (the read returns at once), the
bus, and the except clause with `terminate`, `wait`, `kill`, `wait`. FEXServer is `starting`, `ready`,
`closing` (exiting, descriptors closed, not yet a zombie), `zombie` or `reaped`. The pipe's end is a
consequence of who holds its write end. `overlooked` records that `poll()` came while the server was closing.

VmRuntime composes it with VmLifecycle: a new unit begins a session afresh, a session that is `ok` lets the
boot finish, one that failed ends the VM and the unit, and a crash or stop ends the session wherever it is.
With the session's variables hidden every step is one of VmLifecycle's: that is so by construction, serves the proofs as
a lemma (`RuntimeIsLifecycle`), and is no property of its own.

### InteractiveIO

Pipes or a terminal (`tty`, chosen at the start): one request's sockets and pipes with their capacities, the host's main loop and
feeder thread with the mutex they share, the guest's two threads, and a child that
reads, writes, closes and exits as it likes. A packet of two writes is two pieces,
so that an interleaving is visible; contents are left out. A standard input without a
reader is given up on pipes (`EPIPE`), and the thread goes on reading the socket; on a terminal the write fails with
another error (`EIO`), `forward_input` returns (`ended`), and nobody reads what the host still sends. Once the other thread
has ended as well, the host's writes fail: the feeder ends, and a window change ends the main loop with an error (`failed`).

### EnvironmentPolicy and Launcher

EnvironmentPolicy holds the pure part of `environment.py`, `execution.py`, `cli.py` and `host_environment`.
An environment is a function from variable names to the *origin* of the value (the caller, the runtime for
x86, the runtime for ARM, the VM, the configuration), which is what the properties tell apart; the
values themselves are left out. The sets of names are the code's. A Vulkan manifest is its driver, a
directory the set of its manifests. A Python `dict.update` is `Override`, `setdefault` is `Default`.

Launcher is one run of x86-arm. `job` holds the command line, settings, host and the caller's environment. `Load`,
`Doctor`, `StopVm`, `ChooseProgram`, `ChooseEnvironment` and `EnsureVm` are main and execute in their order, with
every refusal (status 126) at its place; `ensure` is VmLifecycle's and succeeds or raises here. What fails after it (the working directory,
the private directory, the script) ends the launcher with an `error`, which is no refusal: the VM stays up for the next one. Then `private_script`
around `run_process`: the handlers installed one by one, `Popen` and the assignment of its result as two steps,
the loop over the pending signals, `wait`, the handlers put back, the script removed; and a signal between any
two of them, from the first line on, which is taken by `forward`, raises KeyboardInterrupt, is ignored or kills the
launcher, by what is installed for it then and what was ignored when the launcher started (`nohup`). Python runs a
handler between two bytecodes, so a signal "arrives" when its handler runs.

### SteamBootstrap

`steam.sh` up to its exec, for any number of shells. Each external command is a process of its own: it goes on when its
shell is killed, and has inherited descriptor 9, so the flock is held until the last of them ends
(`Open9`, `Descriptors`). cp and rm work file by file. mv renames, or moves into a directory that exists. Faults: SIGKILL or
SIGTERM to a shell alone, commands that fail, the end of the user's session (`crash`: every process, and no file), and the
failure of the machine (`power`). The script syncs nothing, so the kernel writes names and files to disk when it likes
(`WriteBack`, `diskPlace`, `diskContent`), and a failure leaves each directory at its place on disk, at its last one or, if its name was not
written, as staging, with any part of what was not written lost; a "file" is its name or its bytes. `cut` holds the directories whose files were
behind. On SIGTERM bash runs the EXIT trap at
once, beside a command that still runs; `raced` records a rename under a trap that was already emptying the directory
(see Observations).

### WaylandUtilities

The `wl_list` and `wl_array` functions of the Wayland thunk on `next`, `prev`, `size`, `alloc` and the allocated
`block`. `ring` is what the list's user has in mind, the sequence of its elements, kept beside the pointers: the preconditions
of libwayland (a list in use, an element of it, an element of none) are stated with it; a node is named by its position, 0 for the head. `wl_array_add` takes several
steps, so that its loop can be seen to end; `given` is how far callers were told they may write.

### ThunkPaths and GuestImage

Pure definitions without state. ThunkPaths is `thunk-paths.py` and the test `image.py` makes of its result: names are the
sequences between their dots, directories the sequences between their slashes. GuestImage is the
rewriting of store links in `assemble.py`, the walk of `image.py`'s `resolve` through them, and the links a container sees
where `pressure-vessel.c` binds directories of the image: `nix` and `run` in both views of the graphics provider, `nix` alone
at the root of the interpreter's view (`Mounted`). `Step` is one step of
that walk; GuestFilesProofs makes whole walks of it. They have no run: what matters of them is proved for all values there.

### The proof modules

`RequestLifetimeProofs`, `PortRendezvousProofs`, `VmRuntimeProofs`, `LauncherProofs`, `InteractiveIOProofs`,
`SteamBootstrapProofs`, `WaylandUtilitiesProofs` and `GuestFilesProofs` hold the theorems below. The `MC*` modules hold
the instances and symmetry sets for TLC.

## What the runs show

| run | instance | shows |
| --- | --- | --- |
| `lifetime_safety` | 2 requests, 2 pids | the four safety properties with every interleaving of death, fork, reuse, failure |
| `lifetime_live` | 1 request, 1 probe, 2 pids, fairness | the invariant, teardown, no leaked thread, no held-up accept loop, and that the worker implements RequestPromise, fairness included |
| `port_races` | 3 clients, 2 ports | one holder per port; "Ran out of ports" only when that many others took one; each client reads its own stream unless one dies early |
| `port_early_death` | 2 clients, 2 ports | finding 1 |
| `vm_faults` | 3 launchers, 7 environments, the guest session inside the boot, fairness | one VM is started and all get it, or else `ensure` ends; success means an answer, and its request finds the VM unless it ended since; a session that is ready has its server, one that failed has none; every boot is decided; where only sessions fail, nobody is refused because of it |
| `vm_interrupted` | 2 launchers, interruption | finding 2 |
| `io_streams` | pipes or a terminal, 3 input chunks, 2 output chunks per stream, 1 window change, capacities 1, fairness | output is complete; packets do not mix; the exit arrives, unless a window change waits on a terminal that its last process left; with pipes, input that is never read does not block output |
| `io_terminal_drains` | 5 input chunks, 3 output chunks, 1 window change, fairness | finding 3 |
| `launcher_signals` | 4 families of jobs and one of signals (each at most twice), fairness | refusals start nothing; the environments keep to their sides; drivers fit the transport; signals taken before `Popen` returned, during the loop and after it reach the child once; the child is never left alone; the launcher ends |
| `launcher_cleanup` | 4 signals, each once | finding 4 |
| `steam_bootstrap` | 2 shells, 2 files, 5 environments, fairness | the installed bootstrap is whole and nothing is nested, outside the two holes under Observations; installers exclude each other; every shell gets past the lock or ends |
| `wayland_utilities` | 2 heads, 3 elements, 2 arrays, `SIZE_MAX` = 3, least capacity 1, fairness | lists are rings in their order after any operations; arrays fit their blocks; growing ends |

**Bounds.** Two requests and two identifiers are the least with which an identifier
passes from one request to another in the middle of a pass, and a request's leader
has a descendant; the proofs remove the bound for safety. Liveness is about one
request's own steps and one rival for the accept loop, which the probe is. Three
clients on two ports make every contention: for the same lock file, for the next,
and for none left. Three launchers are a holder, a waiter and one that comes after
both; the seven environments are those in which one kind of thing goes wrong: nothing, each way a session fails, launchers and boots, VMs
that end. In the I/O runs capacity 1 makes every write able to block, and 3 chunks of input are
one in the socket, one in the pipe and one in the feeder's hand; `Output` and
`Winches` bound counters that are otherwise unlimited. Two of each signal are one before and one after any step.
The jobs of a launcher come in families, each of which varies what one part of the code looks at (what is refused; drivers,
transports and directories; one variable of each kind, with configured ones; sessions and displays) and leaves the rest alone;
the theorems quantify over all of it. Two shells are one that was killed and one that comes after it; the second file tells a whole
bootstrap from one with `bin_steam.sh` alone. Its environments are nothing, kills with full disks, SIGTERM, SIGTERM with full disks
and ended sessions, and kills with a machine that fails. Three elements and two lists make every splice (of nothing, of one, of several);
a `SIZE_MAX` of 3 and a capacity of 1 reach every branch of the doubling, the wrap included.
Each bound is a constant.
Deadlock is not checked: every system here may come to rest, when its requests are
over, its launchers have ended, its client is done, or a child waits for ever.

**Fairness.** The handler, tasks and threads of the worker, the threads of the muvm
client and the launcher's loop run on a runtime or an operating system that schedules
them: weak fairness of each. A process with SIGKILL pending dies: weak fairness of
its exit. A launcher's 45 seconds pass. A boot finishes or stalls, and systemd finishes a stop or a
collection it began. A server in the guest gets ready unless it hangs, reacts to SIGTERM unless it is deaf,
and finishes an exit; `session.py` is scheduled. Shells and their commands are scheduled. A client that connected sends its request or goes away (a
stopped client would hold up the accept loop for ever; that assumption is made explicit).
Nothing is promised of applications: a child may ignore SIGTERM, never read its
input, never exit, and a disconnected host may come at any time or not at all.

Each property of a passing run has at least one plausible fault in the code that breaks it
(`mutants` in `PROJECT.json`); the faulty operators stand beside the ones they change.

## Findings

1. **A stream may be a stranger's** (`port_early_death`). A request names a port, the
   port's lock lives only as long as the client, and nothing on the connection
   identifies the request. A client that dies after it sent its request and before the
   guest thread connected leaves a thread that connects to whichever client took the
   port next, which then reads another command's output and exit code. Where
   `earlyDeath` is FALSE the streams are their clients' own (`port_races`): the window is the only cause.
2. **Cold starts are not serialised across an interruption** (`vm_interrupted`).
   `docs/design.md` says that flock serialises cold starts. The lock belongs to the launcher
   and not to the start, so an interrupted launcher releases it while its VM boots; the
   next one probes, gets no answer, and is refused by systemd because the unit exists.
3. **A window change may stop the output** (`io_terminal_drains`). The host's main loop
   takes the mutex the feeder holds across blocking writes; with a child that does not read
   its terminal until its output is read, all four ends wait. The comment in the
   patch asks to "keep output draining independently". On pipes (`io_streams`)
   there are no window changes and the property holds.
4. **The private script may stay** (`launcher_cleanup`). `run_process` puts the default handlers
   back before `private_script` removes the script, so a second SIGTERM or SIGHUP at
   the end kills the launcher and leaves the script, with the environment in it, in /tmp. The
   test of the launcher's cleanup sends one signal while the child runs.

## Observations

What the models show and no run is spent on:

- **Steam's trap and its mv.** A SIGTERM that reaches the shell and not the mv it runs starts `rm -rf "$staging"` at once; if that
  has opened the directory before the rename, it empties what is then the installed version, and a later launcher, which
  finds the name taken, moves its bootstrap *into* it. `InstalledIsWhole` and `NeverNested` exclude exactly this (`raced`) and fail without
  the exclusion.
- **The mv is not synced.** `steam.sh` renames a tree the kernel need not have written yet. After a power loss the version's name may hold a
  `bin_steam.sh` beside empty or missing files, which line 7 takes for installed, or lack it, and the next launcher moves its
  bootstrap into the remains. `InstalledIsWhole` and `NeverNested` exclude exactly this too (`cut`), and fail without it; a `sync` before the mv would close it.
- **A terminal without processes.** When the last process closes the terminal while input is on its way, `forward_input` ends with `EIO` and nobody
  reads the socket. The exit code arrives all the same, unless the window changes then: the main loop waits for room in the socket,
  or its write fails and `muvm` ends with an error in place of the code. `ExitArrives` states this exception and fails without it.
- **`poll()` may be too early.** A FEXServer that crashes closes the readiness pipe before it is a zombie; a `poll()` in between
  takes it for ready. `SessionHasServer` names this window (`overlooked`) and shows that it is the only one.
- **A start that timed out stays.** After the 45 s the unit is left as it is, so each later `ensure` is refused until `x86-arm stop`.
  `EnsureEnds` counts a refusal as an end. A session that fails is another matter: `FailedStartIsForgotten` says that it turns nobody away.
- **lavapipe.** The README asks for `allowSoftwareRendering` and `gpuMode = "software"` both. With the gate open the manifests of the
  native mode, and those of `drm` without a known driver, contain lavapipe too; `DriversMatchTransport` states what the code
  guarantees, that without the gate it is nowhere.

## What is proved

Every theorem holds for any values of the constants under the named assumptions of the modules: any
requests, clients, launchers, shells and jobs, any environments, capacities and sizes.

| module | theorems | statement |
| --- | --- | --- |
| `RequestLifetimeProofs` | `Invariance`, `TypeCorrect`, `SignalsSpareOthers`, `ExitComesLast`, `AllAreTracked`, `KillIsComplete` | `Spec => []` of `IInv`, `TypeOK`, `OnlyCancelledAreSignalled`, `ExitIsFinal`, `NoStrays`, `NothingSurvives` |
| | `ImplementsPromise` | `Spec => Promise!Spec` |
| | `OutcomeIsFinal`, `OverLeavesNothing` | no step undoes an outcome; what is over is empty, what completed has no writer: both derived from the promise |
| | `EveryZombieIsReaped`, `KilledChildEnds` | a task's child is its own request's, every zombie has somebody to reap it, and the wait after the kill is for a process that is gone or dying |
| `PortRendezvousProofs` | `Invariance`, `OneHolder`, `OwnStream`, `FailureIsReal` | its invariant, `PortIsExclusive`, `StreamIsOwn`, `NoPortMeansBusy` |
| | `TypeCorrect`, `PlacesInvariance`, `OneListener` | types; every connection is in one place, and no two clients read one command's output |
| | `OutputStaysHome`, `ReturnedCodes` | also with early deaths, a client that waits for its command's output does not lose it; a returned code is one a command exited with, without early deaths one's own |
| `VmRuntimeProofs` | `LifecycleInvariance`, `AnswersAreReal`, `AnswersLast`, `OneColdStart` | the lifecycle's invariant, `OkMeansServed`, `AnsweredIsJoined`, `ColdStartIsShared` |
| | `FailuresAreNotRefusals` | `FailedStartIsForgotten` |
| | `SessionInvariance`, `SessionIsServed`, `ServerIsTakenDown` | the session's invariant, `SessionHasServer`, `NoServerIsLeft` |
| | `LoadedInvariance`, `LockAndAnswerHold`, `TypeCorrect` | unit, VM, lock and count of starts agree; the lock is never left behind; a VM that answered serves, as the last one, or crashed or was stopped; no more starts than launchers |
| | `RuntimeInvariance`, `ServingHasServer`, `OneVmAtATime` | boot and session go together; what answers has its bus and its server; a VM is started only where there is no unit, no VM and no server |
| `LauncherProofs` | `ControlInvariance`, `ChildKeepsLauncher`, `RefusalIsEarly`, `SignalsReachTheChild` | its invariant, `ChildIsAttended`, `RefusedStartsNothing`, `SignalsAreRelayed` |
| | `PlanInvariance`, `SeparateLoaders`, `SeparateEndpoints`, `VariablesArrive`, `OneTransport` | the plan is what execute makes of the job; `LoadersStayApart`, `EndpointsAreTheVms`, `CallersVariablesArrive`, `DriversMatchTransport` |
| | `RelayInvariance`, `AccountInvariance`, `SignalsAreNotRepeated` | the account of signals; none reaches the child more often than it came |
| | `EndInvariance`, `StatusIsTheChilds`, `ScriptGoesWithReturn` | a status is the child's, which does not outlive the launcher (SIGKILL is none of the four signals); one that returns by itself removed its script |
| | `DecisionInvariance`, `PreparedFirst`, `TypeCorrect` | no command before what it needs is decided and its VM asked for; types |
| `InteractiveIOProofs` | `PacketInvariance`, `PacketsStayWhole`, `OutputInvariance`, `OutputArrives` | two invariants, `PacketsIntact`, `OutputComplete` |
| | `TypeCorrect`, `WaitInvariance`, `NobodyWaitsInACircle`, `OutputWaitsForInputOnly` | capacities are kept; with the child gone and its output closed some thread can move the exit code on, unless `forward_input` ended with its terminal and a window change waits; output that has come waits only for a full socket to the guest, and only on a terminal |
| `SteamBootstrapProofs` | `BootstrapInvariance`, `OneInstaller`, `WholeOrNothing`, `NameIsFree` | its invariant, `InstallersExclude`, `InstalledIsWhole`, `NeverNested` |
| | `TypeCorrect`, `InstallsOnce`, `OnlyTermAndPowerHarm` | types; no process replaces or changes what is installed, but for a trap that a rename overtook, and a failure of the machine puts nothing in its place; without a SIGTERM to a shell alone and without failures of the machine it is whole and not nested, with no exception |
| | `TidyInvariance`, `NothingIsLeft`, `LockIsLetGo` | without signals and the end of the session or the machine no staging directory stays behind; the lock is free or its holder, or what that left running, can go on |
| `WaylandUtilitiesProofs` | `ArrayInvariance`, `RoomForAll`, `RingInvariance`, `ListsStayLists` | its invariants, `ArraysFit`, `RingsAreLists` |
| | `DoublingEnds`, `TypeCorrect` | each round of the doubling loop raises the capacity, never beyond `SIZE_MAX`; types |
| `GuestFilesProofs` | `DatabaseIsAccepted` | the image check accepts the database that is built, if upstream lists a name, and no path below these packages' directories |
| | `WalksAreRelocatable`, `LinksKeepTheirTarget` | a step of a walk is the same below any mount point; a rewritten link leads to its old target |
| | `AssemblyKeepsPaths`, `ImageIsRelocatable` | the rewriting changes where no path leads; where directories of the image are bound, a path whose way stays in them leads below that place to what it led to in the closure |

**RequestLifetime.** None of the four safety properties is inductive. The argument joins what the parties know
of each other:

- `ClientsAgree`: a started request was sent; a broken I/O thread means a client that
  is gone, since nothing else closes the stream before the exit; a client past
  `CMD_EXIT` has a thread that wrote it;
- `TasksAgree`: a task past its join has a client that is gone or one that acknowledged,
  and it can only be terminating for the former; drained output has no writer left
  and gets none, because only a writer's fork makes one;
- `ProcessesAgree`: identifiers in use belong to started requests, and output, SIGTERM and
  SIGKILL only to live processes, so a reused identifier starts clean;
- `PassAgrees`: an open pidfd whose process survives pins the identifier's owner, so a
  membership check made after `pidfd_open` is still true when the signal is sent.
  Checked in the other order it would not be.

With these, `OnlyCancelledAreSignalled` and `NoStrays` follow step by step;
`NothingSurvives` is inductive because `cgroup.kill` dooms a whole group at once and a
doomed process does not fork. `ExitIsFinal` is a consequence. Each conjunct has a
lemma with one step per group of actions; `InvStep` joins them. The refinement has a lemma per
group of actions that names the abstract step each concrete one is, or shows that
the promise does not see it. `OutcomeIsFinal` and `OverLeavesNothing` are then proved of RequestPromise's nine actions
and not of the worker's thirty-two. `ZombiesHaveReapers` is inductive beside `IInv`: an identifier is
given to a new process only when it is free, so the child a task waits for keeps its owner.

**The others.**

- *PortRendezvous*: `PortIsExclusive` is inductive given the types. Without early deaths a client that is served, or died with its
  port, has had its thread connect (`ConnectsInTime`), so a connection by number reaches the client whose request named it. A client
  that found every candidate taken owes each to another one (`FailureCounts`): the clients past their scan are at least as many as the ports.
  `PlacesInv` follows each connection from its thread to its reader: what can stray belongs to a client that is gone (`OnlyOrphansStray`).
  Finding 1 is therefore about what a later client reads, not about output that a live client misses.
- *VmRuntime*: whoever is inside the flock's block holds it, what serves is the last VM that was started and is in
  `served`; unless somebody may end it, a VM that is there stays in its unit (`StaysInUnit`), and one that answered serves until it is `gone` (`AnswerStands`);
  where only sessions fail, a unit that is loaded serves, is waited for with the lock, or has failed (`FailuresAreForgotten`); where nothing goes wrong,
  one launcher starts the VM and sees it through its boot (`OneSeesToIt`). `SessionInv` ties each place of prepare-session to
  what the server may be by then. `LoadedInv` adds what the lifecycle's invariant leaves open: a unit that is active has the VM
  it was made for, and each start is one launcher's that got past systemd-run (`CountInv`). `RuntimeInv` says where the boot is, given
  where the session is, and the other way round.
- *Launcher*: `ControlInv` bounds where the main thread can be by handlers, script and child; `RelayInv` counts, per
  signal, that what was taken is what was sent and what is pending; `PlanInv` makes the plan a function of the job, and the
  four properties of the environments follow from it by what is in each of them. `AccountInv` bounds the same account by what
  arrived, `EndInv` follows result, child and script from the loop to the end, `DecisionInv` the decisions from `execute` to `Popen`. The
  assumption on the jobs says that a configured backend is one of the three that `cli.py` and `nix/module.nix` accept.
- *InteractiveIO*: `PacketInv` says that a packet is half written exactly while the holder of the mutex writes it; `OutputInv`
  accounts for each chunk, in the pipe, the pump, the socket or the host. `WaitInv` says who holds the mutex, that the exit code stays on
  the socket until it is read, and that `forward_input` ends only with its terminal; from the four invariants follows that no circle of waits keeps it from the client.
- *SteamBootstrap*: descriptor 9 is open only where the lock is held (`LockInv`), commands belong to their shell's place or to a shell
  that left (`StageInv`), a staging directory has what cp has written, all of it from then on, until a trap empties it (`StagingInv`), and
  a shell installs only where nothing is (`InstallInv`). `DiskInv` adds that the disk holds a directory where it is or was, and that nobody works
  any more on one that was cut. `TidyInv` follows each shell's staging directory from mktemp to the trap or the
  rename (`WayInv`), and shows that a rename is raced only after a SIGTERM (`OnlyTermRaces`).
- *WaylandUtilities*: a growth under way has a request that is the true sum and larger than the array's capacity. `RingsAreLists` is
  inductive only with `NodesDiffer`, no node is in two places: then what an operation writes belongs to the two or three neighbours it names.
  One lemma per list operation says where each node of the new rings was in the old ones. The loop's capacity is at least `MinCapacity`
  (`CapacityInv`), so that doubling raises it: without it a capacity of 0 would be doubled for ever.
- *GuestFiles*: the database theorem rests on the transitivity of "belongs to the family of"; `WalksAreRelocatable` and `LinksKeepTheirTarget` are about
  one step of a walk. What a whole walk visits is the least set that holds its start and is closed under the step (`Visited`); a
  path resolves to p when that set holds a walk at p with nothing before it, so a walk that goes in circles resolves to nothing.
  Least sets need no induction: to show that a walk is visited, or is not, one names a closed set. `AssemblyKeepsPaths` and
  `ImageIsRelocatable` do so in both directions. The latter assumes of the walk in the closure that each link it meets leads into the store or
  is relative and does not climb above the root, and that the walk stays in the directories that are bound; it takes the place where they are bound
  to be reached without links.

**Only model-checked**: liveness and the fairness half of the refinement of RequestPromise (`KeepsPromise` is `Promise!FairSpec`),
since the prover handles neither fairness nor `ENABLED`: `GoneIsRetired`, `GoneEndsThread`, `SentIsHandled`, `EnsureEnds`, `BootIsDecided`,
`OutputDrains`, `ExitArrives`, `LauncherEnds`, `EveryoneGetsOn`, `AddEnds`. For five of them the safety half is proved, that the next step
is possible or owed: `KilledChildEnds` and `KillIsComplete` for `GoneIsRetired`, `OutputWaitsForInputOnly` for `OutputDrains`,
`NobodyWaitsInACircle` for `ExitArrives`, `LockIsLetGo` for `EveryoneGetsOn` and `DoublingEnds` for `AddEnds`. They name the guards of the
actions (`HostCanMove` and the like, `CanMove`) where `ENABLED` cannot be used. Induction over data and RECURSIVE operators
are out of the prover's reach; no module here uses them.

## What is not modelled

- byte contents, packet encodings, argument strings and logging of the modelled parts;
- exhausted identifiers, memory or descriptors in the guest (a spawn may fail, for any reason);
- the death of the worker itself, which ends the VM: VmLifecycle's `Crash`;
- what muvm's client does where no VM answers it, and a second `ensure`, which no code makes;
- `resolve_program` for a name with a slash and the argument parser: a file that exists or not, and argparse;
- of the Wayland patches, the placement of host allocations below 4 GiB and the lookup of proxy interfaces; of
  `pressure-vessel.c`, the scan of the argument vector; of the image, the copying of a closure; `wine.sh`;
- `prepare-vm.sh`, which runs once as root before the VM has anything else in it: its failure is a boot that fails;
- the EGL and GLES thunks, the ALSA callbacks and the display patches: declarations for FEX's generator, conversions of one
  argument, selection of a path or a number, without state that outlives a call;
- Nix composition, which is evaluated and not executed; the tests, which are read as statements of what the program promises
  (`image.py`'s walk and database test excepted, which are modelled with what they test).

## What could follow

The argument vector of the PressureVessel wrapper; `prepare-vm.sh` run a second time over its own result;
VmRuntime's `Request` refined by the client of RequestLifetime. Of proofs: the safety halves of `EnsureEnds`, `BootIsDecided`,
`SentIsHandled` and `LauncherEnds`.

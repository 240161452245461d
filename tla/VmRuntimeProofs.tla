--------------------------- MODULE VmRuntimeProofs ---------------------------
(***************************************************************************)
(* What a launcher may rely on once ensure has returned, proved for any    *)
(* number of launchers and any set of faults: first of VmLifecycle, then,  *)
(* through the refinement, of the runtime whose boots run a session.       *)
(***************************************************************************)
EXTENDS VmRuntime, FiniteSetTheorems, TLAPS

(* The parts of the inductive invariant of VmLifecycle. *)

\* The bound of `starts` needs counting and is proved with CountInv below.
Types ==
    /\ pc \in [Launchers -> {"start", "blocked"} \cup Holding \cup Ended]
    /\ lock \in Launchers \cup {NoLauncher}
    /\ late \subseteq Launchers
    /\ unit \in {"none", "active", "stopping", "failed"}
    /\ vm \in {"off", "booting", "serving", "stuck"}
    /\ starts \in Nat
    /\ answered \in [Launchers -> Nat]

\* Who is in the block of the flock holds it.
LockIsHeld == \A l \in Launchers : pc[l] \in Holding => lock = l

\* What serves is the last VM that was started, and it came to answer.
ServesAfterBoot == vm = "serving" => starts \in served

\* Unless somebody ends it, a VM that is there is in its unit, and so stays.
StaysInUnit ==
    faults \cap {"crash", "stop"} = {} =>
        /\ unit # "stopping"
        /\ vm # "off" => unit = "active"
        /\ \A l \in Launchers : pc[l] \in {"ok", "joined"} => vm = "serving"

\* Where nothing goes wrong, one launcher starts the VM and sees it through its boot.
OneSeesToIt ==
    faults = {} =>
        /\ late = {}
        /\ vm # "stuck"
        /\ starts = 0 => vm = "off" /\ unit = "none"
        /\ starts # 0 => starts = 1 /\ vm # "off" /\ unit = "active"
        /\ \A l \in Launchers :
              /\ pc[l] \in {"reset", "run"} => starts = 0
              /\ pc[l] \in {"poll", "check"} => starts = 1
              /\ pc[l] \in Ended => pc[l] \in {"ok", "joined"}
        /\ vm = "booting" => \E l \in Launchers : pc[l] \in {"poll", "check"}

\* Where only sessions fail, a loaded unit serves, or boots for a launcher that waits
\* for it with the lock, or has failed; who is about to start has found it free.
FailuresAreForgotten ==
    faults \subseteq SessionFaults \cup {"kvm"} =>
        /\ late = {}
        /\ vm # "stuck"
        /\ unit # "stopping"
        /\ unit = "active" =>
              \/ vm = "serving"
              \/ \E l \in Launchers : pc[l] \in {"poll", "check"}
        /\ \A l \in Launchers :
              /\ pc[l] = "reset" => unit # "active"
              /\ pc[l] = "run" => unit = "none"
              /\ pc[l] # "refused"

LifecycleInv ==
    /\ Types
    /\ LockIsHeld
    /\ ServesAfterBoot
    /\ OkMeansServed
    /\ StaysInUnit
    /\ OneSeesToIt
    /\ FailuresAreForgotten

---------------------------------------------------------------------------
\* No VM runs and no launcher has begun.
LEMMA InitLifecycle == Init => LifecycleInv
  <1> SUFFICES ASSUME Init PROVE LifecycleInv
    OBVIOUS
  <1> QED
    BY DEF Init, LifecycleInv, Types, LockIsHeld, ServesAfterBoot, OkMeansServed,
      StaysInUnit, OneSeesToIt, FailuresAreForgotten, Holding, Ended, Accepted

\* The types.
LEMMA TypesStep == Types /\ [Next]_vars => Types'
  <1> SUFFICES ASSUME Types, [Next]_vars PROVE Types'
    OBVIOUS
  <1> USE DEF Types, Holding, Ended, Accepted, Move, Leave, vmVars
  <1>1. ASSUME NEW l \in Launchers, Open(l) \/ Lock(l) \/ FirstProbe(l) \/ ResetFailed(l)
        PROVE Types'
    <2>1. CASE Open(l) \/ Lock(l) \/ ResetFailed(l)
      BY <2>1 DEF Open, Lock, ResetFailed
    <2>2. CASE FirstProbe(l)
      BY <2>2 DEF FirstProbe
    <2> QED
      BY <1>1, <2>1, <2>2
  <1>2. ASSUME NEW l \in Launchers, RunUnit(l) \/ Poll(l) \/ Check(l) \/ Timeout(l)
        PROVE Types'
    <2>1. CASE RunUnit(l)
      BY <2>1 DEF RunUnit
    <2>2. CASE Poll(l)
      BY <2>2 DEF Poll
    <2>3. CASE Check(l) \/ Timeout(l)
      BY <2>3 DEF Check, Timeout
    <2> QED
      BY <1>2, <2>1, <2>2, <2>3
  <1>3. ASSUME NEW l \in Launchers, Request(l) \/ Expire(l) \/ Interrupt(l) PROVE Types'
    BY <1>3 DEF Request, Expire, Interrupt
  <1>4. CASE BootDone \/ BootFails \/ BootStalls \/ Collect \/ Stopped \/ Crash \/ Stop
    BY <1>4 DEF BootDone, BootFails, BootStalls, Collect, Stopped, Crash, Stop
  <1>5. CASE UNCHANGED vars
    BY <1>5 DEF vars
  <1> QED
    BY <1>1, <1>2, <1>3, <1>4, <1>5 DEF Next, EnsureStep, UnitStep, BootStep

\* The flock is taken when free and given up by its holder only.
LEMMA LockStep == Types /\ LockIsHeld /\ [Next]_vars => LockIsHeld'
  <1> SUFFICES ASSUME Types, LockIsHeld, [Next]_vars PROVE LockIsHeld'
    OBVIOUS
  <1> USE NoLauncherAssumption
      DEF Types, LockIsHeld, Holding, Ended, Accepted, Move, Leave, vmVars
  <1>1. ASSUME NEW l \in Launchers, Open(l) \/ Lock(l) \/ FirstProbe(l) \/ ResetFailed(l)
        PROVE LockIsHeld'
    BY <1>1 DEF Open, Lock, FirstProbe, ResetFailed
  <1>2. ASSUME NEW l \in Launchers, RunUnit(l) \/ Poll(l) \/ Check(l) \/ Timeout(l)
        PROVE LockIsHeld'
    BY <1>2 DEF RunUnit, Poll, Check, Timeout
  <1>3. ASSUME NEW l \in Launchers, Request(l) \/ Expire(l) \/ Interrupt(l) PROVE LockIsHeld'
    BY <1>3 DEF Request, Expire, Interrupt
  <1>4. CASE BootDone \/ BootFails \/ BootStalls \/ Collect \/ Stopped \/ Crash \/ Stop
    BY <1>4 DEF BootDone, BootFails, BootStalls, Collect, Stopped, Crash, Stop
  <1>5. CASE UNCHANGED vars
    BY <1>5 DEF vars
  <1> QED
    BY <1>1, <1>2, <1>3, <1>4, <1>5 DEF Next, EnsureStep, UnitStep, BootStep

\* An answer comes from a VM that finished its boot; `served` only grows.
LEMMA ServedStep ==
    Types /\ ServesAfterBoot /\ OkMeansServed /\ [Next]_vars => ServesAfterBoot' /\ OkMeansServed'
  <1> SUFFICES ASSUME Types, ServesAfterBoot, OkMeansServed, [Next]_vars
               PROVE  ServesAfterBoot' /\ OkMeansServed'
    OBVIOUS
  <1> USE DEF Types, ServesAfterBoot, OkMeansServed, Holding, Ended, Accepted, Move, Leave, vmVars
  <1>1. ASSUME NEW l \in Launchers, Open(l) \/ Lock(l) \/ FirstProbe(l) \/ ResetFailed(l)
        PROVE ServesAfterBoot' /\ OkMeansServed'
    BY <1>1 DEF Open, Lock, FirstProbe, ResetFailed, Ready
  <1>2. ASSUME NEW l \in Launchers, RunUnit(l) \/ Poll(l) \/ Check(l) \/ Timeout(l)
        PROVE ServesAfterBoot' /\ OkMeansServed'
    BY <1>2 DEF RunUnit, Poll, Check, Timeout, Ready
  <1>3. ASSUME NEW l \in Launchers, Request(l) \/ Expire(l) \/ Interrupt(l)
        PROVE ServesAfterBoot' /\ OkMeansServed'
    BY <1>3 DEF Request, Expire, Interrupt
  <1>4. CASE BootDone \/ BootFails \/ BootStalls \/ Collect \/ Stopped \/ Crash \/ Stop
    BY <1>4 DEF BootDone, BootFails, BootStalls, Collect, Stopped, Crash, Stop
  <1>5. CASE UNCHANGED vars
    BY <1>5 DEF vars
  <1> QED
    BY <1>1, <1>2, <1>3, <1>4, <1>5 DEF Next, EnsureStep, UnitStep, BootStep

\* Unless somebody ends it, a VM that serves stays: systemd refuses a second one while
\* its unit is loaded.
LEMMA StaysStep == Types /\ StaysInUnit /\ [Next]_vars => StaysInUnit'
  <1> SUFFICES ASSUME Types, StaysInUnit, [Next]_vars PROVE StaysInUnit'
    OBVIOUS
  <1> USE DEF Types, StaysInUnit, Holding, Ended, Accepted, Move, Leave, vmVars
  <1>1. ASSUME NEW l \in Launchers, Open(l) \/ Lock(l) \/ FirstProbe(l) \/ ResetFailed(l)
        PROVE StaysInUnit'
    BY <1>1 DEF Open, Lock, FirstProbe, ResetFailed, Ready
  <1>2. ASSUME NEW l \in Launchers, RunUnit(l) \/ Poll(l) \/ Check(l) \/ Timeout(l)
        PROVE StaysInUnit'
    BY <1>2 DEF RunUnit, Poll, Check, Timeout, Ready
  <1>3. ASSUME NEW l \in Launchers, Request(l) \/ Expire(l) \/ Interrupt(l)
        PROVE StaysInUnit'
    BY <1>3 DEF Request, Expire, Interrupt
  <1>4. CASE BootDone \/ BootFails \/ BootStalls \/ Collect \/ Stopped \/ Crash \/ Stop
    BY <1>4 DEF BootDone, BootFails, BootStalls, Collect, Stopped, Crash, Stop
  <1>5. CASE UNCHANGED vars
    BY <1>5 DEF vars
  <1> QED
    BY <1>1, <1>2, <1>3, <1>4, <1>5 DEF Next, EnsureStep, UnitStep, BootStep

\* The probe and the start are one step of whoever holds the lock, so nobody else finds
\* the VM missing; and the holder stays until the VM serves.
LEMMA ColdStartStep ==
    Types /\ LockIsHeld /\ StaysInUnit /\ OneSeesToIt /\ [Next]_vars => OneSeesToIt'
  <1> SUFFICES ASSUME Types, LockIsHeld, StaysInUnit, OneSeesToIt, faults = {},
                      [Next]_vars, faults' = faults
               PROVE  OneSeesToIt'
    BY DEF OneSeesToIt, Next, EnsureStep, UnitStep, BootStep, vars, Open, Lock, FirstProbe,
      ResetFailed, RunUnit, Poll, Check, Timeout, Request, Expire, Interrupt, BootDone,
      BootFails, BootStalls, Collect, Stopped, Crash, Stop
  <1> USE DEF Types, LockIsHeld, StaysInUnit, OneSeesToIt, Holding, Ended, Accepted, Move,
      Leave, vmVars
  <1>1. ASSUME NEW l \in Launchers, Open(l) PROVE OneSeesToIt'
    BY <1>1 DEF Open
  <1>2. ASSUME NEW l \in Launchers, Lock(l) PROVE OneSeesToIt'
    BY <1>2, NoLauncherAssumption DEF Lock
  <1>3. ASSUME NEW l \in Launchers, FirstProbe(l) PROVE OneSeesToIt'
    BY <1>3 DEF FirstProbe, Ready
  <1>4. ASSUME NEW l \in Launchers, ResetFailed(l) PROVE OneSeesToIt'
    BY <1>4 DEF ResetFailed
  <1>5. ASSUME NEW l \in Launchers, RunUnit(l) PROVE OneSeesToIt'
    BY <1>5 DEF RunUnit
  <1>6. ASSUME NEW l \in Launchers, Poll(l) PROVE OneSeesToIt'
    BY <1>6 DEF Poll, Ready
  <1>7. ASSUME NEW l \in Launchers, Check(l) PROVE OneSeesToIt'
    BY <1>7 DEF Check
  <1>8. ASSUME NEW l \in Launchers, Timeout(l) \/ Expire(l) \/ Interrupt(l) PROVE OneSeesToIt'
    BY <1>8 DEF Timeout, Expire, Interrupt
  <1>9. ASSUME NEW l \in Launchers, Request(l) PROVE OneSeesToIt'
    BY <1>9 DEF Request
  <1>10. CASE BootDone \/ BootFails \/ BootStalls \/ Collect \/ Stopped \/ Crash \/ Stop
    BY <1>10 DEF BootDone, BootFails, BootStalls, Collect, Stopped, Crash, Stop
  <1>11. CASE UNCHANGED vars
    BY <1>11 DEF vars
  <1> QED
    BY <1>1, <1>2, <1>3, <1>4, <1>5, <1>6, <1>7, <1>8, <1>9, <1>10, <1>11
    DEF Next, EnsureStep, UnitStep, BootStep

\* A launcher that finds no answer has the lock to itself: a unit that boots belongs to
\* somebody who waits for it with the lock, and one that failed is forgotten by the
\* launcher, if systemd has not done it.
LEMMA ForgottenStep ==
    Types /\ LockIsHeld /\ FailuresAreForgotten /\ [Next]_vars => FailuresAreForgotten'
  <1> SUFFICES ASSUME Types, LockIsHeld, FailuresAreForgotten, [Next]_vars, faults' = faults,
                      "interrupt" \notin faults, "slow" \notin faults, "stall" \notin faults,
                      "crash" \notin faults, "stop" \notin faults,
                      faults \subseteq SessionFaults \cup {"kvm"}
               PROVE  FailuresAreForgotten'
    BY DEF FailuresAreForgotten, SessionFaults, Next, EnsureStep, UnitStep, BootStep, vars,
      Open, Lock, FirstProbe, ResetFailed, RunUnit, Poll, Check, Timeout, Request, Expire,
      Interrupt, BootDone, BootFails, BootStalls, Collect, Stopped, Crash, Stop
  <1> USE DEF Types, LockIsHeld, FailuresAreForgotten, Holding, Ended, Accepted, Move, Leave,
      vmVars
  <1>1. ASSUME NEW l \in Launchers, Open(l) PROVE FailuresAreForgotten'
    BY <1>1 DEF Open
  <1>2. ASSUME NEW l \in Launchers, Lock(l) PROVE FailuresAreForgotten'
    BY <1>2, NoLauncherAssumption DEF Lock
  <1>3. ASSUME NEW l \in Launchers, FirstProbe(l) PROVE FailuresAreForgotten'
    BY <1>3 DEF FirstProbe, Ready
  <1>4. ASSUME NEW l \in Launchers, ResetFailed(l) PROVE FailuresAreForgotten'
    BY <1>4 DEF ResetFailed
  <1>5. ASSUME NEW l \in Launchers, RunUnit(l) PROVE FailuresAreForgotten'
    BY <1>5 DEF RunUnit
  <1>6. ASSUME NEW l \in Launchers, Poll(l) PROVE FailuresAreForgotten'
    BY <1>6 DEF Poll, Ready
  <1>7. ASSUME NEW l \in Launchers, Check(l) PROVE FailuresAreForgotten'
    BY <1>7 DEF Check
  <1>8. ASSUME NEW l \in Launchers, Timeout(l) \/ Expire(l) \/ Interrupt(l)
        PROVE FailuresAreForgotten'
    BY <1>8 DEF Timeout, Expire, Interrupt
  <1>9. ASSUME NEW l \in Launchers, Request(l) PROVE FailuresAreForgotten'
    BY <1>9 DEF Request
  <1>10. CASE BootDone \/ BootFails \/ BootStalls \/ Collect \/ Stopped \/ Crash \/ Stop
    BY <1>10 DEF BootDone, BootFails, BootStalls, Collect, Stopped, Crash, Stop
  <1>11. CASE UNCHANGED vars
    BY <1>11 DEF vars
  <1> QED
    BY <1>1, <1>2, <1>3, <1>4, <1>5, <1>6, <1>7, <1>8, <1>9, <1>10, <1>11
    DEF Next, EnsureStep, UnitStep, BootStep

\* Every part together.
LEMMA LifecycleStep == LifecycleInv /\ [Next]_vars => LifecycleInv'
  BY TypesStep, LockStep, ServedStep, StaysStep, ColdStartStep, ForgottenStep DEF LifecycleInv

\* The lifecycle keeps its invariant.
THEOREM LifecycleInvariance == Spec => []LifecycleInv
  BY InitLifecycle, LifecycleStep, PTL DEF Spec

---------------------------------------------------------------------------
(* The refinement.                                                         *)

\* A step of the runtime is a step of the lifecycle, or one inside the guest.
LEMMA RuntimeStep == [RuntimeNext]_allVars => [Next]_vars
  <1> SUFFICES ASSUME [RuntimeNext]_allVars PROVE [Next]_vars
    OBVIOUS
  <1>1. ASSUME NEW l \in Launchers, Start(l) \/ Launch(l) PROVE [Next]_vars
    BY <1>1 DEF Start, Launch, Next, EnsureStep
  <1>2. CASE SessionDone \/ SessionFails \/ Stall \/ VmEnds
    BY <1>2 DEF SessionDone, SessionFails, Stall, VmEnds, Next, UnitStep, BootStep
  <1>3. CASE Others
    BY <1>3 DEF Others, Next, UnitStep
  <1>4. CASE Guest(Session!Next)
    BY <1>4 DEF Guest
  <1>5. CASE UNCHANGED allVars
    BY <1>5 DEF allVars
  <1> QED
    BY <1>1, <1>2, <1>3, <1>4, <1>5 DEF RuntimeNext

\* So what the lifecycle keeps, the runtime keeps.
LEMMA RuntimeIsLifecycle == RuntimeSpec => Spec
  BY RuntimeStep, PTL DEF RuntimeSpec, RuntimeInit, Spec

\* A launcher that goes on was answered by a VM that had finished its boot.
THEOREM AnswersAreReal == RuntimeSpec => []OkMeansServed
  BY LifecycleInvariance, RuntimeIsLifecycle, PTL DEF LifecycleInv

\* Launchers that start cold together start one VM and all get it.
THEOREM OneColdStart == RuntimeSpec => []ColdStartIsShared
  <1>1. LifecycleInv => ColdStartIsShared
    BY DEF LifecycleInv, OneSeesToIt, ColdStartIsShared, Types
  <1> QED
    BY <1>1, LifecycleInvariance, RuntimeIsLifecycle, PTL

\* A session that fails, and a unit that systemd still has as failed, turn no launcher away.
THEOREM FailuresAreNotRefusals == RuntimeSpec => []FailedStartIsForgotten
  <1>1. LifecycleInv => FailedStartIsForgotten
    BY DEF LifecycleInv, FailuresAreForgotten, FailedStartIsForgotten
  <1> QED
    BY <1>1, LifecycleInvariance, RuntimeIsLifecycle, PTL

---------------------------------------------------------------------------
(* The session.                                                            *)

\* From its start on there is a server until it is reaped, the pipe is read at its end
\* or with data, and only a server that was ready, or one overlooked while it closed its
\* descriptors, lets the bus start.
SessionInv ==
    /\ Session!TypeOK
    /\ session \in {"off", "spawn"} => server = "none" /\ ~data /\ ~overlooked
    /\ session \in {"close", "select"} =>
          server \in {"starting", "ready", "closing", "zombie"} /\ ~overlooked
    /\ session = "read" => server \in {"ready", "closing", "zombie"}
                            \/ (server = "starting" /\ data)
    /\ session \in {"bus", "ok"} => wasReady \/ overlooked
    /\ server = "ready" => wasReady
    /\ server = "reaped" => session \in {"except", "failed"}
    /\ bus <=> session = "ok"
    /\ NoServerIsLeft

\* prepare-session and FEXServer keep it.
LEMMA SessionStepInv == SessionInv /\ Session!Next => SessionInv'
  <1> SUFFICES ASSUME SessionInv, Session!Next PROVE SessionInv'
    OBVIOUS
  <1> USE DEF SessionInv, Session!TypeOK, NoServerIsLeft, Session!NoServerIsLeft, Session!Move,
      Session!EndOfFile
  <1>1. CASE Session!Spawn \/ Session!CloseWriter
    <2>1. CASE Session!Spawn /\ session' = "close"
      BY <2>1 DEF Session!Spawn
    <2>2. CASE Session!Spawn /\ session' = "except"
      BY <2>2 DEF Session!Spawn
    <2>3. CASE Session!CloseWriter
      BY <2>3 DEF Session!CloseWriter
    <2> QED
      BY <1>1, <2>1, <2>2, <2>3 DEF Session!Spawn
  <1>2. CASE Session!Select \/ Session!SelectTimeout
    BY <1>2 DEF Session!Select, Session!SelectTimeout
  <1>3. CASE Session!Read
    BY <1>3 DEF Session!Read
  <1>4. CASE Session!StartBus
    <2>1. CASE session' = "ok"
      BY <1>4, <2>1 DEF Session!StartBus
    <2>2. CASE session' = "except"
      BY <1>4, <2>2 DEF Session!StartBus
    <2> QED
      BY <1>4, <2>1, <2>2 DEF Session!StartBus
  <1>5. CASE Session!Except
    BY <1>5 DEF Session!Except
  <1>6. CASE Session!Reap \/ Session!WaitTimeout
    BY <1>6 DEF Session!Reap, Session!WaitTimeout
  <1>7. CASE Session!ServerReady \/ Session!ServerWrites
    <2>1. CASE Session!ServerReady
      BY <2>1 DEF Session!ServerReady
    <2>2. CASE Session!ServerWrites
      BY <2>2 DEF Session!ServerWrites
    <2> QED
      BY <1>7, <2>1, <2>2
  <1>8. CASE Session!ServerDies \/ Session!ServerObeys \/ Session!ServerExits
    BY <1>8 DEF Session!ServerDies, Session!ServerObeys, Session!ServerExits
  <1> QED
    BY <1>1, <1>2, <1>3, <1>4, <1>5, <1>6, <1>7, <1>8
    DEF Session!Next, Session!SessionStep, Session!ServerStep

\* Every new VM begins a session afresh, and the end of a VM ends its session.
LEMMA RuntimeKeepsSession == SessionInv /\ [RuntimeNext]_allVars => SessionInv'
  <1> SUFFICES ASSUME SessionInv, [RuntimeNext]_allVars PROVE SessionInv'
    OBVIOUS
  <1>1. CASE UNCHANGED sessionVars
    BY <1>1 DEF SessionInv, Session!TypeOK, NoServerIsLeft, Session!NoServerIsLeft, sessionVars
  <1>2. CASE Session!Begin \/ Session!Gone
    BY <1>2 DEF SessionInv, Session!TypeOK, NoServerIsLeft, Session!NoServerIsLeft,
      Session!Begin, Session!Gone, Session!Restart
  <1>3. CASE Guest(Session!Next)
    BY <1>3, SessionStepInv DEF Guest
  <1> QED
    BY <1>1, <1>2, <1>3 DEF RuntimeNext, allVars, Start, Launch, SessionDone, SessionFails,
      Stall, VmEnds, Others

\* The invariant of the session, whatever VMs come and go.
THEOREM SessionInvariance == RuntimeSpec => []SessionInv
  <1>1. RuntimeInit => SessionInv
    BY DEF RuntimeInit, Session!Init, SessionInv, Session!TypeOK, NoServerIsLeft,
      Session!NoServerIsLeft
  <1> QED
    BY <1>1, RuntimeKeepsSession, PTL DEF RuntimeSpec

\* A boot goes on only with a server that was ready, or one whose end poll() overlooked.
THEOREM SessionIsServed == RuntimeSpec => []SessionHasServer
  <1>1. SessionInv => SessionHasServer
    BY DEF SessionInv, SessionHasServer, Session!SessionHasServer
  <1> QED
    BY <1>1, SessionInvariance, PTL

\* A failed session leaves no server.
THEOREM ServerIsTakenDown == RuntimeSpec => []NoServerIsLeft
  BY SessionInvariance, PTL DEF SessionInv

---------------------------------------------------------------------------
(* The unit is what keeps VMs apart, and the flock what keeps them few.    *)

\* A loaded unit that did not fail has its VM, and without one there is no VM.
UnitHasVm ==
    /\ unit \in {"active", "stopping"} => vm # "off"
    /\ unit \in {"none", "failed"} => vm = "off"

\* The launchers past systemd-run.
Started == {l \in Launchers : pc[l] \notin {"start", "blocked", "first", "reset", "run"}}

\* What is left of TypeOK: no more VMs than launchers that came that far, and numbers of
\* VMs that there were.
CountInv ==
    /\ starts <= Cardinality(Started)
    /\ vm # "off" => starts >= 1
    /\ served \subseteq 1 .. starts
    /\ gone \subseteq 1 .. starts
    /\ \A l \in Launchers : answered[l] <= starts
    /\ faults \in Environments

\* The lock of startup.lock is somebody's who is in the block.
LockIsUsed == lock # NoLauncher => pc[lock] \in Holding

\* A VM that answered a launcher serves and is the last one, until it crashes or is
\* stopped.
AnswerStands ==
    \A l \in Launchers :
        pc[l] \in {"ok", "joined"} =>
            answered[l] \in gone \/ (answered[l] = starts /\ vm = "serving")

LoadedInv == UnitHasVm /\ CountInv /\ LockIsUsed /\ AnswerStands /\ AnsweredIsJoined

\* There is no unit and no VM at first.
LEMMA InitLoaded == Init => LoadedInv
  <1> SUFFICES ASSUME Init PROVE LoadedInv
    OBVIOUS
  <1>1. UnitHasVm /\ LockIsUsed /\ AnswerStands /\ AnsweredIsJoined
    BY DEF Init, UnitHasVm, LockIsUsed, AnswerStands, AnsweredIsJoined
  <1>2. Started = {}
    BY DEF Init, Started
  <1>3. CountInv
    BY <1>2, FS_EmptySet DEF Init, CountInv
  <1> QED
    BY <1>1, <1>3 DEF LoadedInv

\* A VM comes with its unit and goes with it.
LEMMA UnitStepKeeps == Types /\ UnitHasVm /\ [Next]_vars => UnitHasVm'
  <1> SUFFICES ASSUME Types, UnitHasVm, [Next]_vars PROVE UnitHasVm'
    OBVIOUS
  <1> USE DEF Types, UnitHasVm, vmVars
  <1>1. ASSUME NEW l \in Launchers, EnsureStep(l) \/ Open(l) \/ Expire(l) \/ Interrupt(l)
        PROVE  UnitHasVm'
    BY <1>1 DEF EnsureStep, Open, Lock, FirstProbe, ResetFailed, RunUnit, Poll, Check, Timeout,
      Request, Expire, Interrupt
  <1>2. CASE UnitStep \/ Crash \/ Stop
    BY <1>2 DEF UnitStep, BootStep, BootDone, BootFails, BootStalls, Collect, Stopped, Crash, Stop
  <1>3. CASE UNCHANGED vars
    BY <1>3 DEF vars
  <1> QED
    BY <1>1, <1>2, <1>3 DEF Next

\* Nobody comes back from the far side of systemd-run, and a start takes its launcher there.
LEMMA StartedGrows ==
    ASSUME Types, [Next]_vars
    PROVE  /\ Started \subseteq Started'
           /\ \/ starts' = starts
              \/ /\ starts' = starts + 1 /\ vm' # "off"
                 /\ \E l \in Launchers : l \notin Started /\ l \in Started'
  <1> USE DEF Types, Started, Move, Leave, vmVars
  <1>1. ASSUME NEW l \in Launchers, RunUnit(l)
        PROVE  /\ Started \subseteq Started'
               /\ \/ starts' = starts
                  \/ /\ starts' = starts + 1 /\ vm' # "off"
                     /\ l \notin Started /\ l \in Started'
    BY <1>1 DEF RunUnit
  <1>2. ASSUME NEW l \in Launchers,
               \/ Open(l) \/ Lock(l) \/ FirstProbe(l) \/ ResetFailed(l) \/ Poll(l) \/ Check(l)
               \/ Timeout(l) \/ Request(l) \/ Expire(l) \/ Interrupt(l)
        PROVE  Started \subseteq Started' /\ starts' = starts
    BY <1>2 DEF Open, Lock, FirstProbe, ResetFailed, Poll, Check, Timeout, Request, Expire,
      Interrupt
  <1>3. CASE UnitStep \/ Crash \/ Stop \/ UNCHANGED vars
    BY <1>3 DEF UnitStep, BootStep, BootDone, BootFails, BootStalls, Collect, Stopped, Crash,
      Stop, vars
  <1> QED
    BY <1>1, <1>2, <1>3 DEF Next, EnsureStep

\* A VM is counted against the launcher that started it.
LEMMA CountStep == Types /\ UnitHasVm /\ CountInv /\ [Next]_vars => CountInv'
  <1> SUFFICES ASSUME Types, UnitHasVm, CountInv, [Next]_vars PROVE CountInv'
    OBVIOUS
  <1>1. IsFiniteSet(Started) /\ IsFiniteSet(Started')
    BY LaunchersAssumption, FS_Subset DEF Started
  <1>2. Cardinality(Started) \in Nat /\ Cardinality(Started') \in Nat
    BY <1>1, FS_CardinalityType
  <1>3. starts' <= Cardinality(Started')
    <2>1. CASE starts' = starts
      <3>1. Cardinality(Started) <= Cardinality(Started')
        BY <1>1, StartedGrows, FS_Subset
      <3> QED
        BY <1>2, <2>1, <3>1 DEF CountInv, Types
    <2>2. CASE starts' # starts
      <3>1. starts' = starts + 1
        BY <2>2, StartedGrows
      <3>2. PICK l \in Launchers : l \notin Started /\ l \in Started'
        BY <2>2, StartedGrows
      <3>3. Cardinality(Started \cup {l}) = Cardinality(Started) + 1
        BY <1>1, <3>2, FS_AddElement
      <3>4. Started \cup {l} \subseteq Started'
        BY <3>2, StartedGrows
      <3>5. Cardinality(Started \cup {l}) <= Cardinality(Started')
        BY <1>1, <3>4, FS_Subset
      <3> QED
        BY <1>2, <3>1, <3>3, <3>5 DEF CountInv, Types
    <2> QED
      BY <2>1, <2>2
  <1> USE DEF Types, CountInv, vmVars
  <1>4. starts' \in Nat /\ starts <= starts'
    BY StartedGrows
  <1>5. vm' # "off" => starts' >= 1
    <2>1. CASE starts' = starts
      <3>1. ASSUME NEW l \in Launchers, RunUnit(l) PROVE vm' = vm
        BY <2>1, <3>1 DEF RunUnit
      <3>2. vm' = vm \/ vm # "off" \/ vm' = "off"
        BY <3>1 DEF Next, EnsureStep, Open, Lock, FirstProbe, ResetFailed, Poll, Check,
          Timeout, Request, Expire, Interrupt, UnitStep, BootStep, BootDone, BootFails,
          BootStalls, Collect, Stopped, Crash, Stop, vars
      <3> QED
        BY <2>1, <3>2
    <2>2. CASE starts' # starts
      BY <2>2, StartedGrows
    <2> QED
      BY <2>1, <2>2
  <1>6. served' \subseteq 1 .. starts'
    <2>1. CASE BootDone
      BY <2>1 DEF BootDone
    <2>2. CASE served' = served
      BY <1>4, <2>2
    <2> QED
      BY <2>1, <2>2 DEF Next, EnsureStep, Open, Lock, FirstProbe, ResetFailed, RunUnit, Poll,
        Check, Timeout, Request, Expire, Interrupt, UnitStep, BootStep, BootFails, BootStalls,
        Collect, Stopped, Crash, Stop, vars
  <1>9. gone' \subseteq 1 .. starts'
    <2>1. CASE Crash \/ Stopped
      <3>1. unit \in {"active", "stopping"} /\ starts' = starts /\ gone' = gone \cup {starts}
        BY <2>1 DEF Crash, Stopped
      <3>2. starts \in 1 .. starts
        BY <3>1 DEF UnitHasVm
      <3> QED
        BY <3>1, <3>2
    <2>2. CASE gone' = gone
      BY <1>4, <2>2
    <2> QED
      BY <2>1, <2>2 DEF Next, EnsureStep, Open, Lock, FirstProbe, ResetFailed, RunUnit, Poll,
        Check, Timeout, Request, Expire, Interrupt, UnitStep, BootStep, BootDone, BootFails,
        BootStalls, Collect, Stop, vars
  <1>7. \A l \in Launchers : answered'[l] <= starts'
    <2>1. ASSUME NEW k \in Launchers, FirstProbe(k) \/ Poll(k)
          PROVE  \A l \in Launchers : answered'[l] <= starts'
      <3>1. starts' = starts /\ answered' \in {answered, [answered EXCEPT ![k] = starts]}
        BY <2>1 DEF FirstProbe, Poll
      <3> QED
        BY <3>1
    <2>2. CASE answered' = answered
      BY <1>4, <2>2
    <2> QED
      BY <2>1, <2>2 DEF Next, EnsureStep, Open, Lock, ResetFailed, RunUnit, Check, Timeout,
        Request, Expire, Interrupt, UnitStep, BootStep, BootDone, BootFails, BootStalls,
        Collect, Stopped, Crash, Stop, vars
  <1>8. faults' = faults
    BY DEF Next, EnsureStep, Open, Lock, FirstProbe, ResetFailed, RunUnit, Poll, Check, Timeout,
      Request, Expire, Interrupt, UnitStep, BootStep, BootDone, BootFails, BootStalls, Collect,
      Stopped, Crash, Stop, vars
  <1> QED
    BY <1>3, <1>5, <1>6, <1>7, <1>8, <1>9

\* Whoever leaves the block gives the lock back.
LEMMA UsedStep == Types /\ LockIsHeld /\ LockIsUsed /\ [Next]_vars => LockIsUsed'
  <1> SUFFICES ASSUME Types, LockIsHeld, LockIsUsed, [Next]_vars PROVE LockIsUsed'
    OBVIOUS
  <1> USE NoLauncherAssumption DEF Types, LockIsHeld, LockIsUsed, Holding, Ended, Accepted,
      Move, Leave, vmVars
  <1>1. ASSUME NEW l \in Launchers, Open(l) \/ Lock(l) \/ FirstProbe(l) \/ ResetFailed(l)
        PROVE LockIsUsed'
    BY <1>1 DEF Open, Lock, FirstProbe, ResetFailed
  <1>2. ASSUME NEW l \in Launchers, RunUnit(l) \/ Poll(l) \/ Check(l) \/ Timeout(l)
        PROVE LockIsUsed'
    BY <1>2 DEF RunUnit, Poll, Check, Timeout
  <1>3. ASSUME NEW l \in Launchers, Request(l) \/ Expire(l) \/ Interrupt(l) PROVE LockIsUsed'
    BY <1>3 DEF Request, Expire, Interrupt
  <1>4. CASE UnitStep \/ Crash \/ Stop
    BY <1>4 DEF UnitStep, BootStep, BootDone, BootFails, BootStalls, Collect, Stopped, Crash, Stop
  <1>5. CASE UNCHANGED vars
    BY <1>5 DEF vars
  <1> QED
    BY <1>1, <1>2, <1>3, <1>4, <1>5 DEF Next, EnsureStep

\* While an answered launcher's VM is there, systemd starts no other one, and only a crash
\* or a stop takes it away.
LEMMA AnswerStep ==
    Types /\ UnitHasVm /\ AnswerStands /\ AnsweredIsJoined /\ [Next]_vars
        => AnswerStands' /\ AnsweredIsJoined'
  <1> SUFFICES ASSUME Types, UnitHasVm, AnswerStands, AnsweredIsJoined, [Next]_vars
               PROVE  AnswerStands' /\ AnsweredIsJoined'
    OBVIOUS
  <1> USE DEF Types, UnitHasVm, AnswerStands, AnsweredIsJoined, Move, Leave, vmVars
  <1>1. ASSUME NEW l \in Launchers, Open(l) \/ Lock(l) \/ FirstProbe(l) \/ ResetFailed(l)
        PROVE AnswerStands' /\ AnsweredIsJoined'
    BY <1>1 DEF Open, Lock, FirstProbe, ResetFailed, Ready
  <1>2. ASSUME NEW l \in Launchers, RunUnit(l) \/ Poll(l) \/ Check(l) \/ Timeout(l)
        PROVE AnswerStands' /\ AnsweredIsJoined'
    BY <1>2 DEF RunUnit, Poll, Check, Timeout, Ready
  <1>3. ASSUME NEW l \in Launchers, Request(l) \/ Expire(l) \/ Interrupt(l)
        PROVE AnswerStands' /\ AnsweredIsJoined'
    BY <1>3 DEF Request, Expire, Interrupt
  <1>4. CASE UnitStep \/ Crash \/ Stop
    BY <1>4 DEF UnitStep, BootStep, BootDone, BootFails, BootStalls, Collect, Stopped, Crash, Stop
  <1>5. CASE UNCHANGED vars
    BY <1>5 DEF vars
  <1> QED
    BY <1>1, <1>2, <1>3, <1>4, <1>5 DEF Next, EnsureStep

\* The unit, the count of VMs and the lock agree in every state of the lifecycle.
THEOREM LoadedInvariance == Spec => []LoadedInv
  <1>1. LifecycleInv /\ LoadedInv /\ [Next]_vars => LoadedInv'
    BY UnitStepKeeps, CountStep, UsedStep, AnswerStep DEF LifecycleInv, LoadedInv
  <1> QED
    BY InitLoaded, <1>1, LifecycleInvariance, PTL DEF Spec

\* What TypeOK asks of the lifecycle.
LEMMA LifecycleTypes == Types /\ CountInv => TypeOK
  <1> SUFFICES ASSUME Types, CountInv PROVE TypeOK
    OBVIOUS
  <1>1. IsFiniteSet(Started) /\ Cardinality(Started) <= Cardinality(Launchers)
    BY LaunchersAssumption, FS_Subset DEF Started
  <1>2. Cardinality(Started) \in Nat /\ Cardinality(Launchers) \in Nat
    BY <1>1, LaunchersAssumption, FS_CardinalityType
  <1>3. starts \in 0 .. Cardinality(Launchers)
    BY <1>1, <1>2 DEF Types, CountInv
  <1>4. answered \in [Launchers -> 0 .. starts]
    BY DEF Types, CountInv
  <1> QED
    BY <1>3, <1>4 DEF Types, CountInv, TypeOK

\* The variables of the runtime have their types; in particular no more VMs are ever
\* started than there are launchers.
THEOREM TypeCorrect == RuntimeSpec => []RuntimeTypeOK
  <1>1. LifecycleInv /\ LoadedInv /\ SessionInv => RuntimeTypeOK
    BY LifecycleTypes DEF LifecycleInv, LoadedInv, SessionInv, RuntimeTypeOK
  <1> QED
    BY <1>1, LifecycleInvariance, LoadedInvariance, RuntimeIsLifecycle, SessionInvariance, PTL

\* The lock is never left behind, and a VM that answered goes on serving, as the only one,
\* until it crashes or is stopped.
THEOREM LockAndAnswerHold == RuntimeSpec => [](LockIsUsed /\ AnswerStands)
  BY LoadedInvariance, RuntimeIsLifecycle, PTL DEF LoadedInv

\* A launcher whose request finds no VM was answered by one that crashed or was stopped
\* since: no other launcher and no failure takes a VM that answered away.
THEOREM AnswersLast == RuntimeSpec => []AnsweredIsJoined
  BY LoadedInvariance, RuntimeIsLifecycle, PTL DEF LoadedInv

---------------------------------------------------------------------------
(* The lifecycle and the session together.                                 *)

\* A VM that boots has a session under way, one that serves has a session that succeeded,
\* and no VM has none.
Coupled ==
    /\ vm = "off" => session = "off"
    /\ vm = "booting" => session # "off"
    /\ vm = "serving" => session = "ok"

\* Where FEXServer does not die by itself, it is gone only after a SIGTERM, which is sent
\* by a session that fails.
ServerInv ==
    "die" \notin faults =>
        /\ told => session \in {"wait", "killed", "failed"}
        /\ server \in {"closing", "zombie", "reaped"} => session \in {"wait", "killed", "failed"}
        /\ session \in {"bus", "ok"} => server = "ready"

RuntimeInv == Coupled /\ ServerInv

\* A VM that serves has a session bus, and a FEXServer that is ready unless it may die by
\* itself: that is what every request that is answered relies on.
ServingIsReady ==
    vm = "serving" => bus /\ ("die" \notin faults => server = "ready")

\* Steps in the guest.
LEMMA GuestKeepsServer ==
    ASSUME SessionInv, ServerInv, Session!Next PROVE ServerInv' /\ (session # "off" => session' # "off")
  <1> USE DEF SessionInv, Session!TypeOK, ServerInv, Session!Move, Session!EndOfFile
  <1>1. CASE Session!Spawn \/ Session!CloseWriter
    BY <1>1 DEF Session!Spawn, Session!CloseWriter
  <1>2. CASE Session!Select \/ Session!SelectTimeout
    BY <1>2 DEF Session!Select, Session!SelectTimeout
  <1>3. CASE Session!Read \/ Session!StartBus
    BY <1>3 DEF Session!Read, Session!StartBus
  <1>4. CASE Session!Except
    BY <1>4 DEF Session!Except
  <1>5. CASE Session!Reap \/ Session!WaitTimeout
    BY <1>5 DEF Session!Reap, Session!WaitTimeout
  <1>6. CASE Session!ServerStep
    BY <1>6 DEF Session!ServerStep, Session!ServerReady, Session!ServerObeys, Session!ServerExits
  <1>7. CASE Session!ServerWrites \/ Session!ServerDies
    BY <1>7 DEF Session!ServerWrites, Session!ServerDies
  <1> QED
    BY <1>1, <1>2, <1>3, <1>4, <1>5, <1>6, <1>7 DEF Session!Next, Session!SessionStep

\* The boot begins the session and its success ends the boot; whatever takes the VM takes
\* the session.
LEMMA RuntimeInvStep ==
    Types /\ UnitHasVm /\ SessionInv /\ RuntimeInv /\ [RuntimeNext]_allVars => RuntimeInv'
  <1> SUFFICES ASSUME Types, UnitHasVm, SessionInv, RuntimeInv, [RuntimeNext]_allVars
               PROVE  RuntimeInv'
    OBVIOUS
  <1> USE DEF RuntimeInv, Coupled, vmVars, sessionVars
  <1>1. ASSUME NEW l \in Launchers, Start(l) PROVE RuntimeInv'
    <2>1. CASE unit = "none"
      <3>1. vm = "off" /\ vm' = "booting" /\ Session!Begin
        BY <1>1, <2>1 DEF Start, RunUnit, UnitHasVm
      <3> QED
        BY <3>1 DEF Session!Begin, Session!Restart, ServerInv
    <2>2. CASE unit # "none"
      <3>1. vm' = vm /\ UNCHANGED sessionVars /\ faults' = faults
        BY <1>1, <2>2 DEF Start, RunUnit
      <3> QED
        BY <3>1 DEF ServerInv
    <2> QED
      BY <2>1, <2>2
  <1>2. ASSUME NEW l \in Launchers, Launch(l) PROVE RuntimeInv'
    <2>1. vm' = vm /\ UNCHANGED sessionVars /\ faults' = faults
      BY <1>2 DEF Launch, Open, Lock, FirstProbe, ResetFailed, Poll, Check, Timeout, Request
    <2> QED
      BY <2>1 DEF ServerInv
  <1>3. CASE SessionDone \/ Stall
    BY <1>3 DEF SessionDone, Stall, BootDone, BootStalls, ServerInv
  <1>4. CASE SessionFails \/ VmEnds
    BY <1>4 DEF SessionFails, VmEnds, BootFails, Crash, Stopped, Session!Gone, Session!Restart,
      ServerInv
  <1>5. CASE Others
    BY <1>5 DEF Others, Expire, Interrupt, Collect, Stop, ServerInv
  <1>6. CASE Guest(Session!Next)
    BY <1>6, GuestKeepsServer DEF Guest, vars
  <1>7. CASE UNCHANGED allVars
    BY <1>7 DEF allVars, vars, ServerInv
  <1> QED
    BY <1>1, <1>2, <1>3, <1>4, <1>5, <1>6, <1>7 DEF RuntimeNext

\* Lifecycle and session go together in every state of the runtime.
THEOREM RuntimeInvariance == RuntimeSpec => []RuntimeInv
  <1>1. RuntimeInit => RuntimeInv
    BY DEF RuntimeInit, Init, Session!Init, RuntimeInv, Coupled, ServerInv
  <1>2. LifecycleInv /\ LoadedInv /\ SessionInv /\ RuntimeInv /\ [RuntimeNext]_allVars => RuntimeInv'
    BY RuntimeInvStep DEF LifecycleInv, LoadedInv
  <1> QED
    BY <1>1, <1>2, LifecycleInvariance, LoadedInvariance, RuntimeIsLifecycle, SessionInvariance, PTL
    DEF RuntimeSpec

\* Whatever answers requests has its session bus and its server.
THEOREM ServingHasServer == RuntimeSpec => []ServingIsReady
  <1>1. SessionInv /\ RuntimeInv => ServingIsReady
    BY DEF SessionInv, RuntimeInv, Coupled, ServerInv, ServingIsReady
  <1> QED
    BY <1>1, SessionInvariance, RuntimeInvariance, PTL

\* A VM is started only where there is none, nor a unit that could still have one: two
\* VMs never work on the runtime's state at once, whatever times out, is interrupted or
\* is being stopped.
StartsAlone == starts' # starts => unit = "none" /\ vm = "off" /\ starts' = starts + 1

\* The same of the runtime, where moreover no server of an earlier session is left.
THEOREM OneVmAtATime ==
    RuntimeSpec => [][StartsAlone /\ (starts' # starts => server = "none")]_allVars
  <1>1. LoadedInv /\ SessionInv /\ RuntimeInv /\ [RuntimeNext]_allVars =>
            [StartsAlone /\ (starts' # starts => server = "none")]_allVars
    <2> SUFFICES ASSUME LoadedInv, SessionInv, RuntimeInv, [RuntimeNext]_allVars, starts' # starts
                 PROVE  unit = "none" /\ vm = "off" /\ starts' = starts + 1 /\ server = "none"
      BY DEF StartsAlone
    <2>1. PICK l \in Launchers : RunUnit(l)
      BY DEF RuntimeNext, allVars, vars, Start, Launch, SessionDone, SessionFails, Stall, VmEnds,
        Others, Guest, Open, Lock, FirstProbe, ResetFailed, Poll, Check, Timeout, Request,
        Expire, Interrupt, Collect, Stop, Crash, Stopped, BootDone, BootFails, BootStalls, vmVars
    <2>2. unit = "none" /\ starts' = starts + 1
      BY <2>1 DEF RunUnit
    <2> QED
      BY <2>2 DEF LoadedInv, UnitHasVm, SessionInv, RuntimeInv, Coupled
  <1> QED
    BY <1>1, LoadedInvariance, RuntimeIsLifecycle, SessionInvariance, RuntimeInvariance, PTL
    DEF RuntimeSpec
=============================================================================

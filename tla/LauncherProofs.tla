---------------------------- MODULE LauncherProofs ----------------------------
(***************************************************************************)
(* The launcher, proved for any jobs, any signals and any number of them:  *)
(* what it may do before, while and after its child runs, and whose        *)
(* variables reach whom.                                                   *)
(***************************************************************************)
EXTENDS Launcher, FiniteSetTheorems, TLAPS

Deciding == {"load", "doctor", "stop", "program", "environment", "ensure"}
WithScript == {"write", "install", "popen", "assign", "flush", "wait", "restore", "cleanup"}
Protected == {"popen", "assign", "flush", "wait"}

\* The control state: handlers are in place as long as a child may run, the script is
\* there from before it until after it, and nothing happens before everything is decided.
ControlInv ==
    /\ pc \in Deciding \cup {"start", "ended"} \cup WithScript
    /\ installed \in 0 .. Len(Signals)
    /\ restored \in 0 .. installed
    /\ pc \in WithScript => script
    /\ pc \in Protected => installed = Len(Signals)
    /\ pc \notin {"restore", "cleanup", "ended"} => restored = 0
    /\ child = "alive" => pc \in {"assign", "flush", "wait"}
    /\ pc \in Deciding \cup {"start", "write", "install", "popen"} => child = "none"
    /\ pc \in Deciding => vm = "untouched"
    /\ pc \in Deciding \cup {"start"} => ~script
    /\ result = "refused" => pc = "ended" /\ vm = "untouched" /\ ~script /\ child = "none"

\* A signal that would end the launcher comes at no protected place.
LEMMA ProtectedHandlesAll ==
    ASSUME ControlInv, pc \in Protected
    PROVE  Handled = Signal
  <1>1. Len(Signals) \in Nat /\ DOMAIN Signals = 1 .. Len(Signals)
    BY SignalsAssumption
  <1>2. installed = Len(Signals) /\ restored = 0
    BY DEF ControlInv, Protected
  <1> QED
    BY <1>1, <1>2 DEF Handled, Signal

\* Nothing is in place when main begins.
LEMMA InitControl == Init => ControlInv
  <1> Len(Signals) \in Nat
    BY SignalsAssumption
  <1> QED
    BY DEF Init, ControlInv, Deciding, WithScript, Protected

\* Every step, and a signal at any moment, keeps the control state.
LEMMA ControlStep == ControlInv /\ [Next]_vars => ControlInv'
  <1> SUFFICES ASSUME ControlInv, [Next]_vars PROVE ControlInv'
    OBVIOUS
  <1> Len(Signals) \in Nat
    BY SignalsAssumption
  <1> USE DEF ControlInv, Deciding, WithScript, Protected, Move, Refuse, jobVars, runVars, mainVars
  <1>1. CASE Load \/ Doctor \/ StopVm
    BY <1>1 DEF Load, Doctor, StopVm
  <1>2. CASE ChooseProgram \/ ChooseEnvironment \/ EnsureVm
    BY <1>2 DEF ChooseProgram, ChooseEnvironment, EnsureVm
  <1>3. CASE MakeDirectory \/ WriteScript
    BY <1>3 DEF MakeDirectory, WriteScript
  <1>4. CASE Install
    BY <1>4 DEF Install
  <1>5. CASE Popen \/ Assign
    BY <1>5 DEF Popen, Assign
  <1>6. CASE Flush
    BY <1>6 DEF Flush, SendSignal
  <1>7. CASE Wait
    BY <1>7 DEF Wait
  <1>8. CASE Restore \/ Cleanup
    BY <1>8 DEF Restore, Cleanup
  <1>9. ASSUME NEW s \in Signal, Forward(s) PROVE ControlInv'
    BY <1>9 DEF Forward, Arrive, SendSignal
  <1>10. ASSUME NEW s \in Signal, Killed(s) PROVE ControlInv'
    <2>1. pc \notin Protected /\ pc # "ended"
      BY <1>10, ProtectedHandlesAll DEF Killed, Arrive
    <2> QED
      BY <1>10, <2>1 DEF Killed, Arrive
  <1>11. CASE RaiseInterrupt
    <2>1. pc # "ended"
      BY <1>11 DEF RaiseInterrupt, Arrive
    <2> QED
      BY <1>11, <2>1 DEF RaiseInterrupt, Arrive
  <1>12. CASE ChildExit
    BY <1>12 DEF ChildExit
  <1>13. CASE UNCHANGED vars
    BY <1>13 DEF vars
  <1> QED
    BY <1>1, <1>2, <1>3, <1>4, <1>5, <1>6, <1>7, <1>8, <1>9, <1>10, <1>11, <1>12, <1>13
    DEF Next, MainStep

\* The control state is as described, whatever signals come.
THEOREM ControlInvariance == Spec => []ControlInv
  BY InitControl, ControlStep, PTL DEF Spec

\* No signal takes the launcher or its script away from a running child.
THEOREM ChildKeepsLauncher == Spec => []ChildIsAttended
  <1>1. ControlInv => ChildIsAttended
    BY DEF ControlInv, ChildIsAttended, WithScript
  <1> QED
    BY <1>1, ControlInvariance, PTL

\* A refused command asked for no VM, wrote no script and started nothing.
THEOREM RefusalIsEarly == Spec => []RefusedStartsNothing
  <1>1. ControlInv => RefusedStartsNothing
    BY DEF ControlInv, RefusedStartsNothing
  <1> QED
    BY <1>1, ControlInvariance, PTL

---------------------------------------------------------------------------
(* Every signal that was taken is sent or pending.                         *)

\* How often signal s is in the list q.
Count(q, s) == Cardinality({i \in DOMAIN q : q[i] = s})

\* A list is finite, so a count is a number.
LEMMA CountType ==
    ASSUME NEW q \in Seq(Signal), NEW s \in Signal
    PROVE  Count(q, s) \in Nat
  <1> DEFINE here == {i \in DOMAIN q : q[i] = s}
  <1>1. IsFiniteSet(1 .. Len(q))
    BY FS_Interval, 1 \in Int, Len(q) \in Int
  <1>2. here \subseteq 1 .. Len(q)
    OBVIOUS
  <1>3. IsFiniteSet(here)
    BY <1>1, <1>2, FS_Subset
  <1> QED
    BY <1>3, FS_CardinalityType DEF Count

\* list.append
LEMMA CountAppend ==
    ASSUME NEW q \in Seq(Signal), NEW t \in Signal, NEW s \in Signal
    PROVE  Count(Append(q, t), s) = Count(q, s) + (IF t = s THEN 1 ELSE 0)
  <1> DEFINE old == {i \in DOMAIN q : q[i] = s}
             new == {i \in DOMAIN Append(q, t) : Append(q, t)[i] = s}
  <1>1. DOMAIN q = 1 .. Len(q) /\ Len(q) \in Nat
    OBVIOUS
  <1>2. IsFiniteSet(old)
    BY <1>1, FS_Interval, FS_Subset, 1 \in Int, Len(q) \in Int
  <1>3. CASE t = s
    <2>1. new = old \cup {Len(q) + 1} /\ Len(q) + 1 \notin old
      BY <1>1, <1>3
    <2>2. Cardinality(new) = Cardinality(old) + 1
      <3> HIDE DEF old, new
      <3> QED
        BY <1>2, <2>1, FS_AddElement
    <2> QED
      BY <1>3, <2>2 DEF Count
  <1>4. CASE t # s
    <2>1. new = old
      BY <1>1, <1>4
    <2>2. Count(q, s) \in Nat
      BY CountType
    <2>3. Count(Append(q, t), s) = Count(q, s)
      BY <2>1 DEF Count
    <2> HIDE DEF Count
    <2> QED
      BY <1>4, <2>2, <2>3
  <1> QED
    BY <1>3, <1>4

\* The loop over the list takes its head.
LEMMA CountTail ==
    ASSUME NEW q \in Seq(Signal), q # <<>>, NEW s \in Signal
    PROVE  Count(q, s) = Count(Tail(q), s) + (IF Head(q) = s THEN 1 ELSE 0)
  <1> DEFINE all == {i \in DOMAIN q : q[i] = s}
             rest == {i \in DOMAIN Tail(q) : Tail(q)[i] = s}
             moved == {i \in 2 .. Len(q) : q[i] = s}
             up == [i \in rest |-> i + 1]
  <1>1. /\ DOMAIN q = 1 .. Len(q) /\ Len(q) \in Nat \ {0}
        /\ DOMAIN Tail(q) = 1 .. Len(q) - 1
        /\ \A i \in 1 .. Len(q) - 1 : Tail(q)[i] = q[i + 1]
        /\ Head(q) = q[1]
    OBVIOUS
  <1>2. IsFiniteSet(rest) /\ IsFiniteSet(moved)
    BY <1>1, FS_Interval, FS_Subset, 1 \in Int, 2 \in Int, Len(q) \in Int, Len(q) - 1 \in Int
  <1>3. Cardinality(rest) = Cardinality(moved)
    <2>1. up \in [rest -> moved]
      BY <1>1
    <2>2. \A i, j \in rest : up[i] = up[j] => i = j
      BY <1>1
    <2>3. \A j \in moved : \E i \in rest : up[i] = j
      <3> SUFFICES ASSUME NEW j \in moved PROVE j - 1 \in rest /\ up[j - 1] = j
        OBVIOUS
      <3> QED
        BY <1>1
    <2>4. up \in Bijection(rest, moved)
      BY <2>1, <2>2, <2>3 DEF Bijection, Injection, Surjection, IsInjective
    <2> QED
      BY <1>2, <2>4, FS_Bijection DEF ExistsBijection
  <1>4. CASE Head(q) = s
    <2>1. all = moved \cup {1} /\ 1 \notin moved
      BY <1>1, <1>4
    <2>2. Cardinality(all) = Cardinality(rest) + 1
      <3> HIDE DEF all, rest, moved
      <3> QED
        BY <1>2, <1>3, <2>1, FS_AddElement
    <2> QED
      BY <1>4, <2>2 DEF Count
  <1>5. CASE Head(q) # s
    <2>1. all = moved
      BY <1>1, <1>5
    <2>2. Cardinality(rest) \in Nat
      BY <1>2, FS_CardinalityType
    <2>3. Count(q, s) = Cardinality(all) /\ Count(Tail(q), s) = Cardinality(rest)
      BY DEF Count
    <2> HIDE DEF Count, all, rest, moved
    <2> QED
      BY <1>3, <1>5, <2>1, <2>2, <2>3
  <1> QED
    BY <1>4, <1>5

\* As long as the child has not exited, a signal that was taken was sent or is in the
\* list, once for each time it came; once the loop is over the list is empty.
RelayInv ==
    /\ pending \in Seq(Signal)
    /\ taken \in [Signal -> Nat]
    /\ sent \in [Signal -> Nat]
    /\ child \in {"none", "alive"} =>
          \A s \in Signal : taken[s] = sent[s] + Count(pending, s)
    /\ process => pc \notin Deciding \cup {"start", "write", "install", "popen", "assign"}
    /\ pc = "assign" => child # "none"
    /\ pc = "flush" => process
    /\ pc = "wait" => process /\ pending = <<>>
    /\ child = "none" => ~process

\* No signal has come yet.
LEMMA InitRelay == Init => RelayInv
  <1> SUFFICES ASSUME Init PROVE RelayInv
    OBVIOUS
  <1>1. \A s \in Signal : Count(<<>>, s) = 0
    BY FS_EmptySet DEF Count
  <1> QED
    BY <1>1 DEF Init, RelayInv, Deciding

\* Every step, and a handler between any two, keeps the account of the signals.
LEMMA RelayStep == ControlInv /\ RelayInv /\ [Next]_vars => RelayInv'
  <1> SUFFICES ASSUME ControlInv, RelayInv, [Next]_vars PROVE RelayInv'
    OBVIOUS
  <1>0. \A s \in Signal : Count(pending, s) \in Nat
    BY CountType DEF RelayInv
  <1> USE DEF RelayInv, Move, Refuse, jobVars, runVars, mainVars, Deciding
  <1>1. CASE Load \/ Doctor \/ StopVm \/ ChooseProgram \/ ChooseEnvironment \/ EnsureVm
    BY <1>1 DEF Load, Doctor, StopVm, ChooseProgram, ChooseEnvironment, EnsureVm, ControlInv
  <1>2. CASE MakeDirectory \/ WriteScript \/ Install \/ Popen \/ Assign \/ Restore \/ Cleanup
    <2>1. CASE MakeDirectory \/ WriteScript \/ Install \/ Restore \/ Cleanup
      BY <2>1 DEF MakeDirectory, WriteScript, Install, Restore, Cleanup, ControlInv
    <2>2. CASE Popen
      BY <2>2 DEF Popen, ControlInv
    <2>3. CASE Assign
      BY <2>3 DEF Assign, ControlInv
    <2> QED
      BY <1>2, <2>1, <2>2, <2>3
  <1>3. CASE Flush
    <2>1. CASE pending = <<>>
      BY <1>3, <2>1 DEF Flush
    <2>2. CASE pending # <<>>
      <3>1. /\ Head(pending) \in Signal /\ Tail(pending) \in Seq(Signal)
            /\ \A s \in Signal : Count(pending, s) = Count(Tail(pending), s)
                                   + (IF Head(pending) = s THEN 1 ELSE 0)
        BY <2>2, CountTail
      <3>2. /\ pending' = Tail(pending)
            /\ SendSignal(Head(pending))
            /\ UNCHANGED <<pc, process, taken>>
        BY <1>3, <2>2 DEF Flush
      <3>3. \A s \in Signal : Count(Tail(pending), s) \in Nat
        BY <3>1, CountType
      <3>4. CASE child = "alive"
        <4>1. sent' = [sent EXCEPT ![Head(pending)] = @ + 1] /\ child' = "alive"
          BY <3>2, <3>4 DEF SendSignal
        <4>2. sent' \in [Signal -> Nat]
          BY <3>1, <4>1
        <4>3. ASSUME NEW s \in Signal
              PROVE  taken'[s] = sent'[s] + Count(pending', s)
          <5>1. taken[s] = sent[s] + Count(pending, s)
            BY <3>4
          <5>2. sent'[s] = sent[s] + (IF Head(pending) = s THEN 1 ELSE 0)
            BY <3>1, <4>1
          <5> QED
            BY <1>0, <3>1, <3>2, <3>3, <5>1, <5>2
        <4> QED
          BY <3>1, <3>2, <4>1, <4>2, <4>3, <1>3 DEF Flush
      <3>5. CASE child # "alive"
        <4>1. sent' = sent /\ child' \notin {"none", "alive"}
          BY <1>3, <3>2, <3>5 DEF SendSignal, Flush
        <4> QED
          BY <3>1, <3>2, <4>1, <1>3 DEF Flush
      <3> QED
        BY <3>4, <3>5
    <2> QED
      BY <2>1, <2>2
  <1>4. CASE Wait
    BY <1>4 DEF Wait
  <1>5. ASSUME NEW t \in Signal, Forward(t) PROVE RelayInv'
    <2>1. taken' = [taken EXCEPT ![t] = @ + 1] /\ UNCHANGED <<pc, process>>
      BY <1>5 DEF Forward
    <2>2. CASE process
      <3>1. SendSignal(t) /\ UNCHANGED pending
        BY <1>5, <2>2 DEF Forward
      <3>2. CASE child = "alive"
        <4>1. sent' = [sent EXCEPT ![t] = @ + 1] /\ child' = "alive"
          BY <3>1, <3>2 DEF SendSignal
        <4>2. sent' \in [Signal -> Nat] /\ taken' \in [Signal -> Nat]
          BY <2>1, <4>1
        <4>3. ASSUME NEW s \in Signal
              PROVE  taken'[s] = sent'[s] + Count(pending', s)
          <5>1. taken[s] = sent[s] + Count(pending, s) /\ pending' = pending
            BY <3>1, <3>2
          <5>2. /\ sent'[s] = sent[s] + (IF t = s THEN 1 ELSE 0)
                /\ taken'[s] = taken[s] + (IF t = s THEN 1 ELSE 0)
            BY <2>1, <4>1
          <5> QED
            BY <1>0, <5>1, <5>2
        <4> QED
          BY <2>1, <2>2, <3>1, <4>1, <4>2, <4>3
      <3>3. CASE child # "alive"
        BY <2>1, <2>2, <3>1, <3>3 DEF SendSignal
      <3> QED
        BY <3>2, <3>3
    <2>3. CASE ~process
      <3>1. pending' = Append(pending, t) /\ UNCHANGED <<child, sent>>
        BY <1>5, <2>3 DEF Forward
      <3>2. \A s \in Signal : Count(Append(pending, t), s) = Count(pending, s)
                                   + (IF t = s THEN 1 ELSE 0)
        BY CountAppend
      <3> QED
        BY <1>0, <2>1, <2>3, <3>1, <3>2
    <2> QED
      BY <2>2, <2>3
  <1>6. ASSUME NEW s \in Signal, Killed(s) PROVE RelayInv'
    BY <1>6 DEF Killed
  <1>7. CASE RaiseInterrupt
    BY <1>7 DEF RaiseInterrupt
  <1>8. CASE ChildExit
    BY <1>8 DEF ChildExit
  <1>9. CASE UNCHANGED vars
    BY <1>9 DEF vars
  <1> QED
    BY <1>1, <1>2, <1>3, <1>4, <1>5, <1>6, <1>7, <1>8, <1>9 DEF Next, MainStep

\* The account of the signals is as described in every state.
THEOREM RelayInvariance == Spec => []RelayInv
  BY InitRelay, RelayStep, ControlInvariance, PTL DEF Spec

\* While the launcher waits for a live child, every signal it took reached the child
\* once, also those that came before Popen returned.
THEOREM SignalsReachTheChild == Spec => []SignalsAreRelayed
  <1>1. RelayInv => SignalsAreRelayed
    <2> SUFFICES ASSUME RelayInv, pc = "wait", child = "alive" PROVE sent = taken
      BY DEF SignalsAreRelayed
    <2>1. \A s \in Signal : Count(<<>>, s) = 0
      BY FS_EmptySet DEF Count
    <2> QED
      BY <2>1 DEF RelayInv
  <1> QED
    BY <1>1, RelayInvariance, PTL

---------------------------------------------------------------------------
(* Whose variables reach whom, for every environment, configuration and    *)
(* host.                                                                   *)

\* What is omitted from the caller's variables comes from the runtime or the configuration.
LEMMA OmittedIsOurs ==
    ASSUME NEW settings, NEW source, NEW backend, NEW icds, NEW natives,
           NEW k \in Omitted(backend),
           k \in DOMAIN CommandEnvironment(settings, source, backend, icds, natives)
    PROVE  CommandEnvironment(settings, source, backend, icds, natives)[k] # "host"
  <1> HIDE DEF Omitted, GuestKeys
  <1> QED
    BY DEF CommandEnvironment

\* The job stays one of Jobs, and the plan, once there is one, is the job's.
PlanInv ==
    /\ job \in Jobs
    /\ plan # NoPlan => plan = Plan

\* No step gives the launcher another job or another plan for it.
LEMMA PlanStep == PlanInv /\ [Next]_vars => PlanInv'
  <1> SUFFICES ASSUME PlanInv, [Next]_vars PROVE PlanInv'
    OBVIOUS
  <1>1. job' = job
    BY DEF Next, MainStep, vars, jobVars, mainVars, runVars, Load, Doctor, StopVm,
      ChooseProgram, ChooseEnvironment, EnsureVm, MakeDirectory, WriteScript, Install, Popen,
      Assign, Flush, Wait, Restore, Cleanup, Forward, Killed, RaiseInterrupt, ChildExit
  <1>2. plan' = plan \/ plan' = Plan
    BY DEF Next, MainStep, vars, jobVars, mainVars, runVars, Load, Doctor, StopVm,
      ChooseProgram, ChooseEnvironment, EnsureVm, MakeDirectory, WriteScript, Install, Popen,
      Assign, Flush, Wait, Restore, Cleanup, Forward, Killed, RaiseInterrupt, ChildExit
  <1>3. Plan' = Plan
    BY <1>1 DEF Plan, Backend
  <1> QED
    BY <1>1, <1>2, <1>3 DEF PlanInv

\* What was decided is what the job says, for as long as the launcher runs.
THEOREM PlanInvariance == Spec => []PlanInv
  <1>1. Init => PlanInv
    BY DEF Init, PlanInv
  <1> QED
    BY <1>1, PlanStep, PTL DEF Spec

\* A loader's variable in the application's environment is the runtime's or configured;
\* in the emulator's it is one of the three that a request carries into the VM.
LEMMA LoadersApart == PlanInv => LoadersStayApart
  <1> SUFFICES ASSUME plan # NoPlan, plan = Plan PROVE LoadersStayApart
    BY DEF PlanInv, LoadersStayApart
  <1> DEFINE app == ApplicationEnvironment(plan.env, plan.backend)
             launch == LaunchEnvironment(job.source, job.host, plan.env, plan.backend)
  <1>1. \A k \in LoaderEnvironment \cap DOMAIN plan.env : plan.env[k] # "host"
    <2> LoaderEnvironment \subseteq Omitted(Backend)
      BY DEF Omitted
    <2> QED
      BY OmittedIsOurs DEF Plan
  <1>2. ASSUME NEW k \in LoaderEnvironment \cap DOMAIN app PROVE app[k] # "host"
    BY <1>1, <1>2 DEF ApplicationEnvironment, Override, All
  <1>3. ASSUME NEW k \in LoaderEnvironment \cap DOMAIN launch
        PROVE  plan.backend = "muvm" /\ k \in MesaControls /\ launch[k] # "host"
    <2>1. k \notin FexControls /\ k \notin {"XDG_RUNTIME_DIR", "RUST_LOG", "PULSE_SERVER",
                                            "PIPEWIRE_RUNTIME_DIR", "X11_SOCKET"}
      BY DEF LoaderEnvironment, FexControls
    <2>2. k \notin DOMAIN NativeEnvironment(job.source)
      BY DEF NativeEnvironment, Without, Restrict
    <2>3. k \notin DOMAIN HostEnvironment(job.source, job.host)
      BY <2>1, <2>2 DEF HostEnvironment, Override, Default, All
    <2>4. k \in DOMAIN Controls(plan.env, plan.backend)
          /\ launch[k] = Controls(plan.env, plan.backend)[k]
      BY <2>2, <2>3, <1>3 DEF LaunchEnvironment, Override
    <2> QED
      BY <1>1, <2>1, <2>4 DEF Controls, Restrict
  <1> QED
    BY <1>2, <1>3 DEF LoadersStayApart

\* In the VM the endpoints are the VM's.
LEMMA EndpointsApart == PlanInv => EndpointsAreTheVms
  <1> SUFFICES ASSUME plan # NoPlan, plan = Plan, plan.backend = "muvm"
               PROVE  EndpointsAreTheVms
    BY DEF PlanInv, EndpointsAreTheVms
  <1> DEFINE app == ApplicationEnvironment(plan.env, plan.backend)
  <1>1. \A k \in VmEnvironment \cap DOMAIN plan.env : plan.env[k] # "host"
    <2> VmEnvironment \subseteq Omitted(Backend)
      BY DEF Omitted, Plan
    <2> QED
      BY OmittedIsOurs DEF Plan
  <1>2. ASSUME NEW k \in VmEnvironment \cap DOMAIN app PROVE app[k] # "host"
    BY <1>1, <1>2 DEF ApplicationEnvironment, Override, All
  <1> QED
    BY <1>2 DEF EndpointsAreTheVms

\* Where neither the runtime nor the configuration has a variable, the application gets
\* the caller's; what is configured it gets as configured.
LEMMA CallersApart == PlanInv => CallersVariablesArrive
  <1> SUFFICES ASSUME PlanInv, plan # NoPlan, plan = Plan PROVE CallersVariablesArrive
    BY DEF PlanInv, CallersVariablesArrive
  <1> DEFINE app == ApplicationEnvironment(plan.env, plan.backend)
             ours == GuestKeys("muvm", "software", {"lvp"}) \cup VmEnvironment
                     \cup LoaderEnvironment
             config == DOMAIN job.settings.environment
  <1>1. \A k \in DOMAIN job.source : job.source[k] = "host"
    BY JobsAssumption DEF PlanInv
  <1>2. GuestKeys(Backend, GpuMode(job.settings, Backend), plan.icds)
           \subseteq GuestKeys("muvm", "software", {"lvp"})
    BY DEF GuestKeys, MesaControls
  <1>3. Omitted(Backend) \subseteq ours
    BY DEF Omitted
  <1>4. ASSUME NEW k \in DOMAIN job.source \ (ours \cup config)
        PROVE  k \in DOMAIN plan.env /\ plan.env[k] = "host"
    <2>1. k \notin Omitted(Backend)
          /\ k \notin GuestKeys(Backend, GpuMode(job.settings, Backend), plan.icds)
      BY <1>2, <1>3
    <2> HIDE DEF ours
    <2>2. plan.icds = GuestManifests(job.settings, job.host.drivers, Backend)
      BY DEF Plan
    <2> QED
      BY <1>1, <2>1, <2>2 DEF Plan, CommandEnvironment
  <1>5. ASSUME NEW k \in config PROVE k \in DOMAIN plan.env /\ plan.env[k] = "config"
    BY DEF Plan, CommandEnvironment
  <1>6. \A k \in DOMAIN plan.env : k \in DOMAIN app /\ app[k] = plan.env[k]
    BY DEF ApplicationEnvironment, Override, All
  <1> HIDE DEF app, ours, config
  <1>7. /\ \A k \in DOMAIN job.source \ (ours \cup config) : k \in DOMAIN app /\ app[k] = "host"
        /\ \A k \in config : app[k] = "config"
    BY <1>4, <1>5, <1>6
  <1> QED
    BY <1>7 DEF CallersVariablesArrive, app, ours, config

\* What remains of a directory is of the transport.
LEMMA Filtered ==
    ASSUME NEW directory, NEW settings, NEW drivers, NEW mode
    PROVE  LET hardware == {Known[d] : d \in drivers \cap DOMAIN Known}
               paths == ManifestsIn(directory, settings, drivers, mode)
           IN /\ mode = "venus" => paths \subseteq {"virtio"}
              /\ mode = "software" => paths \subseteq {"lvp"}
              /\ mode = "drm" /\ hardware # {} => paths \subseteq hardware
              /\ "lvp" \in paths => settings.allowSoftwareRendering
  BY DEF ManifestsIn

\* The manifests of both sides of the thunk are of the VM's transport.
LEMMA DriversApart == PlanInv => DriversMatchTransport
  <1> SUFFICES ASSUME plan # NoPlan, plan = Plan PROVE DriversMatchTransport
    BY DEF PlanInv, DriversMatchTransport
  <1> DEFINE mode == GpuMode(job.settings, Backend)
             nixos == ManifestsIn(job.host.nixosVulkan, job.settings, job.host.drivers, mode)
             packaged == ManifestsIn(job.settings.nativeVulkan, job.settings,
                                     job.host.drivers, mode)
             rootfs == ManifestsIn(job.settings.rootfsVulkan, job.settings,
                                   job.host.drivers, mode)
             hardware == {Known[d] : d \in job.host.drivers \cap DOMAIN Known}
  <1>1. plan.icds = rootfs /\ plan.backend = Backend
    BY DEF Plan, GuestManifests
  <1>2. plan.natives \subseteq nixos \/ plan.natives \subseteq packaged
    BY DEF Plan, NativeManifests
  <1>3. \A paths \in {nixos, packaged, rootfs} :
           /\ mode = "venus" => paths \subseteq {"virtio"}
           /\ mode = "software" => paths \subseteq {"lvp"}
           /\ mode = "drm" /\ hardware # {} => paths \subseteq hardware
           /\ "lvp" \in paths => job.settings.allowSoftwareRendering
    BY Filtered
  <1> HIDE DEF mode, nixos, packaged, rootfs, hardware
  <1>4. LET drivers == plan.icds \cup plan.natives
        IN /\ mode = "venus" => drivers \subseteq {"virtio"}
           /\ mode = "software" => drivers \subseteq {"lvp"}
           /\ mode = "drm" /\ hardware # {} => drivers \subseteq hardware
           /\ "lvp" \in drivers => job.settings.allowSoftwareRendering
    BY <1>1, <1>2, <1>3
  <1> QED
    BY <1>1, <1>4 DEF DriversMatchTransport, mode, hardware

\* ARM loader variables reach no x86 application, and no x86 ones the emulator.
THEOREM SeparateLoaders == Spec => []LoadersStayApart
  BY LoadersApart, PlanInvariance, PTL

\* The host's display, sound and session reach no application in the VM.
THEOREM SeparateEndpoints == Spec => []EndpointsAreTheVms
  BY EndpointsApart, PlanInvariance, PTL

\* An application's own variables arrive, and the configuration has the last word.
THEOREM VariablesArrive == Spec => []CallersVariablesArrive
  BY CallersApart, PlanInvariance, PTL

\* Both drivers speak the transport the VM was started with.
THEOREM OneTransport == Spec => []DriversMatchTransport
  BY DriversApart, PlanInvariance, PTL

---------------------------------------------------------------------------
(* No signal is multiplied.                                                 *)

\* A signal is sent or waits in the list at most as often as `forward` ran for it, and that
\* ran at most as often as the signal came.
NoneTwice ==
    \A s \in Signal :
        /\ sent[s] + Count(pending, s) <= taken[s]
        /\ taken[s] <= arrivals[s]
        /\ arrivals[s] <= job.signals

AccountInv ==
    /\ arrivals \in [Signal -> Nat]
    /\ NoneTwice

\* What may be counted once more.
LEMMA OnceMore ==
    ASSUME NEW f \in [Signal -> Nat], NEW t \in Signal,
           NEW g, g = f \/ g = [f EXCEPT ![t] = @ + 1]
    PROVE  /\ g \in [Signal -> Nat]
           /\ \A s \in Signal : g[s] <= f[s] + (IF t = s THEN 1 ELSE 0)
  <1>1. CASE g = f
    BY <1>1
  <1>2. CASE g = [f EXCEPT ![t] = @ + 1]
    BY <1>2
  <1> QED
    BY <1>1, <1>2

\* A signal that comes is counted before anything is done about it.
LEMMA AccountStep ==
    PlanInv /\ RelayInv /\ AccountInv /\ [Next]_vars => AccountInv'
  <1> SUFFICES ASSUME PlanInv, RelayInv, AccountInv, [Next]_vars PROVE AccountInv'
    OBVIOUS
  <1>0. /\ job.signals \in Nat
        /\ \A s \in Signal : /\ arrivals[s] \in Nat /\ taken[s] \in Nat /\ sent[s] \in Nat
                             /\ Count(pending, s) \in Nat
    BY JobsAssumption, MaxSignalsAssumption, CountType DEF PlanInv, RelayInv, AccountInv
  <1>01. /\ arrivals \in [Signal -> Nat]
         /\ taken \in [Signal -> Nat]
         /\ sent \in [Signal -> Nat]
         /\ pending \in Seq(Signal)
    BY DEF RelayInv, AccountInv
  <1>02. \A s \in Signal : /\ sent[s] + Count(pending, s) <= taken[s]
                           /\ taken[s] <= arrivals[s]
                           /\ arrivals[s] <= job.signals
    BY DEF AccountInv, NoneTwice
  <1> USE DEF jobVars, runVars, mainVars
  <1>1. CASE Flush
    <2>1. CASE pending = <<>>
      BY <1>1, <2>1 DEF Flush, AccountInv, NoneTwice
    <2>2. CASE pending # <<>>
      <3>1. /\ Head(pending) \in Signal /\ Tail(pending) \in Seq(Signal)
            /\ \A s \in Signal : Count(pending, s) = Count(Tail(pending), s)
                                   + (IF Head(pending) = s THEN 1 ELSE 0)
        BY <1>01, <2>2, CountTail
      <3>2. /\ pending' = Tail(pending)
            /\ sent' = sent \/ sent' = [sent EXCEPT ![Head(pending)] = @ + 1]
            /\ UNCHANGED <<job, taken, arrivals>>
        BY <1>1, <2>2 DEF Flush, SendSignal
      <3>3. \A s \in Signal : sent'[s] <= sent[s] + (IF Head(pending) = s THEN 1 ELSE 0)
                                 /\ sent'[s] \in Nat
        <4> DEFINE h == Head(pending)
        <4>1. h \in Signal /\ (sent' = sent \/ sent' = [sent EXCEPT ![h] = @ + 1])
          BY <3>1, <3>2
        <4> HIDE DEF h
        <4>2. \A s \in Signal : sent'[s] <= sent[s] + (IF h = s THEN 1 ELSE 0)
                                   /\ sent'[s] \in Nat
          BY <1>01, <4>1, OnceMore
        <4> QED
          BY <4>2 DEF h
      <3>4. \A s \in Signal : Count(Tail(pending), s) \in Nat
        BY <3>1, CountType
      <3>5. ASSUME NEW s \in Signal PROVE sent'[s] + Count(pending', s) <= taken'[s]
        <4>1. sent[s] + Count(pending, s) <= taken[s] /\ taken' = taken
          BY <1>02, <3>2
        <4>2. Count(pending', s) = Count(Tail(pending), s)
          BY <3>2
        <4>3. Count(pending, s) = Count(Tail(pending), s) + (IF Head(pending) = s THEN 1 ELSE 0)
          BY <3>1
        <4> QED
          BY <1>0, <3>3, <3>4, <4>1, <4>2, <4>3
      <3> QED
        BY <1>01, <1>02, <3>2, <3>5 DEF AccountInv, NoneTwice
    <2> QED
      BY <2>1, <2>2
  <1>2. ASSUME NEW t \in Signal, Forward(t) PROVE AccountInv'
    <2>1. /\ taken' = [taken EXCEPT ![t] = @ + 1]
          /\ arrivals[t] < job.signals
          /\ arrivals' = [arrivals EXCEPT ![t] = @ + 1]
          /\ job' = job
      BY <1>2 DEF Forward, Arrive
    <2>2. /\ arrivals' \in [Signal -> Nat]
          /\ \A s \in Signal :
                /\ taken'[s] = taken[s] + (IF t = s THEN 1 ELSE 0)
                /\ arrivals'[s] = arrivals[s] + (IF t = s THEN 1 ELSE 0)
                /\ arrivals'[s] <= job.signals
      <3>1. \A s \in Signal : arrivals'[s] = arrivals[s] + (IF t = s THEN 1 ELSE 0)
                              /\ taken'[s] = taken[s] + (IF t = s THEN 1 ELSE 0)
        BY <1>0, <1>01, <2>1
      <3>2. arrivals' \in [Signal -> Nat]
        BY <1>01, <2>1
      <3>3. \A s \in Signal : arrivals'[s] <= job.signals
        BY <1>0, <1>02, <2>1, <3>1
      <3> QED
        BY <3>1, <3>2, <3>3
    <2>3. ASSUME NEW s \in Signal
          PROVE  sent'[s] + Count(pending', s)
                    <= sent[s] + Count(pending, s) + (IF t = s THEN 1 ELSE 0)
      <3>1. CASE process
        <4>1. pending' = pending /\ (sent' = sent \/ sent' = [sent EXCEPT ![t] = @ + 1])
          BY <1>2, <3>1 DEF Forward, SendSignal
        <4>2. sent'[s] \in Nat /\ sent'[s] <= sent[s] + (IF t = s THEN 1 ELSE 0)
          BY <1>01, <4>1, OnceMore
        <4> QED
          BY <1>0, <4>1, <4>2
      <3>2. CASE ~process
        <4>1. pending' = Append(pending, t) /\ sent' = sent
          BY <1>2, <3>2 DEF Forward
        <4>2. Count(pending', s) = Count(pending, s) + (IF t = s THEN 1 ELSE 0)
          BY <1>01, <4>1, CountAppend
        <4> QED
          BY <1>0, <4>1, <4>2
      <3> QED
        BY <3>1, <3>2
    <2>4. \A s \in Signal : sent'[s] \in Nat /\ Count(pending', s) \in Nat
      <3>1. /\ sent' = sent \/ sent' = [sent EXCEPT ![t] = @ + 1]
            /\ pending' = pending \/ pending' = Append(pending, t)
        BY <1>2 DEF Forward, SendSignal
      <3>2. Append(pending, t) \in Seq(Signal)
        BY <1>01
      <3>3. pending' \in Seq(Signal)
        BY <1>01, <3>1, <3>2
      <3>4. sent' \in [Signal -> Nat]
        BY <1>01, <3>1, OnceMore
      <3> QED
        BY <3>3, <3>4, CountType
    <2>5. ASSUME NEW s \in Signal PROVE sent'[s] + Count(pending', s) <= taken'[s]
      <3>1. sent[s] + Count(pending, s) <= taken[s]
        BY <1>02
      <3> QED
        BY <1>0, <2>2, <2>3, <2>4, <3>1
    <2>6. \A s \in Signal : taken'[s] <= arrivals'[s]
      BY <1>0, <1>02, <2>2
    <2> QED
      BY <2>1, <2>2, <2>5, <2>6 DEF AccountInv, NoneTwice
  <1>3. ASSUME NEW t \in Signal, Arrive(t), UNCHANGED <<job, pending, taken, sent>>
        PROVE  AccountInv'
    <2>1. arrivals[t] < job.signals /\ arrivals' = [arrivals EXCEPT ![t] = @ + 1]
      BY <1>3 DEF Arrive
    <2>2. \A s \in Signal : /\ arrivals[s] <= arrivals'[s] /\ arrivals'[s] <= job.signals
                            /\ arrivals'[s] \in Nat
      BY <1>0, <1>01, <1>02, <2>1
    <2>3. arrivals' \in [Signal -> Nat]
      BY <1>01, <2>1
    <2>4. \A s \in Signal : taken[s] <= arrivals'[s]
      BY <1>0, <1>02, <2>2
    <2> QED
      BY <1>02, <1>3, <2>2, <2>3, <2>4 DEF AccountInv, NoneTwice
  <1>4. CASE UNCHANGED <<job, pending, arrivals, taken, sent>>
    BY <1>4 DEF AccountInv, NoneTwice
  <1> QED
    BY <1>1, <1>2, <1>3, <1>4, InterruptAssumption DEF Next, MainStep, vars, Load, Doctor,
      StopVm, ChooseProgram, ChooseEnvironment, EnsureVm, MakeDirectory, WriteScript, Install,
      Popen, Assign, Wait, Restore, Cleanup, Killed, RaiseInterrupt, ChildExit

\* The account is never overdrawn.
THEOREM AccountInvariance == Spec => []AccountInv
  <1>1. Init => AccountInv
    <2> SUFFICES ASSUME Init PROVE AccountInv
      OBVIOUS
    <2>1. \A s \in Signal : Count(<<>>, s) = 0
      BY FS_EmptySet DEF Count
    <2>2. job.signals \in Nat
      BY JobsAssumption, MaxSignalsAssumption DEF Init
    <2> QED
      BY <2>1, <2>2 DEF Init, AccountInv, NoneTwice
  <1> QED
    BY <1>1, AccountStep, PlanInvariance, RelayInvariance, PTL DEF Spec

\* No signal reaches the child more often than it reached the launcher, whenever it came
\* and wherever it had to wait.
THEOREM SignalsAreNotRepeated == Spec => []NoneTwice
  <1>1. AccountInv => NoneTwice
    BY DEF AccountInv
  <1> QED
    BY <1>1, AccountInvariance, PTL

---------------------------------------------------------------------------
(* What the end of the launcher says.                                       *)

\* The child is waited for before anything is taken down, the status is its, an error means
\* that there was none, and only a signal cuts the taking down short.
EndInv ==
    /\ pc \in {"restore", "cleanup", "ended"} => child \in {"none", "reaped"}
    /\ pc \in {"restore", "cleanup", "ended"} <=> result # "none"
    /\ pc = "restore" => result \in {"status", "error"}
    /\ pc = "cleanup" => result \in {"status", "error", "interrupted"}
    /\ pc \in {"doctor", "stop"} => job.command = pc
    /\ result = "status" => child = "reaped" \/ job.command \in {"doctor", "stop"}
    /\ result = "error" => child = "none"
    /\ pc = "ended" /\ script => result \in {"interrupted", "killed"}
    /\ result \in {"none", "status", "refused", "error", "interrupted", "killed"}
    /\ child \in {"none", "alive", "zombie", "reaped"}

\* The launcher returns a status only after it has reaped the child that had it; when it
\* reports an error, or was killed or interrupted, no child of its own is left running.
OutcomeIsTrue ==
    pc = "ended" =>
        /\ child \in {"none", "reaped"}
        /\ result = "status" /\ job.command \notin {"doctor", "stop"} => child = "reaped"
        /\ result = "error" => child = "none"

\* The private script outlives the launcher only when a signal ends it.
OnlySignalsLeaveScript ==
    pc = "ended" /\ script => result \in {"interrupted", "killed"}

\* Every step, and a signal at any moment, keeps that.
LEMMA EndStep == ControlInv /\ EndInv /\ [Next]_vars => EndInv'
  <1> SUFFICES ASSUME ControlInv, EndInv, [Next]_vars PROVE EndInv'
    OBVIOUS
  <1> USE DEF ControlInv, EndInv, Deciding, WithScript, Protected, Move, Refuse, jobVars,
      runVars, mainVars
  <1>1. CASE Load \/ Doctor \/ StopVm
    BY <1>1 DEF Load, Doctor, StopVm
  <1>2. CASE ChooseProgram \/ ChooseEnvironment \/ EnsureVm
    BY <1>2 DEF ChooseProgram, ChooseEnvironment, EnsureVm
  <1>3. CASE MakeDirectory \/ WriteScript \/ Install
    <2>1. CASE MakeDirectory
      BY <2>1 DEF MakeDirectory
    <2>2. CASE WriteScript
      BY <2>2 DEF WriteScript
    <2>3. CASE Install
      BY <2>3 DEF Install
    <2> QED
      BY <1>3, <2>1, <2>2, <2>3
  <1>4. CASE Popen \/ Assign
    BY <1>4 DEF Popen, Assign
  <1>5. CASE Flush
    BY <1>5 DEF Flush, SendSignal
  <1>6. CASE Wait
    BY <1>6 DEF Wait
  <1>7. CASE Restore \/ Cleanup
    BY <1>7 DEF Restore, Cleanup
  <1>8. ASSUME NEW s \in Signal, Forward(s) PROVE EndInv'
    BY <1>8 DEF Forward, Arrive, SendSignal
  <1>9. ASSUME NEW s \in Signal, Killed(s) PROVE EndInv'
    <2>1. pc \notin Protected /\ pc # "ended"
      BY <1>9, ProtectedHandlesAll DEF Killed, Arrive
    <2> QED
      BY <1>9, <2>1 DEF Killed, Arrive
  <1>10. CASE RaiseInterrupt
    BY <1>10 DEF RaiseInterrupt, Arrive
  <1>11. CASE ChildExit
    BY <1>11 DEF ChildExit
  <1>12. CASE UNCHANGED vars
    BY <1>12 DEF vars
  <1> QED
    BY <1>1, <1>2, <1>3, <1>4, <1>5, <1>6, <1>7, <1>8, <1>9, <1>10, <1>11, <1>12
    DEF Next, MainStep

\* The end is as described, whatever signals come.
THEOREM EndInvariance == Spec => []EndInv
  <1>1. Init => EndInv
    BY DEF Init, EndInv
  <1> QED
    BY <1>1, EndStep, ControlInvariance, PTL DEF Spec

\* A status is the child's, and no child outlives the launcher.
THEOREM StatusIsTheChilds == Spec => []OutcomeIsTrue
  <1>1. EndInv => OutcomeIsTrue
    BY DEF EndInv, OutcomeIsTrue
  <1> QED
    BY <1>1, EndInvariance, PTL

\* A launcher that returns by itself has removed its private script.
THEOREM ScriptGoesWithReturn == Spec => []OnlySignalsLeaveScript
  <1>1. EndInv => OnlySignalsLeaveScript
    BY DEF EndInv, OnlySignalsLeaveScript
  <1> QED
    BY <1>1, EndInvariance, PTL

---------------------------------------------------------------------------
(* What is decided before anything runs.                                    *)

Decided == {"start"} \cup WithScript

\* A command runs after its plan is made, and after the VM was asked for if, and only if,
\* the backend is muvm.
DecisionInv ==
    /\ pc = "environment" => ~BackendRefused(job.settings.backend, job.host.pagesize)
    /\ pc \in Decided \cup {"ensure"} \/ child # "none" =>
          /\ plan = Plan
          /\ ~BackendRefused(job.settings.backend, job.host.pagesize)
          /\ Backend = "muvm" => ~NoVirtualMachine
    /\ pc = "ensure" => Backend = "muvm"
    /\ pc \in Decided \/ child # "none" =>
          vm = IF Backend = "muvm" THEN "asked" ELSE "untouched"
    /\ vm = "asked" => Backend = "muvm"
    /\ vm \in {"untouched", "asked", "stopped"}

\* When the child starts, its environment has been decided; a VM was asked for exactly if
\* the command goes to one, and then the session can have one; and FEX runs natively only
\* on the pages it can emulate.
CommandIsPrepared ==
    child # "none" =>
        /\ plan = Plan
        /\ vm = IF Backend = "muvm" THEN "asked" ELSE "untouched"
        /\ Backend = "muvm" => "XDG_RUNTIME_DIR" \in DOMAIN job.source
        /\ Backend = "fex" => job.host.pagesize = 4096

\* The decisions are made once, and in this order.
LEMMA DecisionStep == ControlInv /\ DecisionInv /\ [Next]_vars => DecisionInv'
  <1> SUFFICES ASSUME ControlInv, DecisionInv, [Next]_vars PROVE DecisionInv'
    OBVIOUS
  <1>0. job' = job
    BY DEF Next, MainStep, vars, jobVars, mainVars, runVars, Load, Doctor, StopVm,
      ChooseProgram, ChooseEnvironment, EnsureVm, MakeDirectory, WriteScript, Install, Popen,
      Assign, Flush, Wait, Restore, Cleanup, Forward, Killed, RaiseInterrupt, ChildExit
  <1>00. /\ Plan' = Plan /\ Backend' = Backend /\ NoVirtualMachine' = NoVirtualMachine
    BY <1>0 DEF Plan, Backend, NoVirtualMachine
  <1> USE <1>0, <1>00 DEF DecisionInv, Decided, WithScript, Move, Refuse, jobVars, runVars, mainVars
  <1>1. CASE Load \/ Doctor \/ StopVm
    BY <1>1 DEF Load, Doctor, StopVm, ControlInv, Deciding
  <1>2. CASE ChooseProgram
    BY <1>2 DEF ChooseProgram, ControlInv, Deciding
  <1>3. CASE ChooseEnvironment
    BY <1>3 DEF ChooseEnvironment, ControlInv, Deciding
  <1>4. CASE EnsureVm
    BY <1>4 DEF EnsureVm, ControlInv, Deciding
  <1>5. CASE MakeDirectory \/ WriteScript \/ Install
    BY <1>5 DEF MakeDirectory, WriteScript, Install
  <1>6. CASE Popen \/ Assign
    BY <1>6 DEF Popen, Assign
  <1>7. CASE Flush
    BY <1>7 DEF Flush, SendSignal
  <1>8. CASE Wait \/ Restore \/ Cleanup
    BY <1>8 DEF Wait, Restore, Cleanup
  <1>9. ASSUME NEW s \in Signal, Forward(s) PROVE DecisionInv'
    BY <1>9 DEF Forward, SendSignal
  <1>10. ASSUME NEW s \in Signal, Killed(s) PROVE DecisionInv'
    BY <1>10 DEF Killed
  <1>11. CASE RaiseInterrupt
    BY <1>11 DEF RaiseInterrupt
  <1>12. CASE ChildExit
    BY <1>12 DEF ChildExit
  <1>13. CASE UNCHANGED vars
    BY <1>13 DEF vars
  <1> QED
    BY <1>1, <1>2, <1>3, <1>4, <1>5, <1>6, <1>7, <1>8, <1>9, <1>10, <1>11, <1>12, <1>13
    DEF Next, MainStep

\* The decisions hold in every state.
THEOREM DecisionInvariance == Spec => []DecisionInv
  <1>1. Init => DecisionInv
    BY DEF Init, DecisionInv, Decided, WithScript
  <1> QED
    BY <1>1, DecisionStep, ControlInvariance, PTL DEF Spec

\* No command runs before what it needs is decided and asked for.
THEOREM PreparedFirst == Spec => []CommandIsPrepared
  <1>1. PlanInv /\ DecisionInv => CommandIsPrepared
    <2> SUFFICES ASSUME PlanInv, DecisionInv, child # "none" PROVE CommandIsPrepared
      BY DEF CommandIsPrepared
    <2>1. Backend = "fex" => job.host.pagesize = 4096
      BY DEF DecisionInv, Backend, BackendFor, BackendRefused
    <2> QED
      BY <2>1 DEF DecisionInv, CommandIsPrepared, NoVirtualMachine
  <1> QED
    BY <1>1, PlanInvariance, DecisionInvariance, PTL

---------------------------------------------------------------------------
\* Two flags of the launcher.
Flags == script \in BOOLEAN /\ process \in BOOLEAN

\* Nothing makes them anything else.
LEMMA FlagStep == Flags /\ [Next]_vars => Flags'
  BY DEF Flags, Next, MainStep, vars, jobVars, mainVars, runVars, Refuse, Move, Load, Doctor,
    StopVm, ChooseProgram, ChooseEnvironment, EnsureVm, MakeDirectory, WriteScript, Install,
    Popen, Assign, Flush, Wait, Restore, Cleanup, Forward, Killed, RaiseInterrupt, ChildExit

\* The variables have their types: no signal is counted beyond its bound, and no handler is
\* put back that was not installed.
THEOREM TypeCorrect == Spec => []TypeOK
  <1>1. Init => Flags
    BY DEF Init, Flags
  <1>2. /\ ControlInv /\ RelayInv /\ AccountInv /\ PlanInv /\ EndInv /\ DecisionInv /\ Flags
        => TypeOK
    <2> SUFFICES ASSUME ControlInv, RelayInv, AccountInv, PlanInv, EndInv, DecisionInv, Flags
                 PROVE  TypeOK
      OBVIOUS
    <2>1. job.signals \in 0 .. MaxSignals /\ job.settings.backend \in {"auto", "fex", "muvm"}
      BY JobsAssumption DEF PlanInv
    <2>2. plan # NoPlan => plan.backend \in {"fex", "muvm"}
      <3>1. Plan.backend = Backend
        BY DEF Plan
      <3> QED
        BY <2>1, <3>1 DEF PlanInv, Backend, BackendFor
    <2>3. \A s \in Signal :
             arrivals[s] \in 0 .. MaxSignals /\ taken[s] \in 0 .. MaxSignals
             /\ sent[s] \in 0 .. MaxSignals
      <3> SUFFICES ASSUME NEW s \in Signal
                   PROVE  arrivals[s] \in 0 .. MaxSignals /\ taken[s] \in 0 .. MaxSignals
                          /\ sent[s] \in 0 .. MaxSignals
        OBVIOUS
      <3>1. /\ sent[s] \in Nat /\ taken[s] \in Nat /\ arrivals[s] \in Nat
            /\ Count(pending, s) \in Nat
        BY CountType DEF RelayInv, AccountInv
      <3>2. sent[s] + Count(pending, s) <= taken[s] /\ taken[s] <= arrivals[s]
            /\ arrivals[s] <= job.signals
        BY DEF AccountInv, NoneTwice
      <3> QED
        BY <2>1, <3>1, <3>2, MaxSignalsAssumption
    <2>4. /\ arrivals \in [Signal -> 0 .. MaxSignals]
          /\ taken \in [Signal -> 0 .. MaxSignals]
          /\ sent \in [Signal -> 0 .. MaxSignals]
      BY <2>3 DEF RelayInv, AccountInv
    <2>5. pc \in {"load", "doctor", "stop", "program", "environment", "ensure", "start",
                 "write", "install", "popen", "assign", "flush", "wait", "restore",
                 "cleanup", "ended"}
      BY DEF ControlInv, Deciding, WithScript
    <2> QED
      BY <2>1, <2>2, <2>4, <2>5 DEF TypeOK, ControlInv, RelayInv, EndInv, DecisionInv, Flags
  <1>3. Spec => []Flags
    BY <1>1, FlagStep, PTL DEF Spec
  <1> QED
    BY <1>2, <1>3, ControlInvariance, RelayInvariance, AccountInvariance, PlanInvariance,
      EndInvariance, DecisionInvariance, PTL
=============================================================================

----------------------- MODULE RequestLifetimeProofs -----------------------
(***************************************************************************)
(* The safety of a request's lifetime and its refinement of the promise,   *)
(* proved for any clients, probes and process identifiers.                 *)
(***************************************************************************)
EXTENDS RequestLifetime, TLAPS

---------------------------------------------------------------------------
(* The inductive invariant: one lemma for each conjunct, one step for each *)
(* group of actions.                                                       *)

\* The worker starts without requests, so everything agrees.
LEMMA InitIInv == Init => IInv
  <1> SUFFICES ASSUME Init PROVE IInv
    OBVIOUS
  <1> USE SentinelAssumption DEF Init
  <1>1. TypeOK
    BY DEF TypeOK, ClientState, TaskState, IoState
  <1>2. ClientsAgree /\ TasksAgree
    BY DEF ClientsAgree, TasksAgree, Started, Gone, IoDone
  <1>3. ProcessesAgree /\ PassAgrees
    BY DEF ProcessesAgree, PassAgrees, Free, Live, Started
  <1>4. OnlyCancelledAreSignalled /\ NoStrays /\ NothingSurvives
    BY DEF OnlyCancelledAreSignalled, NoStrays, NothingSurvives, Live, Interactive
  <1> QED
    BY <1>1, <1>2, <1>3, <1>4 DEF IInv

\* Every step of a client, the worker or a process keeps the types.
LEMMA TypeStep == TypeOK /\ [Next]_vars => TypeOK'
  <1> SUFFICES ASSUME TypeOK, [Next]_vars PROVE TypeOK'
    OBVIOUS
  <1> USE DEF TypeOK, ClientState, TaskState, IoState, clientVars, procVars, passVars
  <1>1. ASSUME NEW r \in Requests, ClientStep(r) PROVE TypeOK'
    BY <1>1 DEF ClientStep, Connect, SendRequest, ReadReply, ReadExit, Acknowledge,
      LoseStream, Die
  <1>2. ASSUME NEW r \in Requests, HandlerStep(r) PROVE TypeOK'
    BY <1>2 DEF HandlerStep, Accept, ReadRequest, ReadEof, Spawn, SpawnFails,
      CreateCgroup, EnterCgroup, Interactive, Free
  <1>3. ASSUME NEW r \in Requests, TaskStep(r) PROVE TypeOK'
    <2>1. CASE ReapLeader(r) \/ AwaitLeader(r) \/ ReapOrphan(r)
      BY <2>1 DEF ReapLeader, AwaitLeader, ReapOrphan, Release
    <2>2. CASE JoinDone(r) \/ JoinFails(r) \/ ReadMembers(r) \/ HelperFails(r)
      BY <2>2 DEF JoinDone, JoinFails, ReadMembers, HelperFails, Members, Live
    <2>3. CASE OpenPidfd(r) \/ CheckMembership(r) \/ SendTerm(r)
      BY <2>3 DEF OpenPidfd, CheckMembership, SendTerm, Live
    <2>4. CASE Kill(r) \/ Retire(r)
      BY <2>4 DEF Kill, Retire, CgroupKill, Members, Live
    <2> QED
      BY <1>3, <2>1, <2>2, <2>3, <2>4 DEF TaskStep
  <1>4. ASSUME NEW r \in Requests, IoStep(r) \/ IoWriteFails(r) PROVE TypeOK'
    BY <1>4 DEF IoStep, IoConnect, IoFinish, IoWriteExit, IoWriteFails, IoStopClosed
  <1>5. ASSUME NEW p \in Pids, ProcessStep(p) PROVE TypeOK'
    BY <1>5 DEF ProcessStep, Fork, CloseOutput, Exit, Release, Free, Live
  <1>6. CASE UNCHANGED vars
    BY <1>6 DEF vars
  <1> QED
    BY <1>1, <1>2, <1>3, <1>4, <1>5, <1>6 DEF Next

\* What a client has done and where its thread is stay consistent: only the
\* thread's failure to reach a client that went away breaks it.
LEMMA ClientsStep == IInv /\ [Next]_vars => ClientsAgree'
  <1> SUFFICES ASSUME IInv, [Next]_vars PROVE ClientsAgree'
    OBVIOUS
  <1> USE DEF TypeOK, ClientsAgree, TasksAgree, Started, Gone, Interactive,
      clientVars, procVars, passVars
  <1>0. TypeOK /\ ClientsAgree /\ TasksAgree
    BY DEF IInv
  <1>1. ASSUME NEW r \in Requests, ClientStep(r) PROVE ClientsAgree'
    BY <1>0, <1>1 DEF ClientStep, Connect, SendRequest, ReadReply, ReadExit,
      Acknowledge, LoseStream, Die
  <1>2. ASSUME NEW r \in Requests, HandlerStep(r) PROVE ClientsAgree'
    BY <1>0, <1>2 DEF HandlerStep, Accept, ReadRequest, ReadEof, Spawn, SpawnFails,
      CreateCgroup, EnterCgroup, RequestArrived
  <1>3. ASSUME NEW r \in Requests, TaskStep(r) PROVE ClientsAgree'
    <2>1. CASE ReapLeader(r) \/ AwaitLeader(r) \/ ReapOrphan(r)
      BY <1>0, <2>1 DEF ReapLeader, AwaitLeader, ReapOrphan
    <2>2. CASE JoinDone(r) \/ JoinFails(r) \/ ReadMembers(r) \/ HelperFails(r)
      BY <1>0, <2>2 DEF JoinDone, JoinFails, ReadMembers, HelperFails, PassOver
    <2>3. CASE OpenPidfd(r) \/ CheckMembership(r) \/ SendTerm(r)
      BY <1>0, <2>3 DEF OpenPidfd, CheckMembership, SendTerm
    <2>4. CASE Kill(r) \/ Retire(r)
      BY <1>0, <2>4 DEF Kill, Retire, PassOver
    <2> QED
      BY <1>3, <2>1, <2>2, <2>3, <2>4 DEF TaskStep
  <1>4. ASSUME NEW r \in Requests, IoStep(r) \/ IoWriteFails(r) PROVE ClientsAgree'
    BY <1>0, <1>4 DEF IoStep, IoConnect, IoFinish, IoWriteExit, IoWriteFails,
      IoStopClosed, StreamOpen, ClientState, IoState
  <1>5. ASSUME NEW p \in Pids, ProcessStep(p) PROVE ClientsAgree'
    BY <1>0, <1>5 DEF ProcessStep, Fork, CloseOutput, Exit
  <1>6. CASE UNCHANGED vars
    BY <1>0, <1>6 DEF vars
  <1> QED
    BY <1>1, <1>2, <1>3, <1>4, <1>5, <1>6 DEF Next

\* A task leaves its join only for a client that is gone or one that
\* acknowledged, and drained output has no writer left.
LEMMA TasksStep == IInv /\ [Next]_vars => TasksAgree'
  <1> SUFFICES ASSUME IInv, [Next]_vars PROVE TasksAgree'
    OBVIOUS
  <1> USE SentinelAssumption
      DEF TypeOK, ClientsAgree, TasksAgree, Started, Gone, IoDone, Interactive,
      Members, Live, Free, clientVars, procVars, passVars
  <1>0. TypeOK /\ ClientsAgree /\ TasksAgree /\ ProcessesAgree
    BY DEF IInv
  <1>1. ASSUME NEW r \in Requests, ClientStep(r) PROVE TasksAgree'
    BY <1>0, <1>1 DEF ClientStep, Connect, SendRequest, ReadReply, ReadExit,
      Acknowledge, LoseStream, Die
  <1>2. ASSUME NEW r \in Requests, HandlerStep(r) PROVE TasksAgree'
    <2>1. CASE Accept(r) \/ ReadRequest(r) \/ ReadEof(r) \/ SpawnFails(r)
      BY <1>0, <2>1 DEF Accept, ReadRequest, ReadEof, SpawnFails, CreateCgroup
    <2>2. CASE Spawn(r)
      BY <1>0, <2>2 DEF Spawn, EnterCgroup
    <2> QED
      BY <1>2, <2>1, <2>2 DEF HandlerStep
  <1>3. ASSUME NEW r \in Requests, TaskStep(r) PROVE TasksAgree'
    <2>1. CASE ReapLeader(r)
      BY <1>0, <2>1 DEF ReapLeader, Release
    <2>5. CASE AwaitLeader(r) \/ ReapOrphan(r)
      BY <1>0, <2>5 DEF AwaitLeader, ReapOrphan, Release
    <2>2. CASE JoinDone(r) \/ JoinFails(r) \/ ReadMembers(r) \/ HelperFails(r)
      BY <1>0, <2>2 DEF JoinDone, JoinFails, ReadMembers, HelperFails, PassOver, Hangup
    <2>3. CASE OpenPidfd(r) \/ CheckMembership(r) \/ SendTerm(r)
      BY <1>0, <2>3 DEF OpenPidfd, CheckMembership, SendTerm
    <2>4. CASE Kill(r) \/ Retire(r)
      BY <1>0, <2>4 DEF Kill, Retire, PassOver
    <2> QED
      BY <1>3, <2>1, <2>2, <2>3, <2>4, <2>5 DEF TaskStep
  <1>4. ASSUME NEW r \in Requests, IoStep(r) \/ IoWriteFails(r) PROVE TasksAgree'
    BY <1>0, <1>4 DEF IoStep, IoConnect, IoFinish, IoWriteExit, IoWriteFails,
      IoStopClosed
  <1>5. ASSUME NEW p \in Pids, ProcessStep(p) PROVE TasksAgree'
    <2>1. CASE Fork(p)
      BY <1>0, <2>1 DEF Fork, ProcessesAgree
    <2>2. CASE CloseOutput(p)
      BY <1>0, <2>2 DEF CloseOutput
    <2>3. CASE Exit(p)
      BY <1>0, <2>3 DEF Exit, Release
    <2> QED
      BY <1>5, <2>1, <2>2, <2>3 DEF ProcessStep
  <1>6. CASE UNCHANGED vars
    BY <1>0, <1>6 DEF vars
  <1> QED
    BY <1>1, <1>2, <1>3, <1>4, <1>5, <1>6 DEF Next

\* Identifiers in use belong to started requests, and only live processes
\* hold output or signals.
LEMMA ProcessesStep == IInv /\ [Next]_vars => ProcessesAgree'
  <1> SUFFICES ASSUME IInv, [Next]_vars PROVE ProcessesAgree'
    OBVIOUS
  <1> USE SentinelAssumption
      DEF TypeOK, ProcessesAgree, Started, Live, Free, clientVars, procVars, passVars
  <1>0. TypeOK /\ ProcessesAgree
    BY DEF IInv
  <1>1. ASSUME NEW r \in Requests, ClientStep(r) PROVE ProcessesAgree'
    BY <1>0, <1>1 DEF ClientStep, Connect, SendRequest, ReadReply, ReadExit,
      Acknowledge, LoseStream, Die
  <1>2. ASSUME NEW r \in Requests, HandlerStep(r) PROVE ProcessesAgree'
    <2>1. CASE Accept(r) \/ ReadRequest(r) \/ ReadEof(r) \/ SpawnFails(r)
      BY <1>0, <2>1 DEF Accept, ReadRequest, ReadEof, SpawnFails, CreateCgroup
    <2>2. CASE Spawn(r)
      BY <1>0, <2>2 DEF Spawn, EnterCgroup
    <2> QED
      BY <1>2, <2>1, <2>2 DEF HandlerStep
  <1>3. ASSUME NEW r \in Requests, TaskStep(r) PROVE ProcessesAgree'
    <2>1. CASE ReapLeader(r) \/ AwaitLeader(r) \/ ReapOrphan(r)
      BY <1>0, <2>1 DEF ReapLeader, AwaitLeader, ReapOrphan, Release
    <2>2. CASE JoinDone(r) \/ JoinFails(r) \/ ReadMembers(r) \/ HelperFails(r)
      BY <1>0, <2>2 DEF JoinDone, JoinFails, ReadMembers, HelperFails, PassOver
    <2>3. CASE OpenPidfd(r) \/ CheckMembership(r) \/ SendTerm(r)
      BY <1>0, <2>3 DEF OpenPidfd, CheckMembership, SendTerm
    <2>4. CASE Kill(r) \/ Retire(r)
      BY <1>0, <2>4 DEF Kill, Retire, PassOver, CgroupKill, Members
    <2> QED
      BY <1>3, <2>1, <2>2, <2>3, <2>4 DEF TaskStep
  <1>4. ASSUME NEW r \in Requests, IoStep(r) \/ IoWriteFails(r) PROVE ProcessesAgree'
    BY <1>0, <1>4 DEF IoStep, IoConnect, IoFinish, IoWriteExit, IoWriteFails,
      IoStopClosed
  <1>5. ASSUME NEW p \in Pids, ProcessStep(p) PROVE ProcessesAgree'
    <2>1. CASE Fork(p)
      BY <1>0, <2>1 DEF Fork
    <2>2. CASE CloseOutput(p)
      BY <1>0, <2>2 DEF CloseOutput
    <2>3. CASE Exit(p)
      BY <1>0, <2>3 DEF Exit, Release
    <2> QED
      BY <1>5, <2>1, <2>2, <2>3 DEF ProcessStep
  <1>6. CASE UNCHANGED vars
    BY <1>0, <1>6 DEF vars
  <1> QED
    BY <1>1, <1>2, <1>3, <1>4, <1>5, <1>6 DEF Next

\* Between pidfd_open and the signal, an identifier whose process survives
\* keeps its owner: the membership check stays valid (signal_members).
LEMMA PassStep == IInv /\ [Next]_vars => PassAgrees'
  <1> SUFFICES ASSUME IInv, [Next]_vars PROVE PassAgrees'
    OBVIOUS
  <1> USE SentinelAssumption
      DEF TypeOK, PassAgrees, clientVars, procVars, passVars
  <1>0. TypeOK /\ PassAgrees
    BY DEF IInv
  <1>1. ASSUME NEW r \in Requests, ClientStep(r) PROVE PassAgrees'
    BY <1>0, <1>1 DEF ClientStep, Connect, SendRequest, ReadReply, ReadExit,
      Acknowledge, LoseStream, Die
  <1>2. ASSUME NEW r \in Requests, HandlerStep(r) PROVE PassAgrees'
    <2>1. CASE Accept(r) \/ ReadRequest(r) \/ ReadEof(r) \/ SpawnFails(r)
      BY <1>0, <2>1 DEF Accept, ReadRequest, ReadEof, SpawnFails, CreateCgroup
    <2>2. CASE Spawn(r)
      BY <1>0, <2>2 DEF Spawn, EnterCgroup, Free
    <2> QED
      BY <1>2, <2>1, <2>2 DEF HandlerStep
  <1>3. ASSUME NEW r \in Requests, TaskStep(r) PROVE PassAgrees'
    <2>1. CASE ReapLeader(r) \/ AwaitLeader(r) \/ ReapOrphan(r)
      BY <1>0, <2>1 DEF ReapLeader, AwaitLeader, ReapOrphan, Release
    <2>2. CASE JoinDone(r) \/ JoinFails(r) \/ ReadMembers(r) \/ HelperFails(r)
      BY <1>0, <2>2 DEF JoinDone, JoinFails, ReadMembers, HelperFails, PassOver
    <2>3. CASE OpenPidfd(r) \/ CheckMembership(r) \/ SendTerm(r)
      BY <1>0, <2>3 DEF OpenPidfd, CheckMembership, SendTerm, Free, Live
    <2>4. CASE Kill(r) \/ Retire(r)
      BY <1>0, <2>4 DEF Kill, Retire, PassOver, CgroupKill, Members, Live
    <2> QED
      BY <1>3, <2>1, <2>2, <2>3, <2>4 DEF TaskStep
  <1>4. ASSUME NEW r \in Requests, IoStep(r) \/ IoWriteFails(r) PROVE PassAgrees'
    BY <1>0, <1>4 DEF IoStep, IoConnect, IoFinish, IoWriteExit, IoWriteFails,
      IoStopClosed
  <1>5. ASSUME NEW p \in Pids, ProcessStep(p) PROVE PassAgrees'
    <2>1. CASE Fork(p)
      BY <1>0, <2>1 DEF Fork, Free
    <2>2. CASE CloseOutput(p)
      BY <1>0, <2>2 DEF CloseOutput
    <2>3. CASE Exit(p)
      BY <1>0, <2>3 DEF Exit, Release
    <2> QED
      BY <1>5, <2>1, <2>2, <2>3 DEF ProcessStep
  <1>6. CASE UNCHANGED vars
    BY <1>0, <1>6 DEF vars
  <1> QED
    BY <1>1, <1>2, <1>3, <1>4, <1>5, <1>6 DEF Next

\* No step sends a signal to, or forks one into, a request that was not
\* cancelled.
LEMMA SignalledStep == IInv /\ [Next]_vars => OnlyCancelledAreSignalled'
  <1> SUFFICES ASSUME IInv, [Next]_vars PROVE OnlyCancelledAreSignalled'
    OBVIOUS
  <1> USE SentinelAssumption
      DEF TypeOK, TasksAgree, ProcessesAgree, PassAgrees,
      OnlyCancelledAreSignalled, Interactive, Gone, Live, Members, clientVars, procVars, passVars
  <1>0. TypeOK /\ TasksAgree /\ ProcessesAgree /\ PassAgrees /\ OnlyCancelledAreSignalled
    BY DEF IInv
  <1>1. ASSUME NEW r \in Requests, ClientStep(r) PROVE OnlyCancelledAreSignalled'
    BY <1>0, <1>1 DEF ClientStep, Connect, SendRequest, ReadReply, ReadExit,
      Acknowledge, LoseStream, Die
  <1>2. ASSUME NEW r \in Requests, HandlerStep(r) PROVE OnlyCancelledAreSignalled'
    <2>1. CASE Accept(r) \/ ReadRequest(r) \/ ReadEof(r) \/ SpawnFails(r)
      BY <1>0, <2>1 DEF Accept, ReadRequest, ReadEof, SpawnFails, CreateCgroup
    <2>2. CASE Spawn(r)
      BY <1>0, <2>2 DEF Spawn, EnterCgroup, Free
    <2> QED
      BY <1>2, <2>1, <2>2 DEF HandlerStep
  <1>3. ASSUME NEW r \in Requests, TaskStep(r) PROVE OnlyCancelledAreSignalled'
    <2>1. CASE ReapLeader(r) \/ AwaitLeader(r) \/ ReapOrphan(r)
      BY <1>0, <2>1 DEF ReapLeader, AwaitLeader, ReapOrphan, Release
    <2>2. CASE JoinDone(r) \/ JoinFails(r) \/ ReadMembers(r) \/ HelperFails(r)
      BY <1>0, <2>2 DEF JoinDone, JoinFails, ReadMembers, HelperFails, PassOver
    <2>3. CASE OpenPidfd(r) \/ CheckMembership(r) \/ SendTerm(r)
      BY <1>0, <2>3 DEF OpenPidfd, CheckMembership, SendTerm
    <2>4. CASE Kill(r) \/ Retire(r)
      BY <1>0, <2>4 DEF Kill, Retire, PassOver, CgroupKill
    <2> QED
      BY <1>3, <2>1, <2>2, <2>3, <2>4 DEF TaskStep
  <1>4. ASSUME NEW r \in Requests, IoStep(r) \/ IoWriteFails(r) PROVE OnlyCancelledAreSignalled'
    BY <1>0, <1>4 DEF IoStep, IoConnect, IoFinish, IoWriteExit, IoWriteFails,
      IoStopClosed
  <1>5. ASSUME NEW p \in Pids, ProcessStep(p) PROVE OnlyCancelledAreSignalled'
    <2>1. CASE Fork(p)
      BY <1>0, <2>1 DEF Fork, Free
    <2>2. CASE CloseOutput(p)
      BY <1>0, <2>2 DEF CloseOutput
    <2>3. CASE Exit(p)
      BY <1>0, <2>3 DEF Exit, Release
    <2> QED
      BY <1>5, <2>1, <2>2, <2>3 DEF ProcessStep
  <1>6. CASE UNCHANGED vars
    BY <1>0, <1>6 DEF vars
  <1> QED
    BY <1>1, <1>2, <1>3, <1>4, <1>5, <1>6 DEF Next

\* No step leaves a process without its cgroup, or without its task unless a
\* root helper failed for a client that went away.
LEMMA StraysStep == IInv /\ [Next]_vars => NoStrays'
  <1> SUFFICES ASSUME IInv, [Next]_vars PROVE NoStrays'
    OBVIOUS
  <1> USE SentinelAssumption
      DEF TypeOK, TasksAgree, ProcessesAgree, NoStrays, Interactive,
      Gone, Started, Live, Members, Free, clientVars, procVars, passVars
  <1>0. TypeOK /\ TasksAgree /\ ProcessesAgree /\ NoStrays
    BY DEF IInv
  <1>1. ASSUME NEW r \in Requests, ClientStep(r) PROVE NoStrays'
    BY <1>0, <1>1 DEF ClientStep, Connect, SendRequest, ReadReply, ReadExit,
      Acknowledge, LoseStream, Die
  <1>2. ASSUME NEW r \in Requests, HandlerStep(r) PROVE NoStrays'
    <2>1. CASE Accept(r) \/ ReadRequest(r) \/ ReadEof(r) \/ SpawnFails(r)
      BY <1>0, <2>1 DEF Accept, ReadRequest, ReadEof, SpawnFails, CreateCgroup
    <2>2. CASE Spawn(r)
      BY <1>0, <2>2 DEF Spawn, EnterCgroup, Free
    <2> QED
      BY <1>2, <2>1, <2>2 DEF HandlerStep
  <1>3. ASSUME NEW r \in Requests, TaskStep(r) PROVE NoStrays'
    <2>1. CASE ReapLeader(r) \/ AwaitLeader(r) \/ ReapOrphan(r)
      BY <1>0, <2>1 DEF ReapLeader, AwaitLeader, ReapOrphan, Release
    <2>2. CASE JoinDone(r) \/ JoinFails(r) \/ ReadMembers(r)
      BY <1>0, <2>2 DEF JoinDone, JoinFails, ReadMembers
    <2>5. CASE HelperFails(r)
      BY <1>0, <2>5 DEF HelperFails, PassOver
    <2>3. CASE OpenPidfd(r) \/ CheckMembership(r) \/ SendTerm(r)
      BY <1>0, <2>3 DEF OpenPidfd, CheckMembership, SendTerm
    <2>4. CASE Kill(r) \/ Retire(r)
      BY <1>0, <2>4 DEF Kill, Retire, PassOver, CgroupKill
    <2> QED
      BY <1>3, <2>1, <2>2, <2>3, <2>4, <2>5 DEF TaskStep
  <1>4. ASSUME NEW r \in Requests, IoStep(r) \/ IoWriteFails(r) PROVE NoStrays'
    BY <1>0, <1>4 DEF IoStep, IoConnect, IoFinish, IoWriteExit, IoWriteFails,
      IoStopClosed
  <1>5. ASSUME NEW p \in Pids, ProcessStep(p) PROVE NoStrays'
    <2>1. CASE Fork(p)
      BY <1>0, <2>1 DEF Fork, Free
    <2>2. CASE CloseOutput(p)
      BY <1>0, <2>2 DEF CloseOutput
    <2>3. CASE Exit(p)
      BY <1>0, <2>3 DEF Exit, Release
    <2> QED
      BY <1>5, <2>1, <2>2, <2>3 DEF ProcessStep
  <1>6. CASE UNCHANGED vars
    BY <1>0, <1>6 DEF vars
  <1> QED
    BY <1>1, <1>2, <1>3, <1>4, <1>5, <1>6 DEF Next

\* A killed request has no process without SIGKILL after any step: its
\* processes are doomed together, and a doomed one does not fork (terminate).
LEMMA SurvivesStep == IInv /\ [Next]_vars => NothingSurvives'
  <1> SUFFICES ASSUME IInv, [Next]_vars PROVE NothingSurvives'
    OBVIOUS
  <1> USE SentinelAssumption
      DEF TypeOK, TasksAgree, ProcessesAgree, NothingSurvives,
      Interactive, Live, Members, clientVars, procVars, passVars
  <1>0. TypeOK /\ TasksAgree /\ ProcessesAgree /\ NothingSurvives
    BY DEF IInv
  <1>1. ASSUME NEW r \in Requests, ClientStep(r) PROVE NothingSurvives'
    BY <1>0, <1>1 DEF ClientStep, Connect, SendRequest, ReadReply, ReadExit,
      Acknowledge, LoseStream, Die
  <1>2. ASSUME NEW r \in Requests, HandlerStep(r) PROVE NothingSurvives'
    <2>1. CASE Accept(r) \/ ReadRequest(r) \/ ReadEof(r) \/ SpawnFails(r)
      BY <1>0, <2>1 DEF Accept, ReadRequest, ReadEof, SpawnFails, CreateCgroup
    <2>2. CASE Spawn(r)
      BY <1>0, <2>2 DEF Spawn, EnterCgroup, Free
    <2> QED
      BY <1>2, <2>1, <2>2 DEF HandlerStep
  <1>3. ASSUME NEW r \in Requests, TaskStep(r) PROVE NothingSurvives'
    <2>1. CASE ReapLeader(r) \/ AwaitLeader(r) \/ ReapOrphan(r)
      BY <1>0, <2>1 DEF ReapLeader, AwaitLeader, ReapOrphan, Release
    <2>2. CASE JoinDone(r) \/ JoinFails(r) \/ ReadMembers(r) \/ HelperFails(r)
      BY <1>0, <2>2 DEF JoinDone, JoinFails, ReadMembers, HelperFails, PassOver
    <2>3. CASE OpenPidfd(r) \/ CheckMembership(r) \/ SendTerm(r)
      BY <1>0, <2>3 DEF OpenPidfd, CheckMembership, SendTerm
    <2>4. CASE Kill(r) \/ Retire(r)
      BY <1>0, <2>4 DEF Kill, Retire, PassOver, CgroupKill
    <2> QED
      BY <1>3, <2>1, <2>2, <2>3, <2>4 DEF TaskStep
  <1>4. ASSUME NEW r \in Requests, IoStep(r) \/ IoWriteFails(r) PROVE NothingSurvives'
    BY <1>0, <1>4 DEF IoStep, IoConnect, IoFinish, IoWriteExit, IoWriteFails,
      IoStopClosed
  <1>5. ASSUME NEW p \in Pids, ProcessStep(p) PROVE NothingSurvives'
    <2>1. CASE Fork(p)
      BY <1>0, <2>1 DEF Fork, Free
    <2>2. CASE CloseOutput(p)
      BY <1>0, <2>2 DEF CloseOutput
    <2>3. CASE Exit(p)
      BY <1>0, <2>3 DEF Exit, Release
    <2> QED
      BY <1>5, <2>1, <2>2, <2>3 DEF ProcessStep
  <1>6. CASE UNCHANGED vars
    BY <1>0, <1>6 DEF vars
  <1> QED
    BY <1>1, <1>2, <1>3, <1>4, <1>5, <1>6 DEF Next

\* The invariant is inductive.
LEMMA InvStep == IInv /\ [Next]_vars => IInv'
  BY TypeStep, ClientsStep, TasksStep, ProcessesStep, PassStep, SignalledStep,
    StraysStep, SurvivesStep DEF IInv

\* Whatever clients, the worker and processes do, the invariant holds.
THEOREM Invariance == Spec => []IInv
  BY InitIInv, InvStep, PTL DEF Spec

\* The variables keep their types, for any clients and identifiers; in
\* particular only requests with a port have a cgroup.
THEOREM TypeCorrect == Spec => []TypeOK
  <1>1. IInv => TypeOK
    BY DEF IInv
  <1> QED
    BY <1>1, Invariance, PTL

\* Cancellation never signals another request's processes, however identifiers
\* are reused between reading cgroup.procs and sending SIGTERM.
THEOREM SignalsSpareOthers == Spec => []OnlyCancelledAreSignalled
  <1>1. IInv => OnlyCancelledAreSignalled
    BY DEF IInv
  <1> QED
    BY <1>1, Invariance, PTL

\* A client that reads an exit code has all of the request's output: nobody is
\* left that could write more (run_io_guest, wait_for_child).
THEOREM ExitComesLast == Spec => []ExitIsFinal
  <1>1. IInv => ExitIsFinal
    BY DEF IInv, ClientsAgree, TasksAgree, ExitIsFinal, Interactive, IoDone
  <1> QED
    BY <1>1, Invariance, PTL

\* No process of a request runs untracked: it is in its cgroup, and its task is
\* there to wait for it or to take it down.  Only a task that a failed root helper
\* ended leaves processes alone, in their cgroup and of a client that went away
\* (handle_connection, wait_for_child, as_root).
THEOREM AllAreTracked == Spec => []NoStrays
  <1>1. IInv => NoStrays
    BY DEF IInv
  <1> QED
    BY <1>1, Invariance, PTL

\* cgroup.kill leaves nothing alive that is not doomed, whatever forked
\* during the grace period (terminate).
THEOREM KillIsComplete == Spec => []NothingSurvives
  <1>1. IInv => NothingSurvives
    BY DEF IInv
  <1> QED
    BY <1>1, Invariance, PTL

---------------------------------------------------------------------------
(* The refinement: the promise's variables, and every action mapped.       *)

phase == [r \in Interactive |-> PromisePhase(r)]
populated == {r \in Interactive : Members(r) # {}}
talking == {r \in Interactive : Members(r) \cap out # {}}

\* A step of the promise, or one it does not see.
Mapped == Promise!Next \/ UNCHANGED <<phase, populated, talking>>

\* A step that moves the task of one request moves the phase of that request,
\* if it is interactive, and of no other.
LEMMA PhaseMoves ==
  ASSUME NEW r \in Requests, NEW t, TypeOK,
         client' = client, task' = [task EXCEPT ![r] = t]
  PROVE  /\ \A from : r \in Interactive /\ PromisePhase(r) \in from
               => Promise!To(r, from, PromisePhase(r)')
         /\ r \notin Interactive \/ PromisePhase(r)' = PromisePhase(r)
               => UNCHANGED phase
  <1>1. ASSUME NEW s \in Interactive, s # r PROVE PromisePhase(s)' = PromisePhase(s)
    <2>1. task'[s] = task[s] /\ client'[s] = client[s]
      BY <1>1 DEF TypeOK, Interactive
    <2> QED
      BY <2>1 DEF PromisePhase
  <1>2. r \in Interactive => phase' = [phase EXCEPT ![r] = PromisePhase(r)']
    BY <1>1 DEF phase
  <1>3. r \in Interactive => phase[r] = PromisePhase(r)
    BY DEF phase
  <1>4. r \notin Interactive \/ PromisePhase(r)' = PromisePhase(r) => UNCHANGED phase
    BY <1>1 DEF phase
  <1> QED
    BY <1>2, <1>3, <1>4 DEF Promise!To, phase

\* What the promise sees of processes depends on owner, zombie and out only.
LEMMA ProcessesStay ==
  UNCHANGED <<owner, zombie, out>> => UNCHANGED <<populated, talking>>
  BY DEF populated, talking, Members, Live

\* The initial state maps to the promise's.
LEMMA MappedInit == Init => Promise!Init
  BY SentinelAssumption DEF Init, Promise!Init, PromisePhase, Interactive, Members, Live

\* The promise does not see a client's steps: it acknowledges only before its
\* task drains.
LEMMA ClientStutters ==
  ASSUME IInv, NEW r \in Requests, ClientStep(r)
  PROVE  UNCHANGED <<phase, populated, talking>>
  <1>1. UNCHANGED <<populated, talking>>
    BY ProcessesStay DEF ClientStep, Connect, SendRequest, ReadReply, ReadExit,
      Acknowledge, LoseStream, Die, procVars
  <1>2. UNCHANGED task
    BY DEF ClientStep, Connect, SendRequest, ReadReply, ReadExit,
      Acknowledge, LoseStream, Die
  <1>3. ASSUME NEW s \in Interactive, task[s] = "drain"
        PROVE  (client'[s] = "done") = (client[s] = "done")
    BY <1>3 DEF IInv, TypeOK, TasksAgree, Started, Gone, Interactive,
      ClientStep, Connect, SendRequest, ReadReply, ReadExit,
      Acknowledge, LoseStream, Die
  <1>4. \A s \in Interactive : PromisePhase(s)' = PromisePhase(s)
    BY <1>2, <1>3 DEF PromisePhase
  <1> QED
    BY <1>1, <1>4 DEF phase

\* The handler starts or refuses a request, or does nothing the promise sees.
LEMMA HandlerMaps == ASSUME IInv, NEW r \in Requests, HandlerStep(r) PROVE Mapped
  <1> USE DEF clientVars, procVars, passVars
  <1>0. TypeOK /\ ProcessesAgree
    BY DEF IInv
  <1>1. CASE Accept(r) \/ (ReadRequest(r) /\ task'[r] = "starting")
    <2>1. \E t : client' = client /\ task' = [task EXCEPT ![r] = t]
      BY <1>1 DEF Accept, ReadRequest
    <2>2. PromisePhase(r)' = PromisePhase(r)
      BY <1>0, <1>1 DEF Accept, ReadRequest, PromisePhase, TypeOK
    <2>3. UNCHANGED <<populated, talking>>
      BY <1>1, ProcessesStay DEF Accept, ReadRequest
    <2> QED
      BY <1>0, <2>1, <2>2, <2>3, PhaseMoves DEF Mapped
  <1>2. CASE (ReadRequest(r) /\ task'[r] = "refused") \/ ReadEof(r) \/ SpawnFails(r)
    <2>1. task' = [task EXCEPT ![r] = "refused"] /\ client' = client
      BY <1>0, <1>2 DEF ReadRequest, ReadEof, SpawnFails, TypeOK
    <2>2. PromisePhase(r) = "new" /\ PromisePhase(r)' = "over"
      BY <1>0, <1>2, <2>1 DEF ReadRequest, ReadEof, SpawnFails, PromisePhase, TypeOK
    <2>3. UNCHANGED <<populated, talking>>
      BY <1>2, ProcessesStay DEF ReadRequest, ReadEof, SpawnFails
    <2>4. r \in Interactive => Promise!Refuse(r)
      BY <1>0, <2>1, <2>2, <2>3, PhaseMoves DEF Promise!Refuse, populated, talking
    <2> QED
      BY <1>0, <2>1, <2>3, <2>4, PhaseMoves DEF Mapped, Promise!Next
  <1>3. CASE Spawn(r)
    <2>1. task' = [task EXCEPT ![r] = "join"] /\ client' = client
      BY <1>3 DEF Spawn
    <2>2. PromisePhase(r) = "new" /\ PromisePhase(r)' = "running"
      BY <1>0, <1>3, <2>1 DEF Spawn, PromisePhase, TypeOK
    <2>3. PICK p \in Free : /\ owner' = [owner EXCEPT ![p] = r]
                            /\ out' = IF r \in Probes THEN out ELSE out \cup {p}
      BY <1>3 DEF Spawn, EnterCgroup
    <2>4. p \notin out /\ p \notin zombie /\ zombie' = zombie
      BY <1>0, <1>3, <2>3 DEF Spawn, ProcessesAgree, Live, Free
    <2>5. ASSUME NEW s \in Requests, s # r PROVE UNCHANGED Members(s)
      BY <1>0, <2>3, <2>4, <2>5, SentinelAssumption DEF Members, Live, Free, TypeOK
    <2>6. r \in Interactive => p \in Members(r)' /\ p \in out'
      BY <1>0, <2>3, <2>4, SentinelAssumption DEF Members, Live, Free, TypeOK, Interactive
    <2>7. /\ populated' = populated \cup ({r} \cap Interactive)
          /\ talking' = talking \cup ({r} \cap Interactive)
      BY <2>3, <2>4, <2>5, <2>6, SentinelAssumption DEF populated, talking, Interactive, Members, Free, Live
    <2>8. r \in Interactive => Promise!Start(r)
      BY <1>0, <2>1, <2>2, <2>7, PhaseMoves DEF Promise!Start, populated, talking
    <2> QED
      BY <1>0, <2>1, <2>7, <2>8, PhaseMoves DEF Mapped, Promise!Next
  <1> QED
    BY <1>0, <1>1, <1>2, <1>3 DEF HandlerStep, ReadRequest, TypeOK

\* Reaping a zombie takes no live process and no writer away.
LEMMA ReapingStays ==
  ASSUME TypeOK, NEW p \in zombie, Release(p)
  PROVE  UNCHANGED <<populated, talking>>
  <1>1. Live' = Live
    BY SentinelAssumption DEF TypeOK, Release, Live
  <1>2. ASSUME NEW s \in Requests
        PROVE  Members(s)' = Members(s) /\ (Members(s) \cap out)' = Members(s) \cap out
    BY <1>1 DEF TypeOK, Release, Members, Live
  <1> QED
    BY <1>2 DEF populated, talking, Interactive

\* A task completes, cancels, kills, retires or abandons its request, or does
\* nothing the promise sees.
LEMMA TaskMaps == ASSUME IInv, NEW r \in Requests, TaskStep(r) PROVE Mapped
  <1> USE DEF clientVars, procVars, passVars
  <1>0. TypeOK /\ TasksAgree
    BY DEF IInv
  <1>1. CASE ReapLeader(r)
    <2>1. UNCHANGED <<populated, talking>> /\ client' = client
      BY <1>0, <1>1, ReapingStays DEF ReapLeader
    <2>2. CASE UNCHANGED task
      BY <2>1, <2>2 DEF phase, PromisePhase, Mapped
    <2>3. CASE r \in Probes /\ task' = [task EXCEPT ![r] = "retired"]
      BY <1>0, <2>1, <2>3, PhaseMoves DEF Mapped, Interactive
    <2>4. CASE r \notin Probes /\ task' = [task EXCEPT ![r] = "term"]
      <3>1. PromisePhase(r) = "running" /\ PromisePhase(r)' = "cancelling"
        BY <1>0, <1>1, <2>4 DEF ReapLeader, PromisePhase, TypeOK
      <3>2. Promise!To(r, {"running"}, "cancelling")
        BY <1>0, <2>1, <2>4, <3>1, PhaseMoves DEF Interactive
      <3>3. Promise!Cancel(r)
        BY <2>1, <3>2 DEF Promise!Cancel, populated, talking
      <3> QED
        BY <2>4, <3>3 DEF Mapped, Promise!Next, Interactive
    <2> QED
      BY <1>1, <2>2, <2>3, <2>4 DEF ReapLeader
  <1>2. CASE JoinDone(r)
    <2>1. task' = [task EXCEPT ![r] = "drain"] /\ client' = client
      BY <1>2 DEF JoinDone
    <2>2. r \in Interactive /\ r \notin talking
      BY <1>0, <1>2 DEF JoinDone, TasksAgree, talking
    <2>3. PromisePhase(r) = "running" /\ PromisePhase(r)' = "finishing"
      BY <1>0, <1>2, <2>1 DEF JoinDone, PromisePhase, TypeOK
    <2>4. UNCHANGED <<populated, talking>>
      BY <1>2, ProcessesStay DEF JoinDone
    <2>5. Promise!To(r, {"running"}, "finishing")
      BY <1>0, <2>1, <2>2, <2>3, PhaseMoves
    <2>6. Promise!Complete(r)
      BY <2>2, <2>4, <2>5 DEF Promise!Complete, populated, talking
    <2> QED
      BY <2>2, <2>6 DEF Mapped, Promise!Next
  <1>3. CASE JoinFails(r)
    <2>1. task' = [task EXCEPT ![r] = "term"] /\ client' = client /\ r \in Interactive
      BY <1>3 DEF JoinFails, Interactive
    <2>2. PromisePhase(r) = "running" /\ PromisePhase(r)' = "cancelling"
      BY <1>0, <1>3, <2>1 DEF JoinFails, PromisePhase, TypeOK
    <2>3. UNCHANGED <<populated, talking>>
      BY <1>3, ProcessesStay DEF JoinFails
    <2>4. Promise!To(r, {"running"}, "cancelling")
      BY <1>0, <2>1, <2>2, PhaseMoves
    <2>5. Promise!Cancel(r)
      BY <2>3, <2>4 DEF Promise!Cancel, populated, talking
    <2> QED
      BY <2>1, <2>5 DEF Mapped, Promise!Next
  <1>4. CASE ReadMembers(r) \/ OpenPidfd(r) \/ CheckMembership(r) \/ SendTerm(r)
    <2>1. \E t : client' = client /\ task' = [task EXCEPT ![r] = t]
      BY <1>0, <1>4 DEF ReadMembers, OpenPidfd, CheckMembership, SendTerm, TypeOK
    <2>2. PromisePhase(r)' = PromisePhase(r)
      BY <1>0, <1>4 DEF ReadMembers, OpenPidfd, CheckMembership, SendTerm,
        PromisePhase, TypeOK
    <2>3. UNCHANGED <<populated, talking>>
      BY <1>4, ProcessesStay DEF ReadMembers, OpenPidfd, CheckMembership, SendTerm
    <2> QED
      BY <1>0, <2>1, <2>2, <2>3, PhaseMoves DEF Mapped
  <1>5. CASE Kill(r)
    <2>1. task' = [task EXCEPT ![r] = "killed"] /\ client' = client
      BY <1>5 DEF Kill
    <2>2. PromisePhase(r) = "cancelling" /\ PromisePhase(r)' = "killed"
      BY <1>0, <1>5, <2>1 DEF Kill, PassOver, PromisePhase, TypeOK
    <2>3. UNCHANGED <<populated, talking>> /\ r \in Interactive
      BY <1>0, <1>5, ProcessesStay DEF Kill, PassOver, TasksAgree
    <2>4. Promise!To(r, {"cancelling"}, "killed")
      BY <1>0, <2>1, <2>2, <2>3, PhaseMoves
    <2>5. Promise!Kill(r)
      BY <2>3, <2>4 DEF Promise!Kill, populated, talking
    <2> QED
      BY <2>3, <2>5 DEF Mapped, Promise!Next
  <1>6. CASE AwaitLeader(r)
    <2>1. task' = [task EXCEPT ![r] = "drain"] /\ client' = client
      BY <1>6 DEF AwaitLeader
    <2>2. PromisePhase(r) = "killed" /\ PromisePhase(r)' = "killed"
      BY <1>0, <1>6, <2>1 DEF AwaitLeader, PromisePhase, TypeOK, TasksAgree, Gone
    <2>3. UNCHANGED <<populated, talking>>
      BY <1>0, <1>6, ProcessesStay, ReapingStays DEF AwaitLeader
    <2> QED
      BY <1>0, <2>1, <2>2, <2>3, PhaseMoves DEF Mapped
  <1>7. CASE Retire(r)
    <2>1. task' = [task EXCEPT ![r] = "retired"] /\ client' = client
      BY <1>7 DEF Retire
    <2>2. PromisePhase(r) \in {"finishing", "killed"} /\ PromisePhase(r)' = "over"
      BY <1>0, <1>7, <2>1 DEF Retire, PromisePhase, TypeOK
    <2>3. UNCHANGED <<populated, talking>> /\ r \in Interactive /\ r \notin populated
      BY <1>0, <1>7, ProcessesStay DEF Retire, TasksAgree, populated
    <2>4. Promise!To(r, {"finishing", "killed"}, "over")
      BY <1>0, <2>1, <2>2, <2>3, PhaseMoves
    <2>5. Promise!Retire(r)
      BY <2>3, <2>4 DEF Promise!Retire, populated, talking
    <2> QED
      BY <2>3, <2>5 DEF Mapped, Promise!Next
  <1>8. CASE HelperFails(r)
    <2>1. task' = [task EXCEPT ![r] = "abandoned"] /\ client' = client
      BY <1>8 DEF HelperFails
    <2>2. PromisePhase(r)' = "abandoned"
      BY <1>0, <2>1 DEF PromisePhase, TypeOK
    <2>3. UNCHANGED <<populated, talking>> /\ r \in Interactive
      BY <1>0, <1>8, ProcessesStay DEF HelperFails, PassOver, TasksAgree
    <2>4. /\ PromisePhase(r) \in {"finishing", "cancelling", "killed"}
          /\ PromisePhase(r) = "cancelling" \/ r \notin populated
      BY <1>0, <1>8 DEF HelperFails, PassOver, PromisePhase, populated
    <2>5. Promise!To(r, {"finishing", "cancelling", "killed"}, "abandoned")
      BY <1>0, <2>1, <2>2, <2>3, <2>4, PhaseMoves
    <2>6. phase[r] = PromisePhase(r)
      BY <2>3 DEF phase
    <2>7. Promise!Abandon(r)
      BY <2>3, <2>4, <2>5, <2>6 DEF Promise!Abandon, phase, populated, talking
    <2> QED
      BY <2>3, <2>7 DEF Mapped, Promise!Next
  <1>9. CASE ReapOrphan(r)
    <2>1. UNCHANGED <<populated, talking>>
      BY <1>0, <1>9, ReapingStays DEF ReapOrphan
    <2> QED
      BY <1>9, <2>1 DEF ReapOrphan, phase, PromisePhase, Mapped
  <1> QED
    BY <1>1, <1>2, <1>3, <1>4, <1>5, <1>6, <1>7, <1>8, <1>9 DEF TaskStep

\* The promise does not see the I/O thread.
LEMMA IoStutters ==
  ASSUME NEW r \in Requests, IoStep(r) \/ IoWriteFails(r)
  PROVE  UNCHANGED <<phase, populated, talking>>
  <1>1. UNCHANGED <<client, task, owner, zombie, out>>
    BY DEF IoStep, IoConnect, IoFinish, IoWriteExit, IoWriteFails, IoStopClosed,
      clientVars, procVars
  <1> QED
    BY <1>1, ProcessesStay DEF phase, PromisePhase

\* A request that loses writers or its last process goes quiet or empties.
LEMMA ShrinkingMaps ==
  ASSUME NEW s \in Interactive, UNCHANGED phase,
         populated' \in {populated, populated \ {s}},
         talking' \in {talking, talking \ {s}}
  PROVE  Mapped
  <1>0. talking \subseteq populated /\ (talking \subseteq populated)'
    BY DEF talking, populated
  <1>1. CASE talking' # talking
    <2>1. Promise!Quiet(s)
      BY <1>1 DEF Promise!Quiet, phase, populated, talking
    <2> QED
      BY <2>1 DEF Mapped, Promise!Next
  <1>2. CASE talking' = talking /\ populated' # populated
    <2>1. Promise!Empty(s)
      BY <1>0, <1>2 DEF Promise!Empty, phase, populated, talking
    <2> QED
      BY <2>1 DEF Mapped, Promise!Next
  <1> QED
    BY <1>1, <1>2 DEF Mapped

\* A fork is invisible, a close or an exit quiets or empties a request.
LEMMA ProcessMaps == ASSUME IInv, NEW p \in Pids, ProcessStep(p) PROVE Mapped
  <1>0. TypeOK /\ ProcessesAgree /\ NoReq \notin Interactive
    BY SentinelAssumption DEF IInv, Interactive
  <1>b. UNCHANGED <<client, task>>
    BY DEF ProcessStep, Fork, CloseOutput, Exit, clientVars
  <1>a. UNCHANGED phase
    BY <1>b DEF phase, PromisePhase
  <1>1. CASE Fork(p)
    <2>1. PICK q \in Free : /\ owner' = [owner EXCEPT ![q] = owner[p]]
                            /\ out' = IF p \in out THEN out \cup {q} ELSE out
      BY <1>1 DEF Fork
    <2>2. p \in Live /\ zombie' = zombie /\ q \notin zombie /\ q \notin out
      BY <1>0, <1>1, <2>1 DEF Fork, ProcessesAgree, Live, Free, procVars
    <2>3. ASSUME NEW s \in Interactive
          PROVE  Members(s)' = Members(s) \cup {x \in {q} : owner[p] = s}
      BY <1>0, <2>1, <2>2 DEF Members, Live, Free, TypeOK
    <2>4. populated' = populated
      BY <1>0, <2>2, <2>3 DEF populated, Members
    <2>5. talking' = talking
      <3>1. CASE p \notin out
        BY <2>1, <2>2, <2>3, <3>1 DEF talking
      <3>2. CASE p \in out
        <4>1. out' = out \cup {q} /\ p \in Members(owner[p]) \cap out
          BY <2>1, <2>2, <3>2 DEF Members
        <4>2. ASSUME NEW s \in Interactive
              PROVE  (Members(s) \cap out # {})' <=> Members(s) \cap out # {}
          <5>1. q \notin Members(s)
            BY <1>0 DEF Members, Live, Free
          <5>2. CASE owner[p] = s
            BY <2>3, <4>1, <5>2
          <5>3. CASE owner[p] # s
            BY <2>3, <4>1, <5>1, <5>3
          <5> QED
            BY <5>2, <5>3
        <4> QED
          BY <4>2 DEF talking
      <3> QED
        BY <3>1, <3>2
    <2> QED
      BY <1>a, <2>4, <2>5 DEF Mapped
  <1>2. CASE CloseOutput(p) \/ Exit(p)
    <2>1. out' = out \ {p} /\ p \in Live
      BY <1>0, <1>2 DEF CloseOutput, Exit, Release, ProcessesAgree
    <2>2. ASSUME NEW s \in Interactive
          PROVE  /\ Members(s)' \in {Members(s), Members(s) \ {p}}
                 /\ owner[p] # s => Members(s)' = Members(s)
      BY <1>0, <1>2 DEF CloseOutput, Exit, Release, Members, Live, TypeOK, procVars
    <2>3. ASSUME NEW s \in Interactive, owner[p] # s
          PROVE  /\ Members(s)' = Members(s)
                 /\ Members(s)' \cap out' = Members(s) \cap out
      BY <2>1, <2>2, <2>3 DEF Members
    <2>4. CASE owner[p] \in Interactive
      <3>1. populated' \in {populated, populated \ {owner[p]}}
        BY <2>2, <2>3, <2>4 DEF populated
      <3>2. talking' \in {talking, talking \ {owner[p]}}
        BY <2>1, <2>2, <2>3, <2>4 DEF talking
      <3> QED
        BY <1>a, <2>4, <3>1, <3>2, ShrinkingMaps
    <2>5. CASE owner[p] \notin Interactive
      BY <1>a, <2>3, <2>5 DEF Mapped, populated, talking
    <2> QED
      BY <2>4, <2>5
  <1> QED
    BY <1>1, <1>2 DEF ProcessStep

\* Every step of the worker's world is a step of the promise, or stutters.
LEMMA StepMaps == IInv /\ [Next]_vars => [Promise!Next]_(Promise!vars)
  <1> SUFFICES ASSUME IInv, [Next]_vars PROVE Mapped
    BY DEF Mapped, Promise!vars, phase, populated, talking
  <1>1. CASE UNCHANGED vars
    BY <1>1, ProcessesStay DEF vars, Mapped, phase, PromisePhase
  <1> QED
    BY <1>1, ClientStutters, HandlerMaps, TaskMaps, IoStutters, ProcessMaps
      DEF Next, Mapped

\* The worker implements the promise: a request completes or is cancelled,
\* never both, and is over only when none of its processes is left.
THEOREM ImplementsPromise == Spec => Promise!Spec
  BY MappedInit, StepMaps, Invariance, PTL DEF Spec, Promise!Spec

---------------------------------------------------------------------------
(* What a host may conclude from the promise.                              *)

\* A request that has not started, or is over, has no live process, and one
\* that completed has no process that could still write output.
OverIsEmpty ==
    \A r \in Interactive :
        /\ PromisePhase(r) \in {"new", "over"} => Members(r) = {}
        /\ PromisePhase(r) = "finishing" => Members(r) \cap out = {}

\* The phases that may come next: a completed request is never cancelled, a
\* cancelled one never completes nor ends unkilled, and the end is the end.
Follow(p) ==
    CASE p = "new" -> {"new", "running", "over"}
      [] p = "running" -> {"running", "finishing", "cancelling"}
      [] p = "finishing" -> {"finishing", "over", "abandoned"}
      [] p = "cancelling" -> {"cancelling", "killed", "abandoned"}
      [] p = "killed" -> {"killed", "over", "abandoned"}
      [] p \in {"over", "abandoned"} -> {p}

\* No step of anybody undoes an outcome.
OutcomeStays ==
    \A r \in Interactive : PromisePhase(r)' \in Follow(PromisePhase(r))

PhasesTyped == \A r \in Interactive : PromisePhase(r) \in Promise!Phase

\* Every place of a task and its client is a phase of the promise.
LEMMA PhaseTyped == TypeOK => PhasesTyped
  <1> SUFFICES ASSUME TypeOK, NEW r \in Interactive
               PROVE  PromisePhase(r) \in Promise!Phase
    BY DEF PhasesTyped
  <1>1. task[r] \in TaskState
    BY DEF TypeOK, Interactive
  <1> QED
    BY <1>1 DEF PromisePhase, TaskState, Promise!Phase

\* A step of the promise moves one request, to a phase that may follow its own.
LEMMA PromiseMoves ==
  ASSUME PhasesTyped, Promise!Next, NEW r \in Interactive
  PROVE  phase'[r] \in Follow(phase[r])
  <1>0. phase[r] \in Promise!Phase
    BY DEF PhasesTyped, phase
  <1>1. PICK s \in Interactive :
          \/ Promise!Start(s) \/ Promise!Refuse(s) \/ Promise!Complete(s)
          \/ Promise!Cancel(s) \/ Promise!Kill(s) \/ Promise!Quiet(s)
          \/ Promise!Empty(s) \/ Promise!Retire(s) \/ Promise!Abandon(s)
    BY DEF Promise!Next
  <1>2. CASE phase'[r] = phase[r]
    BY <1>0, <1>2 DEF Follow, Promise!Phase
  <1>3. \A from, to : Promise!To(s, from, to)
          => \/ phase'[r] = phase[r]
             \/ phase[r] \in from /\ phase'[r] = to
    BY DEF Promise!To, phase
  <1>4. CASE Promise!Start(s) \/ Promise!Refuse(s)
    <2>1. \/ Promise!To(s, {"new"}, "running")
          \/ Promise!To(s, {"new"}, "over")
      BY <1>4 DEF Promise!Start, Promise!Refuse
    <2>2. \/ phase'[r] = phase[r]
          \/ phase[r] = "new" /\ phase'[r] \in {"running", "over"}
      BY <1>3, <2>1
    <2> QED
      BY <1>2, <2>2 DEF Follow
  <1>5. CASE Promise!Complete(s) \/ Promise!Cancel(s)
    <2>1. \/ Promise!To(s, {"running"}, "finishing")
          \/ Promise!To(s, {"running"}, "cancelling")
      BY <1>5 DEF Promise!Complete, Promise!Cancel
    <2>2. \/ phase'[r] = phase[r]
          \/ phase[r] = "running" /\ phase'[r] \in {"finishing", "cancelling"}
      BY <1>3, <2>1
    <2> QED
      BY <1>2, <2>2 DEF Follow
  <1>6. CASE Promise!Kill(s)
    <2>1. Promise!To(s, {"cancelling"}, "killed")
      BY <1>6 DEF Promise!Kill
    <2>2. \/ phase'[r] = phase[r]
          \/ phase[r] = "cancelling" /\ phase'[r] = "killed"
      BY <1>3, <2>1
    <2> QED
      BY <1>2, <2>2 DEF Follow
  <1>7. CASE Promise!Retire(s)
    <2>1. Promise!To(s, {"finishing", "killed"}, "over")
      BY <1>7 DEF Promise!Retire
    <2>2. \/ phase'[r] = phase[r]
          \/ phase[r] \in {"finishing", "killed"} /\ phase'[r] = "over"
      BY <1>3, <2>1
    <2> QED
      BY <1>2, <2>2 DEF Follow
  <1>8. CASE Promise!Abandon(s)
    <2>1. Promise!To(s, {"finishing", "cancelling", "killed"}, "abandoned")
      BY <1>8 DEF Promise!Abandon
    <2>2. \/ phase'[r] = phase[r]
          \/ /\ phase[r] \in {"finishing", "cancelling", "killed"}
             /\ phase'[r] = "abandoned"
      BY <1>3, <2>1
    <2> QED
      BY <1>2, <2>2 DEF Follow
  <1>9. CASE Promise!Quiet(s) \/ Promise!Empty(s)
    <2>1. phase'[r] = phase[r]
      BY <1>9 DEF Promise!Quiet, Promise!Empty, phase
    <2> QED
      BY <1>2, <2>1
  <1> QED
    BY <1>1, <1>4, <1>5, <1>6, <1>7, <1>8, <1>9

\* Whatever clients, helpers and processes do, an acknowledged request is never
\* torn down, and one whose client went away never passes for complete and is
\* over only after its kill (wait_for_child, terminate).
THEOREM OutcomeIsFinal == Spec => [][OutcomeStays]_vars
  <1>1. ASSUME IInv, PhasesTyped, [Next]_vars PROVE OutcomeStays
    <2> SUFFICES ASSUME NEW r \in Interactive
                 PROVE  phase'[r] \in Follow(phase[r])
      BY DEF OutcomeStays, phase
    <2>1. CASE Promise!Next
      BY <1>1, <2>1, PromiseMoves
    <2>2. CASE UNCHANGED phase
      BY <1>1, <2>2 DEF Follow, Promise!Phase, PhasesTyped, phase
    <2> QED
      BY <1>1, <2>1, <2>2, StepMaps DEF Promise!vars, phase
  <1>2. IInv => TypeOK
    BY DEF IInv
  <1> QED
    BY <1>1, <1>2, PhaseTyped, Invariance, PTL DEF Spec

\* No step of the promise fills a request that is over.
LEMMA PromiseEmpties ==
  ASSUME PhasesTyped, OverIsEmpty, Promise!Next
  PROVE  \A r \in Interactive :
            /\ phase'[r] \in {"new", "over"} => r \notin populated'
            /\ phase'[r] = "finishing" => r \notin talking'
  <1>1. PICK s \in Interactive :
          \/ Promise!Start(s) \/ Promise!Refuse(s) \/ Promise!Complete(s)
          \/ Promise!Cancel(s) \/ Promise!Kill(s) \/ Promise!Quiet(s)
          \/ Promise!Empty(s) \/ Promise!Retire(s) \/ Promise!Abandon(s)
    BY DEF Promise!Next
  <1> SUFFICES ASSUME NEW r \in Interactive
               PROVE  /\ phase'[r] \in {"new", "over"} => r \notin populated'
                      /\ phase'[r] = "finishing" => r \notin talking'
    OBVIOUS
  <1>0. /\ phase[r] \in {"new", "over"} => r \notin populated
        /\ phase[r] = "finishing" => r \notin talking
    BY DEF OverIsEmpty, phase, populated, talking
  <1>2. \A from, to : Promise!To(s, from, to)
          => /\ r # s => phase'[r] = phase[r]
             /\ r = s => phase[r] \in from /\ phase'[r] = to
    BY DEF Promise!To, phase
  <1>3. CASE Promise!Start(s)
    <2>1. /\ r # s => phase'[r] = phase[r]
          /\ r = s => phase'[r] = "running"
          /\ populated' = populated \cup {s} /\ talking' = talking \cup {s}
      BY <1>2, <1>3 DEF Promise!Start, populated, talking
    <2> QED
      BY <1>0, <2>1
  <1>4. CASE Promise!Refuse(s) \/ Promise!Complete(s) \/ Promise!Cancel(s)
          \/ Promise!Kill(s) \/ Promise!Retire(s) \/ Promise!Abandon(s)
    <2>1. populated' = populated /\ talking' = talking
      BY <1>4 DEF Promise!Refuse, Promise!Complete, Promise!Cancel, Promise!Kill,
        Promise!Retire, Promise!Abandon, populated, talking
    <2>2. \/ Promise!To(s, {"new"}, "over")
          \/ Promise!To(s, {"running"}, "finishing") /\ s \notin talking
          \/ Promise!To(s, {"finishing", "killed"}, "over") /\ s \notin populated
          \/ \E from : Promise!To(s, from, "cancelling") \/ Promise!To(s, from, "killed")
                        \/ Promise!To(s, from, "abandoned")
      <3>1. CASE Promise!Refuse(s) \/ Promise!Complete(s) \/ Promise!Retire(s)
        BY <3>1 DEF Promise!Refuse, Promise!Complete, Promise!Retire, populated, talking
      <3>2. CASE Promise!Cancel(s) \/ Promise!Kill(s) \/ Promise!Abandon(s)
        BY <3>2 DEF Promise!Cancel, Promise!Kill, Promise!Abandon
      <3> QED
        BY <1>4, <3>1, <3>2
    <2>3. CASE r = s
      <3>1. \/ phase'[r] = "over" /\ (phase[r] = "new" \/ r \notin populated)
            \/ phase'[r] = "finishing" /\ r \notin talking
            \/ phase'[r] \in {"cancelling", "killed", "abandoned"}
        BY <1>2, <2>2, <2>3
      <3> QED
        BY <1>0, <2>1, <3>1
    <2>4. CASE r # s
      <3>1. phase'[r] = phase[r]
        BY <1>2, <2>2, <2>4
      <3> QED
        BY <1>0, <2>1, <3>1
    <2> QED
      BY <2>3, <2>4
  <1>5. CASE Promise!Quiet(s) \/ Promise!Empty(s)
    <2>1. /\ phase' = phase
          /\ populated' \subseteq populated /\ talking' \subseteq talking
      BY <1>5 DEF Promise!Quiet, Promise!Empty, phase, populated, talking
    <2> QED
      BY <1>0, <2>1
  <1> QED
    BY <1>1, <1>3, <1>4, <1>5

\* A request that never started, or is over, has no live process: nothing is
\* left behind where the worker removed the cgroup. One that completed has
\* nothing left that could write to its client (remove_when_empty).
THEOREM OverLeavesNothing == Spec => []OverIsEmpty
  <1>1. Init => OverIsEmpty
    BY SentinelAssumption DEF Init, OverIsEmpty, PromisePhase, Members, Live, Interactive
  <1>2. ASSUME IInv, PhasesTyped, OverIsEmpty, [Next]_vars PROVE OverIsEmpty'
    <2> SUFFICES \A r \in Interactive :
            /\ phase'[r] \in {"new", "over"} => r \notin populated'
            /\ phase'[r] = "finishing" => r \notin talking'
      BY DEF OverIsEmpty, phase, populated, talking
    <2>1. CASE Promise!Next
      BY <1>2, <2>1, PromiseEmpties
    <2>2. CASE UNCHANGED <<phase, populated, talking>>
      BY <1>2, <2>2 DEF OverIsEmpty, phase, populated, talking
    <2> QED
      BY <1>2, <2>1, <2>2, StepMaps DEF Promise!vars, phase, populated, talking
  <1>3. IInv => TypeOK
    BY DEF IInv
  <1> QED
    BY <1>1, <1>2, <1>3, PhaseTyped, Invariance, PTL DEF Spec

---------------------------------------------------------------------------
(* Children and zombies: what the waits of a task are about.               *)

Reaping == {"join", "term", "pass", "killed", "abandoned"}

\* The child a task waits for is a process of its own request, identifiers
\* reused or not, and every zombie is the child of a request whose task, or the
\* runtime's orphan queue, has yet to reap it: no zombie is left behind.
ZombiesHaveReapers ==
    /\ \A r \in Requests :
          leader[r] # NoPid => owner[leader[r]] = r /\ task[r] \in Reaping
    /\ \A p \in zombie : leader[owner[p]] = p

\* After the kill child.wait() does not wait for ever: the child was reaped
\* before, has exited, or is about to die of SIGKILL.
WaitEnds ==
    \A r \in Requests :
        task[r] = "killed" =>
            leader[r] = NoPid \/ leader[r] \in zombie \cup doomed

\* A spawn takes a free identifier, a wait frees its own child's, and a task
\* leaves the places where it reaps only after it did.
LEMMA ZombiesStep == IInv /\ ZombiesHaveReapers /\ [Next]_vars => ZombiesHaveReapers'
  <1> SUFFICES ASSUME IInv, ZombiesHaveReapers, [Next]_vars PROVE ZombiesHaveReapers'
    OBVIOUS
  <1> USE SentinelAssumption
      DEF TypeOK, ZombiesHaveReapers, Reaping, clientVars, procVars, passVars
  <1>0. TypeOK /\ TasksAgree /\ ProcessesAgree
    BY DEF IInv
  <1>1. ASSUME NEW r \in Requests, ClientStep(r) PROVE ZombiesHaveReapers'
    BY <1>0, <1>1 DEF ClientStep, Connect, SendRequest, ReadReply, ReadExit,
      Acknowledge, LoseStream, Die
  <1>2. ASSUME NEW r \in Requests, HandlerStep(r) PROVE ZombiesHaveReapers'
    <2>1. CASE Accept(r) \/ ReadRequest(r) \/ ReadEof(r) \/ SpawnFails(r)
      BY <1>0, <2>1 DEF Accept, ReadRequest, ReadEof, SpawnFails, CreateCgroup
    <2>2. CASE Spawn(r)
      <3>1. \A p \in zombie : p \in Pids \ Free /\ owner[p] # r
        BY <1>0, <2>2 DEF Spawn, ProcessesAgree, Started
      <3> QED
        BY <1>0, <2>2, <3>1 DEF Spawn, EnterCgroup, Free
    <2> QED
      BY <1>2, <2>1, <2>2 DEF HandlerStep
  <1>3. ASSUME NEW r \in Requests, TaskStep(r) PROVE ZombiesHaveReapers'
    <2>1. CASE ReapLeader(r) \/ AwaitLeader(r) \/ ReapOrphan(r)
      <3>1. \/ leader' = [leader EXCEPT ![r] = NoPid] /\ leader[r] \in zombie /\ Release(leader[r])
            \/ leader[r] = NoPid /\ UNCHANGED <<leader, owner, zombie>>
        BY <2>1 DEF ReapLeader, AwaitLeader, ReapOrphan
      <3>2. \A s \in Requests : s # r => task'[s] = task[s]
        BY <1>0, <2>1 DEF ReapLeader, AwaitLeader, ReapOrphan
      <3>3. CASE leader[r] \in zombie /\ Release(leader[r]) /\ leader' = [leader EXCEPT ![r] = NoPid]
        <4>1. owner[leader[r]] = r /\ leader[r] \in Pids
          BY <1>0, <3>3
        <4>2. /\ zombie' = zombie \ {leader[r]}
              /\ \A p \in Pids \ {leader[r]} : owner'[p] = owner[p]
              /\ leader'[r] = NoPid /\ \A s \in Requests : s # r => leader'[s] = leader[s]
          BY <1>0, <3>3 DEF Release
        <4>3. \A p \in zombie' : owner'[p] = owner[p] /\ owner[p] # r /\ owner[p] \in Requests
          BY <1>0, <4>1, <4>2 DEF ProcessesAgree, Free
        <4>4. \A s \in Requests : s # r => leader'[s] # leader[r]
          BY <4>1, <4>2
        <4> QED
          BY <1>0, <3>2, <4>2, <4>3, <4>4
      <3>4. CASE leader[r] = NoPid /\ UNCHANGED <<leader, owner, zombie>>
        BY <1>0, <3>2, <3>4
      <3> QED
        BY <3>1, <3>3, <3>4
    <2>2. CASE JoinDone(r) \/ JoinFails(r) \/ ReadMembers(r) \/ HelperFails(r)
      BY <1>0, <2>2 DEF JoinDone, JoinFails, ReadMembers, HelperFails, PassOver, TasksAgree
    <2>3. CASE OpenPidfd(r) \/ CheckMembership(r) \/ SendTerm(r)
      BY <1>0, <2>3 DEF OpenPidfd, CheckMembership, SendTerm
    <2>4. CASE Kill(r) \/ Retire(r)
      BY <1>0, <2>4 DEF Kill, Retire, PassOver
    <2> QED
      BY <1>3, <2>1, <2>2, <2>3, <2>4 DEF TaskStep
  <1>4. ASSUME NEW r \in Requests, IoStep(r) \/ IoWriteFails(r) PROVE ZombiesHaveReapers'
    BY <1>0, <1>4 DEF IoStep, IoConnect, IoFinish, IoWriteExit, IoWriteFails,
      IoStopClosed
  <1>5. ASSUME NEW p \in Pids, ProcessStep(p) PROVE ZombiesHaveReapers'
    <2>1. CASE Fork(p)
      BY <1>0, <2>1 DEF Fork, Free, ProcessesAgree
    <2>2. CASE CloseOutput(p)
      BY <1>0, <2>2 DEF CloseOutput
    <2>3. CASE Exit(p)
      BY <1>0, <2>3 DEF Exit, Release, Live
    <2> QED
      BY <1>5, <2>1, <2>2, <2>3 DEF ProcessStep
  <1>6. CASE UNCHANGED vars
    BY <1>6 DEF vars
  <1> QED
    BY <1>1, <1>2, <1>3, <1>4, <1>5, <1>6 DEF Next

\* A task never reaps a stranger that was given its child's identifier, and
\* every zombie has somebody who will reap it (wait_for_child; a child dropped
\* with its task goes to the runtime).
THEOREM EveryZombieIsReaped == Spec => []ZombiesHaveReapers
  <1>1. Init => ZombiesHaveReapers
    BY DEF Init, ZombiesHaveReapers
  <1> QED
    BY <1>1, ZombiesStep, Invariance, PTL DEF Spec

\* The wait after cgroup.kill is for a process that is gone or dying: the
\* safety half of the teardown's progress (terminate).
THEOREM KilledChildEnds == Spec => []WaitEnds
  <1>1. IInv /\ ZombiesHaveReapers => WaitEnds
    <2> SUFFICES ASSUME IInv, ZombiesHaveReapers, NEW r \in Requests,
                        task[r] = "killed", leader[r] # NoPid, leader[r] \notin zombie
                 PROVE  leader[r] \in doomed
      BY DEF WaitEnds
    <2>1. r \in Interactive /\ leader[r] \in Pids /\ owner[leader[r]] = r
      BY DEF IInv, TypeOK, TasksAgree, ZombiesHaveReapers
    <2>2. leader[r] \in Members(r)
      BY <2>1, SentinelAssumption DEF Members, Live
    <2> QED
      BY <2>1, <2>2 DEF IInv, NothingSurvives
  <1> QED
    BY <1>1, Invariance, EveryZombieIsReaped, PTL
=============================================================================

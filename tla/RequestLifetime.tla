--------------------------- MODULE RequestLifetime ---------------------------
(***************************************************************************)
(* The life of a request in the guest worker, from the connection a client *)
(* makes to the removal of the cgroup that holds its processes.  Three     *)
(* kinds of process meet here: the host client (launch.rs), the guest      *)
(* worker with one task and one I/O thread per request (server_worker.rs,  *)
(* request_cgroup.rs), and the request's own processes, which fork, close  *)
(* their output and exit when they like, and whose process identifiers the *)
(* kernel hands out again.                                                 *)
(***************************************************************************)
EXTENDS Naturals, FiniteSets

CONSTANTS
    Requests,   \* the connections clients may make to the worker
    Probes,     \* the readiness probes among them: no I/O port, no cgroup
    Pids,       \* the guest's process identifiers, reused once freed
    NoReq,      \* the owner of an identifier that is free
    NoPid       \* "no process"

ASSUME ProbesAssumption == Probes \subseteq Requests
ASSUME SentinelAssumption == NoReq \notin Requests /\ NoPid \notin Pids

VARIABLES
    client,     \* where the host client of each request is
    sent,       \* requests whose text is on the connection, read or not
    task,       \* where the worker's handler or task of each request is
    cgroups,    \* requests whose cgroup directory exists
    leader,     \* the child the task has not reaped yet
    io,         \* where the guest I/O thread of each request is
    code,       \* requests whose exit code is in the stop pipe
    owner,      \* the request whose tree each process belongs to
    out,        \* live processes that hold the request's stdout or stderr
    zombie,     \* exited leaders whose identifier is still taken
    termed,     \* live processes that were sent SIGTERM
    doomed,     \* live processes with SIGKILL pending
    todo,       \* the SIGTERM pass: identifiers read and not handled yet
    cur,        \* the SIGTERM pass: the identifier a pidfd was opened for
    pinned,     \* requests whose open pidfd still refers to a process
    checked     \* requests that found cur in their own cgroup

clientVars == <<client, sent>>
procVars == <<owner, out, zombie, termed, doomed>>
passVars == <<todo, cur, pinned, checked>>
vars == <<client, sent, task, cgroups, leader, io, code,
          owner, out, zombie, termed, doomed, todo, cur, pinned, checked>>

Interactive == Requests \ Probes

ClientState == {"idle", "connected", "sent", "attached", "lost",
                "exiting", "done", "failed", "dead"}
TaskState == {"none", "reading", "starting", "join", "term", "pass",
              "killed", "drain", "retired", "refused", "abandoned"}
IoState == {"none", "start", "pump", "finished", "exited", "unread", "broken"}

TypeOK ==
    /\ client \in [Requests -> ClientState]
    /\ sent \subseteq Requests
    /\ task \in [Requests -> TaskState]
    /\ cgroups \subseteq Interactive
    /\ leader \in [Requests -> Pids \cup {NoPid}]
    /\ io \in [Requests -> IoState]
    /\ code \subseteq Requests
    /\ owner \in [Pids -> Requests \cup {NoReq}]
    /\ out \subseteq Pids
    /\ zombie \subseteq Pids
    /\ termed \subseteq Pids
    /\ doomed \subseteq Pids
    /\ todo \in [Requests -> SUBSET Pids]
    /\ cur \in [Requests -> Pids \cup {NoPid}]
    /\ pinned \subseteq Requests
    /\ checked \subseteq Requests

Init ==
    /\ client = [r \in Requests |-> "idle"]
    /\ sent = {}
    /\ task = [r \in Requests |-> "none"]
    /\ cgroups = {}
    /\ leader = [r \in Requests |-> NoPid]
    /\ io = [r \in Requests |-> "none"]
    /\ code = {}
    /\ owner = [p \in Pids |-> NoReq]
    /\ out = {}
    /\ zombie = {}
    /\ termed = {}
    /\ doomed = {}
    /\ todo = [r \in Requests |-> {}]
    /\ cur = [r \in Requests |-> NoPid]
    /\ pinned = {}
    /\ checked = {}

Free == {p \in Pids : owner[p] = NoReq}
Live == {p \in Pids : owner[p] # NoReq /\ p \notin zombie}

\* The processes cgroup.procs lists, and cgroup.kill and cgroup.events see:
\* a zombie is in none of them.
Members(r) == {p \in Live : owner[p] = r}

\* Both ends of a dead client's connections are closed; "lost" has closed the
\* I/O stream and not the request connection.
Hangup(r) == client[r] \in {"failed", "dead"}
StreamOpen(r) == client[r] \in {"sent", "attached"}
IoDone(r) == io[r] \in {"finished", "exited", "unread"}
Handling == {r \in Requests : task[r] \in {"reading", "starting"}}

---------------------------------------------------------------------------
(* The host client: request_launch, run_io_host, the acknowledgement.      *)

Connect(r) ==
    /\ client[r] = "idle"
    /\ client' = [client EXCEPT ![r] = "connected"]
    /\ UNCHANGED <<sent, task, cgroups, leader, io, code, procVars, passVars>>

SendRequest(r) ==
    /\ client[r] = "connected"
    /\ client' = [client EXCEPT ![r] = "sent"]
    /\ sent' = sent \cup {r}
    /\ UNCHANGED <<task, cgroups, leader, io, code, procVars, passVars>>

\* The reply is "OK" once the child runs; anything else, an end of file
\* included, is an error.  A probe has its answer and drops the connection.
ReadReply(r) ==
    /\ client[r] = "sent"
    /\ \/ /\ task[r] \notin {"none", "reading", "starting", "refused"}
          /\ client' = [client EXCEPT ![r] =
                            IF r \in Probes THEN "done" ELSE "attached"]
       \/ /\ task[r] = "refused"
          /\ client' = [client EXCEPT ![r] = "failed"]
    /\ UNCHANGED <<sent, task, cgroups, leader, io, code, procVars, passVars>>

\* CMD_EXIT is the last packet of the stream.
ReadExit(r) ==
    /\ client[r] = "attached"
    /\ io[r] = "exited"
    /\ client' = [client EXCEPT ![r] = "exiting"]
    /\ UNCHANGED <<sent, task, cgroups, leader, io, code, procVars, passVars>>

Acknowledge(r) ==
    /\ client[r] = "exiting"
    /\ client' = [client EXCEPT ![r] = "done"]
    /\ UNCHANGED <<sent, task, cgroups, leader, io, code, procVars, passVars>>

\* run_io_host returns an error (its own stdout is gone, say): the stream is
\* closed first, the request connection when the process ends.
LoseStream(r) ==
    /\ client[r] = "attached"
    /\ io[r] # "start"
    /\ client' = [client EXCEPT ![r] = "lost"]
    /\ UNCHANGED <<sent, task, cgroups, leader, io, code, procVars, passVars>>

Die(r) ==
    /\ client[r] \in {"connected", "sent", "attached", "lost", "exiting"}
    /\ client' = [client EXCEPT ![r] = "dead"]
    /\ UNCHANGED <<sent, task, cgroups, leader, io, code, procVars, passVars>>

---------------------------------------------------------------------------
(* The worker's accept loop.  It awaits handle_connection inline, so one   *)
(* connection is handled at a time.                                        *)

Accept(r) ==
    /\ client[r] # "idle"
    /\ task[r] = "none"
    /\ Handling = {}
    /\ task' = [task EXCEPT ![r] = "reading"]
    /\ UNCHANGED <<clientVars, cgroups, leader, io, code, procVars, passVars>>

\* The text of a request ends with EOM; it may arrive after its client's death.
RequestArrived(r) == r \in sent

\* Only a request with a port gets a cgroup.
CreateCgroup(r) == cgroups' = cgroups \cup ({r} \ Probes)

\* Mutant: every request gets a cgroup, a probe too.
ReadRequest_AlwaysGrouped(r) ==
    /\ task[r] = "reading"
    /\ RequestArrived(r)
    /\ task' = [task EXCEPT ![r] = "starting"]
    /\ cgroups' = cgroups \cup {r}
    /\ UNCHANGED <<clientVars, leader, io, code, procVars, passVars>>

\* Mutant: a request whose cgroup cannot be made is launched without one.
ReadRequest_Untracked(r) ==
    /\ task[r] = "reading"
    /\ RequestArrived(r)
    /\ task' = [task EXCEPT ![r] = "starting"]
    /\ cgroups' \in {cgroups, cgroups \cup ({r} \ Probes)}
    /\ UNCHANGED <<clientVars, leader, io, code, procVars, passVars>>

\* "Cannot establish request cgroup; refusing untracked launch"
ReadRequest(r) ==
    /\ task[r] = "reading"
    /\ RequestArrived(r)
    /\ \/ /\ task' = [task EXCEPT ![r] = "starting"]
          /\ CreateCgroup(r)
       \/ /\ r \notin Probes
          /\ task' = [task EXCEPT ![r] = "refused"]
          /\ UNCHANGED cgroups
    /\ UNCHANGED <<clientVars, leader, io, code, procVars, passVars>>

\* Mutant: a connection closed before its request keeps the handler waiting.
ReadEof_KeepsReading(r) == FALSE

ReadEof(r) ==
    /\ task[r] = "reading"
    /\ ~RequestArrived(r)
    /\ Hangup(r)
    /\ task' = [task EXCEPT ![r] = "refused"]
    /\ UNCHANGED <<clientVars, cgroups, leader, io, code, procVars, passVars>>

\* The child enters the cgroup before it execs, hence before it can fork.
EnterCgroup(p, r) == owner' = [owner EXCEPT ![p] = r]

Spawn(r) ==
    /\ task[r] = "starting"
    /\ \E p \in Free :
          /\ leader' = [leader EXCEPT ![r] = p]
          /\ EnterCgroup(p, r)
          /\ out' = IF r \in Probes THEN out ELSE out \cup {p}
    /\ task' = [task EXCEPT ![r] = "join"]
    /\ io' = [io EXCEPT ![r] = IF r \in Probes THEN "none" ELSE "start"]
    /\ UNCHANGED <<clientVars, cgroups, code, zombie, termed, doomed, passVars>>

\* The removal of the unused cgroup needs a root helper, which may fail too.
SpawnFails(r) ==
    /\ task[r] = "starting"
    /\ task' = [task EXCEPT ![r] = "refused"]
    /\ cgroups' \in {cgroups \ {r}, cgroups}
    /\ UNCHANGED <<clientVars, leader, io, code, procVars, passVars>>

---------------------------------------------------------------------------
(* The request's task: wait_for_child.                                     *)

\* Freeing an identifier leaves every pidfd opened for it without a process.
Release(p) ==
    /\ owner' = [owner EXCEPT ![p] = NoReq]
    /\ out' = out \ {p}
    /\ zombie' = zombie \ {p}
    /\ termed' = termed \ {p}
    /\ doomed' = doomed \ {p}
    /\ pinned' = pinned \ {r \in Requests : cur[r] = p}
    /\ UNCHANGED <<todo, cur, checked>>

\* The first half of "complete": reap the child and put its code in the stop
\* pipe, an error when the I/O thread has closed the other end.  A probe's
\* task is over with its child.
ReapLeader(r) ==
    /\ task[r] = "join"
    /\ leader[r] \in zombie
    /\ leader' = [leader EXCEPT ![r] = NoPid]
    /\ Release(leader[r])
    /\ \/ /\ r \in Probes
          /\ task' = [task EXCEPT ![r] = "retired"]
          /\ UNCHANGED code
       \/ /\ r \notin Probes
          /\ io[r] # "broken"
          /\ code' = code \cup {r}
          /\ UNCHANGED task
       \/ /\ r \notin Probes
          /\ io[r] = "broken"
          /\ task' = [task EXCEPT ![r] = "term"]
          /\ UNCHANGED code
    /\ UNCHANGED <<clientVars, cgroups, io>>

\* Mutant: drained output is taken for a normal end, without the byte.
JoinDone_Unacknowledged(r) ==
    /\ task[r] = "join"
    /\ r \in code
    /\ IoDone(r)
    /\ task' = [task EXCEPT ![r] = "drain"]
    /\ UNCHANGED <<clientVars, cgroups, leader, io, code, procVars, passVars>>

\* try_join: output drained and the acknowledgement read.
JoinDone(r) ==
    /\ task[r] = "join"
    /\ r \in code
    /\ IoDone(r)
    /\ client[r] = "done"
    /\ task' = [task EXCEPT ![r] = "drain"]
    /\ UNCHANGED <<clientVars, cgroups, leader, io, code, procVars, passVars>>

\* Mutant: only the I/O thread's failure ends the wait, no end of file.
JoinFails_IgnoresEof(r) ==
    /\ task[r] = "join"
    /\ r \in code /\ io[r] = "broken"
    /\ task' = [task EXCEPT ![r] = "term"]
    /\ UNCHANGED <<clientVars, cgroups, leader, io, code, procVars, passVars>>

\* try_join: an end of file instead of the acknowledgement, or an I/O thread
\* that ended without reporting drained output.
JoinFails(r) ==
    /\ task[r] = "join"
    /\ r \notin Probes
    /\ \/ Hangup(r)
       \/ r \in code /\ io[r] = "broken"
    /\ task' = [task EXCEPT ![r] = "term"]
    /\ UNCHANGED <<clientVars, cgroups, leader, io, code, procVars, passVars>>

\* signal_members reads cgroup.procs; a failure is only logged.
ReadMembers(r) ==
    /\ task[r] = "term"
    /\ task' = [task EXCEPT ![r] = "pass"]
    /\ \E listed \in {Members(r), {}} : todo' = [todo EXCEPT ![r] = listed]
    /\ UNCHANGED <<clientVars, cgroups, leader, io, code, procVars,
                   cur, pinned, checked>>

\* pidfd_open pins whatever process has the identifier now.
OpenPidfd(r) ==
    /\ task[r] = "pass"
    /\ cur[r] = NoPid
    /\ \E p \in todo[r] :
          /\ todo' = [todo EXCEPT ![r] = @ \ {p}]
          /\ \/ /\ p \notin Free
                /\ cur' = [cur EXCEPT ![r] = p]
                /\ pinned' = pinned \cup {r}
             \/ UNCHANGED <<cur, pinned>>
    /\ UNCHANGED <<clientVars, task, cgroups, leader, io, code, procVars, checked>>

\* Mutant: the pinned process is taken for a member.
CheckMembership_Trusts(r) ==
    /\ cur[r] # NoPid
    /\ r \notin checked
    /\ checked' = checked \cup {r}
    /\ UNCHANGED <<clientVars, task, cgroups, leader, io, code, procVars,
                   todo, cur, pinned>>

\* /proc/<pid>/cgroup names the group of whatever process has the identifier
\* now, pinned or not.
CheckMembership(r) ==
    /\ cur[r] # NoPid
    /\ r \notin checked
    /\ \/ /\ owner[cur[r]] = r
          /\ checked' = checked \cup {r}
          /\ UNCHANGED <<cur, pinned>>
       \/ /\ owner[cur[r]] # r
          /\ cur' = [cur EXCEPT ![r] = NoPid]
          /\ pinned' = pinned \ {r}
          /\ UNCHANGED checked
    /\ UNCHANGED <<clientVars, task, cgroups, leader, io, code, procVars, todo>>

\* Mutant: the signal goes to the identifier, not to the pidfd.
SendTerm_ByPid(r) ==
    /\ r \in checked
    /\ termed' = termed \cup ({cur[r]} \cap Live)
    /\ cur' = [cur EXCEPT ![r] = NoPid]
    /\ pinned' = pinned \ {r}
    /\ checked' = checked \ {r}
    /\ UNCHANGED <<clientVars, task, cgroups, leader, io, code,
                   owner, out, zombie, doomed, todo>>

\* A pidfd whose process is gone takes no signal.
SendTerm(r) ==
    /\ r \in checked
    /\ termed' = IF r \in pinned /\ cur[r] \in Live
                 THEN termed \cup {cur[r]} ELSE termed
    /\ cur' = [cur EXCEPT ![r] = NoPid]
    /\ pinned' = pinned \ {r}
    /\ checked' = checked \ {r}
    /\ UNCHANGED <<clientVars, task, cgroups, leader, io, code,
                   owner, out, zombie, doomed, todo>>

PassOver(r) == task[r] = "pass" /\ todo[r] = {} /\ cur[r] = NoPid

\* Writing to cgroup.kill dooms the whole group in one step.
CgroupKill(r) == doomed' = doomed \cup Members(r)

\* Mutant: SIGKILL goes to the processes of the SIGTERM pass, not to the group.
Kill_ListedOnly(r) ==
    /\ PassOver(r)
    /\ task' = [task EXCEPT ![r] = "killed"]
    /\ doomed' = doomed \cup (Members(r) \cap termed)
    /\ UNCHANGED <<clientVars, cgroups, leader, io, code,
                   owner, out, zombie, termed, passVars>>

\* terminate, after the grace period.
Kill(r) ==
    /\ PassOver(r)
    /\ task' = [task EXCEPT ![r] = "killed"]
    /\ CgroupKill(r)
    /\ UNCHANGED <<clientVars, cgroups, leader, io, code,
                   owner, out, zombie, termed, passVars>>

\* child.wait() after the kill; the child may have been reaped before.
AwaitLeader(r) ==
    /\ task[r] = "killed"
    /\ task' = [task EXCEPT ![r] = "drain"]
    /\ \/ /\ leader[r] = NoPid
          /\ UNCHANGED <<leader, procVars, passVars>>
       \/ /\ leader[r] \in zombie
          /\ leader' = [leader EXCEPT ![r] = NoPid]
          /\ Release(leader[r])
    /\ UNCHANGED <<clientVars, cgroups, io, code>>

\* remove_when_empty: populated 0, then rmdir.
Retire(r) ==
    /\ task[r] = "drain"
    /\ Members(r) = {}
    /\ task' = [task EXCEPT ![r] = "retired"]
    /\ cgroups' = cgroups \ {r}
    /\ UNCHANGED <<clientVars, leader, io, code, procVars, passVars>>

\* The root helper behind cgroup.kill and rmdir cannot be forked: the task
\* returns the error, and nobody comes back to this request.
HelperFails(r) ==
    /\ PassOver(r) \/ (task[r] = "drain" /\ Members(r) = {})
    /\ task' = [task EXCEPT ![r] = "abandoned"]
    /\ UNCHANGED <<clientVars, cgroups, leader, io, code, procVars, passVars>>

\* A child dropped with its task is reaped by the runtime's orphan queue.
ReapOrphan(r) ==
    /\ task[r] = "abandoned"
    /\ leader[r] \in zombie
    /\ leader' = [leader EXCEPT ![r] = NoPid]
    /\ Release(leader[r])
    /\ UNCHANGED <<clientVars, task, cgroups, io, code>>

---------------------------------------------------------------------------
(* The request's I/O thread: run_io_guest.                                 *)

IoConnect(r) ==
    /\ io[r] = "start"
    /\ io' = [io EXCEPT ![r] = IF StreamOpen(r) THEN "pump" ELSE "broken"]
    /\ UNCHANGED <<clientVars, task, cgroups, leader, code, procVars, passVars>>

\* Mutant: the exit code alone ends the output.
IoFinish_Undrained(r) ==
    /\ io[r] = "pump"
    /\ r \in code
    /\ io' = [io EXCEPT ![r] = "finished"]
    /\ UNCHANGED <<clientVars, task, cgroups, leader, code, procVars, passVars>>

\* The code is known and stdout and stderr are at their end.
IoFinish(r) ==
    /\ io[r] = "pump"
    /\ r \in code
    /\ Members(r) \cap out = {}
    /\ io' = [io EXCEPT ![r] = "finished"]
    /\ UNCHANGED <<clientVars, task, cgroups, leader, code, procVars, passVars>>

IoWriteExit(r) ==
    /\ io[r] = "finished"
    /\ io' = [io EXCEPT ![r] = IF StreamOpen(r) THEN "exited" ELSE "unread"]
    /\ UNCHANGED <<clientVars, task, cgroups, leader, code, procVars, passVars>>

\* Output cannot be written to a client that closed the stream.
IoWriteFails(r) ==
    /\ io[r] = "pump"
    /\ ~StreamOpen(r)
    /\ io' = [io EXCEPT ![r] = "broken"]
    /\ UNCHANGED <<clientVars, task, cgroups, leader, code, procVars, passVars>>

\* Mutant: the closed stop pipe is not an event.
IoStopClosed_Ignored(r) == FALSE

\* The task gave up before the code was known: "child status channel closed".
IoStopClosed(r) ==
    /\ io[r] = "pump"
    /\ r \notin code
    /\ task[r] # "join"
    /\ io' = [io EXCEPT ![r] = "broken"]
    /\ UNCHANGED <<clientVars, task, cgroups, leader, code, procVars, passVars>>

---------------------------------------------------------------------------
(* The request's processes.                                                *)

\* A child inherits the cgroup whatever session or group it moves to, and
\* the descriptors its parent still holds.
Fork(p) ==
    /\ p \in Live \ doomed
    /\ owner[p] \notin Probes
    /\ \E q \in Free :
          /\ owner' = [owner EXCEPT ![q] = owner[p]]
          /\ out' = IF p \in out THEN out \cup {q} ELSE out
    /\ UNCHANGED <<clientVars, task, cgroups, leader, io, code,
                   zombie, termed, doomed, passVars>>

CloseOutput(p) ==
    /\ p \in out \ doomed
    /\ out' = out \ {p}
    /\ UNCHANGED <<clientVars, task, cgroups, leader, io, code,
                   owner, zombie, termed, doomed, passVars>>

\* The leader waits for its task to reap it; init reaps the others.
Exit(p) ==
    /\ p \in Live
    /\ \/ /\ leader[owner[p]] = p
          /\ zombie' = zombie \cup {p}
          /\ out' = out \ {p}
          /\ termed' = termed \ {p}
          /\ doomed' = doomed \ {p}
          /\ UNCHANGED <<owner, passVars>>
       \/ leader[owner[p]] # p /\ Release(p)
    /\ UNCHANGED <<clientVars, task, cgroups, leader, io, code>>

---------------------------------------------------------------------------
ClientStep(r) ==
    \/ Connect(r) \/ SendRequest(r) \/ ReadReply(r) \/ ReadExit(r)
    \/ Acknowledge(r) \/ LoseStream(r) \/ Die(r)

HandlerStep(r) ==
    Accept(r) \/ ReadRequest(r) \/ ReadEof(r) \/ Spawn(r) \/ SpawnFails(r)

TaskStep(r) ==
    \/ ReapLeader(r) \/ JoinDone(r) \/ JoinFails(r) \/ ReadMembers(r)
    \/ OpenPidfd(r) \/ CheckMembership(r) \/ SendTerm(r) \/ Kill(r)
    \/ AwaitLeader(r) \/ Retire(r) \/ HelperFails(r) \/ ReapOrphan(r)

IoStep(r) ==
    IoConnect(r) \/ IoFinish(r) \/ IoWriteExit(r) \/ IoStopClosed(r)

ProcessStep(p) == Fork(p) \/ CloseOutput(p) \/ Exit(p)

Next ==
    \/ \E r \in Requests :
          ClientStep(r) \/ HandlerStep(r) \/ TaskStep(r) \/ IoStep(r)
             \/ IoWriteFails(r)
    \/ \E p \in Pids : ProcessStep(p)

Spec == Init /\ [][Next]_vars

(* The worker's handler, tasks and threads are scheduled, and a process    *)
(* with SIGKILL pending dies.  A client that connected sends its request   *)
(* or goes away; no other step of a client or of an application is         *)
(* promised.                                                               *)
Fairness ==
    /\ \A r \in Requests :
          /\ WF_vars(HandlerStep(r))
          /\ WF_vars(TaskStep(r))
          /\ WF_vars(IoStep(r))
          /\ WF_vars(client[r] = "connected" /\ (SendRequest(r) \/ Die(r)))
    /\ \A p \in Pids : WF_vars(p \in doomed /\ Exit(p))

FairSpec == Spec /\ Fairness

---------------------------------------------------------------------------
(* Safety.                                                                 *)

Gone(r) == client[r] \in {"lost", "dead"}

\* SIGTERM and SIGKILL reach only processes of a request whose own client went
\* away before it acknowledged the exit: never a probe, never another request
\* that was given the identifier meanwhile, never what an acknowledged request
\* left running (request_cgroup.rs, signal_members and terminate).
OnlyCancelledAreSignalled ==
    \A p \in termed \cup doomed : owner[p] \in Interactive /\ Gone(owner[p])

\* When a client has read CMD_EXIT, the command was reaped, its code reported,
\* and no process of the request can write output any more (run_io_guest).
ExitIsFinal ==
    \A r \in Interactive :
        client[r] \in {"exiting", "done"} =>
            /\ leader[r] = NoPid
            /\ r \in code
            /\ Members(r) \cap out = {}

\* Every live process of an interactive request is in a cgroup that exists, and
\* a task waits for it, is taking it down or waits for its end ("refusing
\* untracked launch").  The one exception is a root helper that failed: its task
\* has returned, nobody comes back for what is left in the cgroup, and this
\* happens only to a request whose client went away (as_root, wait_for_child).
NoStrays ==
    \A p \in Live :
        owner[p] \in Interactive =>
            /\ owner[p] \in cgroups
            /\ \/ task[owner[p]] \in {"join", "term", "pass", "killed", "drain"}
               \/ task[owner[p]] = "abandoned" /\ Gone(owner[p])

\* Once cgroup.kill is written no process of the request is without SIGKILL,
\* whatever forked during the grace period (terminate).
NothingSurvives ==
    \A r \in Interactive :
        task[r] = "killed" \/ (task[r] = "drain" /\ client[r] # "done")
            => Members(r) \subseteq doomed

---------------------------------------------------------------------------
(* The inductive invariant: what the four properties above rest on.        *)

Started(r) == task[r] \notin {"none", "reading", "starting", "refused"}

\* Only a request that was sent is started, and how a client ends tells where
\* its request and its I/O thread are.
ClientsAgree ==
    \A r \in Requests :
        /\ r \in sent => client[r] \notin {"idle", "connected"}
        /\ task[r] = "starting" \/ Started(r) => r \in sent
        /\ client[r] = "failed" => task[r] = "refused"
        /\ client[r] \in {"exiting", "done"} /\ r \in Interactive => io[r] = "exited"
        /\ io[r] = "broken" => Gone(r)

\* Only an interactive request has a thread, a code or a teardown, and a task
\* leaves its join for a client that is gone or one that acknowledged.
TasksAgree ==
    \A r \in Requests :
        /\ io[r] # "none" \/ r \in code => r \in Interactive /\ Started(r)
        /\ Started(r) /\ task[r] # "join" /\ r \in Interactive
              => Gone(r) \/ client[r] = "done"
        /\ task[r] \in {"term", "pass", "killed"} => r \in Interactive /\ Gone(r)
        /\ task[r] \in {"drain", "abandoned"} => r \in Interactive
        /\ r \in code => leader[r] = NoPid
        /\ task[r] = "starting" /\ r \in Interactive => r \in cgroups
        /\ IoDone(r) => r \in code /\ Members(r) \cap out = {}

\* Every identifier in use belongs to a started request.
ProcessesAgree ==
    /\ out \cup termed \cup doomed \subseteq Live
    /\ zombie \cap Free = {}
    /\ \A p \in Pids \ Free : Started(owner[p])

\* A pidfd that passed the membership check and still has its process refers
\* to a process of the request.
PassAgrees ==
    \A r \in Requests :
        /\ cur[r] # NoPid => task[r] = "pass"
        /\ r \in pinned \cup checked => cur[r] # NoPid
        /\ r \in pinned => owner[cur[r]] # NoReq
        /\ r \in pinned \cap checked => owner[cur[r]] = r

\* The four safety properties with the agreement of clients, tasks, threads
\* and processes that makes them inductive.
IInv ==
    /\ TypeOK
    /\ ClientsAgree
    /\ TasksAgree
    /\ ProcessesAgree
    /\ PassAgrees
    /\ OnlyCancelledAreSignalled
    /\ NoStrays
    /\ NothingSurvives

---------------------------------------------------------------------------
(* Liveness, and the promise.                                              *)

\* A client that goes away while its command runs has the request retired,
\* with no process left, unless the guest cannot fork a root helper.
GoneIsRetired ==
    \A r \in Interactive :
        (client[r] = "dead" /\ task[r] = "join")
            ~> (task[r] = "retired" /\ Members(r) = {}) \/ task[r] = "abandoned"

\* The I/O thread of a client that went away ends: no worker thread is leaked.
GoneEndsThread ==
    \A r \in Interactive :
        (client[r] = "dead" /\ io[r] # "none")
            ~> io[r] \in {"exited", "unread", "broken"} \/ task[r] = "abandoned"

\* A request that was sent is handled, whatever the other clients did between
\* connecting and sending: the accept loop handles one connection at a time.
SentIsHandled ==
    \A r \in Requests :
        client[r] = "sent" ~> task[r] \notin {"none", "reading", "starting"}

PromisePhase(r) ==
    CASE task[r] \in {"none", "reading", "starting"} -> "new"
      [] task[r] = "join" -> "running"
      [] task[r] \in {"term", "pass"} -> "cancelling"
      [] task[r] = "drain" /\ client[r] = "done" -> "finishing"
      [] task[r] = "killed" \/ (task[r] = "drain" /\ client[r] # "done") -> "killed"
      [] task[r] \in {"retired", "refused"} -> "over"
      [] task[r] = "abandoned" -> "abandoned"

Promise == INSTANCE RequestPromise WITH
    Requests <- Interactive,
    phase <- [r \in Interactive |-> PromisePhase(r)],
    populated <- {r \in Interactive : Members(r) # {}},
    talking <- {r \in Interactive : Members(r) \cap out # {}}

\* The worker implements the promise of docs/design.md, fairness included.
KeepsPromise == Promise!FairSpec
=============================================================================

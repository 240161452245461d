---------------------------- MODULE InteractiveIO ----------------------------
(***************************************************************************)
(* The bulk I/O of one interactive request.  On the host, the main loop    *)
(* (run_io_host) reads packets and window changes while a feeder thread    *)
(* (forward_stdin) writes standard input; a mutex keeps their packets      *)
(* apart.  In the guest, one thread (forward_input) feeds the child's      *)
(* standard input and another (run_io_guest) pumps its output and reports  *)
(* its exit.  Sockets and pipes are bounded, so every write may block.     *)
(***************************************************************************)
EXTENDS Naturals, Sequences

CONSTANTS
    Winches,    \* a bound on the window changes
    Input,      \* how many chunks the host's standard input has
    Output,     \* a bound on the chunks written to each output stream
    SocketCap,  \* packets, or halves of packets, a socket holds
    PipeCap     \* chunks a pipe holds

ASSUME BoundsAssumption ==
    /\ Winches \in Nat /\ Input \in Nat /\ Output \in Nat
    /\ SocketCap \in Nat \ {0} /\ PipeCap \in Nat \ {0}

VARIABLES
    tty,        \* a terminal: no stderr of its own, and window changes
    main,       \* the host's main loop
    feeder,     \* the host's standard input thread
    chunk,      \* what the feeder is to write: "data" or "eof"
    mutex,      \* the holder of the writer's mutex
    inputLeft,  \* chunks the host's standard input still has
    winchesLeft,
    winched,    \* is a SIGWINCH pending in the signalfd?
    toGuest,    \* the socket from the host to the guest
    toHost,     \* the socket from the guest to the host
    input,      \* the guest's forward_input thread
    stdin,      \* does it still have the child's standard input?
    stdinPipe,  \* chunks in the child's standard input
    reader,     \* does a process hold the other end of it?
    pump,       \* the guest's run_io_guest thread
    opened,     \* the streams the pump has not seen the end of
    pipe,       \* chunks in each output stream
    writers,    \* the streams a process of the request holds
    leader,     \* is the child running?
    code,       \* its exit code: "none", in the "stop" pipe, or "known"
    wrote, got  \* chunks written to, and received from, each stream

hostVars == <<main, feeder, chunk, mutex, inputLeft, winchesLeft, winched>>
inputVars == <<input, stdin, stdinPipe, reader>>
pumpVars == <<pump, opened, code>>
childVars == <<pipe, writers, leader, wrote>>
vars == <<tty, hostVars, toGuest, toHost, inputVars, pumpVars, childVars, got>>

Streams == {"out", "err"}
Used == IF tty THEN {"out"} ELSE Streams

TypeOK ==
    /\ tty \in BOOLEAN
    /\ main \in {"poll", "lock", "size", "body", "done", "failed"}
    /\ feeder \in {"read", "lock", "head", "body", "ended"}
    /\ chunk \in {"data", "eof"}
    /\ mutex \in {"free", "main", "feeder"}
    /\ inputLeft \in 0 .. Input
    /\ winchesLeft \in 0 .. Winches
    /\ winched \in BOOLEAN
    /\ toGuest \in Seq({"data", "eof", "size", "body"})
    /\ toHost \in Seq(Streams \cup {"exit"})
    /\ Len(toGuest) <= SocketCap
    /\ Len(toHost) <= SocketCap
    /\ input \in {"read", "data", "size", "write", "error", "ended"}
    /\ stdin \in BOOLEAN
    /\ stdinPipe \in 0 .. PipeCap
    /\ reader \in BOOLEAN
    /\ pump \in {"poll", "exit", "ended"} \cup Streams
    /\ opened \subseteq Used
    /\ pipe \in [Streams -> 0 .. PipeCap]
    /\ writers \subseteq Used
    /\ leader \in BOOLEAN
    /\ code \in {"none", "stop", "known"}
    /\ wrote \in [Streams -> 0 .. Output]
    /\ got \in [Streams -> 0 .. Output]

OpenedAtStart == Used

Init ==
    /\ tty \in BOOLEAN
    /\ main = IF tty THEN "size" ELSE "poll"
    /\ feeder = "read"
    /\ chunk = "data"
    /\ mutex = IF tty THEN "main" ELSE "free"
    /\ inputLeft = Input
    /\ winchesLeft = IF tty THEN Winches ELSE 0
    /\ winched = FALSE
    /\ toGuest = <<>>
    /\ toHost = <<>>
    /\ input = "read"
    /\ stdin = TRUE
    /\ stdinPipe = 0
    /\ reader = TRUE
    /\ pump = "poll"
    /\ opened = OpenedAtStart
    /\ pipe = [s \in Streams |-> 0]
    /\ writers = Used
    /\ leader = TRUE
    /\ code = "none"
    /\ wrote = [s \in Streams |-> 0]
    /\ got = [s \in Streams |-> 0]

PutGuest(piece) ==
    /\ Len(toGuest) < SocketCap
    /\ toGuest' = Append(toGuest, piece)

PutHost(packet) ==
    /\ Len(toHost) < SocketCap
    /\ toHost' = Append(toHost, packet)

\* Both of the guest's threads have dropped the socket: a write to it fails, at
\* the latest when it would block.
GuestHungUp == input = "ended" /\ pump = "ended"

---------------------------------------------------------------------------
(* The host: the feeder thread.                                            *)

\* A read of standard input blocks as long as it likes.
FeederRead ==
    /\ feeder = "read"
    /\ feeder' = "lock"
    /\ IF inputLeft > 0
       THEN chunk' = "data" /\ inputLeft' = inputLeft - 1
       ELSE chunk' = "eof" /\ UNCHANGED inputLeft
    /\ UNCHANGED <<tty, main, mutex, winchesLeft, winched, toGuest, toHost,
                   inputVars, pumpVars, childVars, got>>

FeederLock ==
    /\ feeder = "lock"
    /\ mutex = "free"
    /\ mutex' = "feeder"
    /\ feeder' = "head"
    /\ UNCHANGED <<tty, main, chunk, inputLeft, winchesLeft, winched, toGuest, toHost,
                   inputVars, pumpVars, childVars, got>>

\* The command and the data are two writes under one lock; an end of file has
\* no data and ends the thread, and so does a write that fails.
FeederWrite ==
    /\ \/ /\ feeder = "head" /\ chunk = "data"
          /\ PutGuest("data")
          /\ feeder' = "body"
          /\ UNCHANGED mutex
       \/ /\ feeder = "body"
          /\ PutGuest("body")
          /\ feeder' = "read"
          /\ mutex' = "free"
       \/ /\ feeder = "head" /\ chunk = "eof"
          /\ PutGuest("eof")
          /\ feeder' = "ended"
          /\ mutex' = "free"
       \/ /\ feeder \in {"head", "body"}
          /\ GuestHungUp
          /\ feeder' = "ended"
          /\ mutex' = "free"
          /\ UNCHANGED toGuest
    /\ UNCHANGED <<tty, main, chunk, inputLeft, winchesLeft, winched, toHost,
                   inputVars, pumpVars, childVars, got>>

---------------------------------------------------------------------------
(* The host: the main loop.                                                *)

WindowChange ==
    /\ winchesLeft > 0
    /\ winchesLeft' = winchesLeft - 1
    /\ winched' = TRUE
    /\ UNCHANGED <<tty, main, feeder, chunk, mutex, inputLeft, toGuest, toHost,
                   inputVars, pumpVars, childVars, got>>

\* One packet: output goes to the host's own streams, CMD_EXIT ends the loop.
HostRead ==
    /\ main = "poll"
    /\ toHost # <<>>
    /\ toHost' = Tail(toHost)
    /\ \/ /\ Head(toHost) = "exit"
          /\ main' = "done"
          /\ UNCHANGED got
       \/ /\ Head(toHost) # "exit"
          /\ got' = [got EXCEPT ![Head(toHost)] = @ + 1]
          /\ UNCHANGED main
    /\ UNCHANGED <<tty, feeder, chunk, mutex, inputLeft, winchesLeft, winched, toGuest,
                   inputVars, pumpVars, childVars>>

HostWinch ==
    /\ main = "poll"
    /\ winched
    /\ winched' = FALSE
    /\ main' = "lock"
    /\ UNCHANGED <<tty, feeder, chunk, mutex, inputLeft, winchesLeft, toGuest, toHost,
                   inputVars, pumpVars, childVars, got>>

\* Mutant: update_size writes without taking the mutex.
HostLock_Unlocked ==
    /\ main = "lock"
    /\ main' = "size"
    /\ UNCHANGED <<tty, feeder, chunk, mutex, inputLeft, winchesLeft, winched, toGuest,
                   toHost, inputVars, pumpVars, childVars, got>>

HostLock ==
    /\ main = "lock"
    /\ mutex = "free"
    /\ mutex' = "main"
    /\ main' = "size"
    /\ UNCHANGED <<tty, feeder, chunk, inputLeft, winchesLeft, winched, toGuest, toHost,
                   inputVars, pumpVars, childVars, got>>

\* update_size: the command, then the new size; a write that fails ends the loop
\* with an error.
HostSize ==
    /\ \/ /\ main = "size"
          /\ PutGuest("size")
          /\ main' = "body"
          /\ UNCHANGED mutex
       \/ /\ main = "body"
          /\ PutGuest("body")
          /\ main' = "poll"
          /\ mutex' = IF mutex = "main" THEN "free" ELSE mutex
       \/ /\ main \in {"size", "body"}
          /\ GuestHungUp
          /\ main' = "failed"
          /\ mutex' = IF mutex = "main" THEN "free" ELSE mutex
          /\ UNCHANGED toGuest
    /\ UNCHANGED <<tty, feeder, chunk, inputLeft, winchesLeft, winched, toHost,
                   inputVars, pumpVars, childVars, got>>

---------------------------------------------------------------------------
(* The guest: forward_input.                                               *)

\* A command, or the data after it.  Data for a standard input that is closed
\* already is dropped.
InputRead ==
    /\ input \in {"read", "data", "size"}
    /\ toGuest # <<>>
    /\ toGuest' = Tail(toGuest)
    /\ LET piece == Head(toGuest) IN
       \/ /\ input = "read" /\ piece \in {"data", "size"}
          /\ input' = piece
          /\ UNCHANGED stdin
       \/ /\ input = "read" /\ piece = "eof"
          /\ stdin' = FALSE
          /\ UNCHANGED input
       \/ /\ input # "read" /\ piece = "body"
          /\ input' = IF input = "data" /\ stdin THEN "write" ELSE "read"
          /\ UNCHANGED stdin
       \/ /\ (input = "read") = (piece = "body")
          /\ input' = "error"
          /\ UNCHANGED stdin
    /\ UNCHANGED <<tty, hostVars, toHost, stdinPipe, reader, pumpVars, childVars, got>>

\* A broken pipe only gives the child's standard input up.  A terminal that no
\* process holds any more answers with another error, EIO, which ends the thread:
\* nobody reads what the host still sends.
InputWrite ==
    /\ input = "write"
    /\ \/ /\ reader
          /\ stdinPipe < PipeCap
          /\ stdinPipe' = stdinPipe + 1
          /\ input' = "read"
          /\ UNCHANGED stdin
       \/ /\ ~reader /\ ~tty
          /\ stdin' = FALSE
          /\ input' = "read"
          /\ UNCHANGED stdinPipe
       \/ /\ ~reader /\ tty
          /\ input' = "ended"
          /\ UNCHANGED <<stdin, stdinPipe>>
    /\ UNCHANGED <<tty, hostVars, toGuest, toHost, reader, pumpVars, childVars, got>>

---------------------------------------------------------------------------
(* The guest: run_io_guest.                                                *)

\* Mutant, and the loop before the patch: a stream whose writers are gone is
\* dropped with what it still holds.
PumpEnd_Undrained(s) ==
    /\ pump = "poll"
    /\ s \in opened \ writers
    /\ opened' = opened \ {s}
    /\ UNCHANGED <<tty, hostVars, toGuest, toHost, inputVars, pump, code, childVars, got>>

\* An empty read, a hang-up with nothing to read, or EIO from a terminal.
PumpEnd(s) ==
    /\ pump = "poll"
    /\ s \in opened \ writers
    /\ pipe[s] = 0
    /\ opened' = opened \ {s}
    /\ UNCHANGED <<tty, hostVars, toGuest, toHost, inputVars, pump, code, childVars, got>>

\* Mutant: the pump waits until the child has taken its input.
PumpRead_WaitsForInput(s) ==
    /\ pump = "poll"
    /\ input # "write"
    /\ s \in opened
    /\ pipe[s] > 0
    /\ pipe' = [pipe EXCEPT ![s] = @ - 1]
    /\ pump' = s
    /\ UNCHANGED <<tty, hostVars, toGuest, toHost, inputVars, opened, code,
                   writers, leader, wrote, got>>

PumpRead(s) ==
    /\ pump = "poll"
    /\ s \in opened
    /\ pipe[s] > 0
    /\ pipe' = [pipe EXCEPT ![s] = @ - 1]
    /\ pump' = s
    /\ UNCHANGED <<tty, hostVars, toGuest, toHost, inputVars, opened, code,
                   writers, leader, wrote, got>>

PumpSend ==
    /\ pump \in Streams
    /\ PutHost(pump)
    /\ pump' = "poll"
    /\ UNCHANGED <<tty, hostVars, toGuest, inputVars, opened, code, childVars, got>>

PumpCode ==
    /\ pump = "poll"
    /\ code = "stop"
    /\ code' = "known"
    /\ UNCHANGED <<tty, hostVars, toGuest, toHost, inputVars, pump, opened, childVars, got>>

\* The code is known and every stream is at its end: io_finished.
PumpExit ==
    /\ pump = "poll"
    /\ code = "known"
    /\ opened = {}
    /\ pump' = "exit"
    /\ UNCHANGED <<tty, hostVars, toGuest, toHost, inputVars, opened, code, childVars, got>>

PumpWriteExit ==
    /\ pump = "exit"
    /\ PutHost("exit")
    /\ pump' = "ended"
    /\ UNCHANGED <<tty, hostVars, toGuest, inputVars, opened, code, childVars, got>>

---------------------------------------------------------------------------
(* The request's processes, and the task that waits for the leader.        *)

ChildRead ==
    /\ reader
    /\ stdinPipe > 0
    /\ stdinPipe' = stdinPipe - 1
    /\ UNCHANGED <<tty, hostVars, toGuest, toHost, input, stdin, reader, pumpVars,
                   childVars, got>>

ChildWrite(s) ==
    /\ s \in writers
    /\ wrote[s] < Output
    /\ pipe[s] < PipeCap
    /\ pipe' = [pipe EXCEPT ![s] = @ + 1]
    /\ wrote' = [wrote EXCEPT ![s] = @ + 1]
    /\ UNCHANGED <<tty, hostVars, toGuest, toHost, inputVars, pumpVars,
                   writers, leader, got>>

\* The last process that holds a stream closes it, before or after the leader
\* exits; a terminal has one stream for both directions.
ChildClose(s) ==
    /\ s \in writers
    /\ writers' = writers \ {s}
    /\ reader' = IF tty THEN FALSE ELSE reader
    /\ UNCHANGED <<tty, hostVars, toGuest, toHost, input, stdin, stdinPipe, pumpVars,
                   pipe, leader, wrote, got>>

ChildCloseInput ==
    /\ reader /\ ~tty
    /\ reader' = FALSE
    /\ UNCHANGED <<tty, hostVars, toGuest, toHost, input, stdin, stdinPipe, pumpVars,
                   childVars, got>>

LeaderExit ==
    /\ leader
    /\ leader' = FALSE
    /\ UNCHANGED <<tty, hostVars, toGuest, toHost, inputVars, pumpVars,
                   pipe, writers, wrote, got>>

\* Mutant, and the worker before the patch: the code is written when the
\* request's task is over, and the task waits for the client.
WriteCode_AfterTask ==
    /\ ~leader
    /\ code = "none"
    /\ pump = "ended"
    /\ code' = "stop"
    /\ UNCHANGED <<tty, hostVars, toGuest, toHost, inputVars, pump, opened, childVars, got>>

\* wait_for_child reaps the leader and writes its code to the stop pipe.
WriteCode ==
    /\ ~leader
    /\ code = "none"
    /\ code' = "stop"
    /\ UNCHANGED <<tty, hostVars, toGuest, toHost, inputVars, pump, opened, childVars, got>>

---------------------------------------------------------------------------
HostLoop == HostRead \/ HostWinch \/ HostLock \/ HostSize
FeederSend == FeederLock \/ FeederWrite
InputStep == InputRead \/ InputWrite
PumpStep ==
    \/ \E s \in Streams : PumpEnd(s) \/ PumpRead(s)
    \/ PumpSend \/ PumpCode \/ PumpExit \/ PumpWriteExit
ChildStep ==
    \/ \E s \in Streams : ChildWrite(s) \/ ChildClose(s)
    \/ ChildRead \/ ChildCloseInput \/ LeaderExit

\* run_io_host has not returned.
Running == main \notin {"done", "failed"}

Next ==
    /\ Running
    /\ \/ HostLoop \/ FeederRead \/ FeederSend \/ WindowChange
       \/ InputStep \/ PumpStep \/ ChildStep \/ WriteCode

Spec == Init /\ [][Next]_vars

(* The threads of the host and of the guest are scheduled.  Neither the    *)
(* child nor the host's standard input promises anything.                  *)
Fairness ==
    /\ WF_vars(Running /\ HostLoop)
    /\ WF_vars(Running /\ FeederSend)
    /\ WF_vars(Running /\ InputStep)
    /\ WF_vars(Running /\ PumpStep)
    /\ WF_vars(Running /\ WriteCode)

FairSpec == Spec /\ Fairness

---------------------------------------------------------------------------
\* A client that read CMD_EXIT has all the output any process of the request
\* wrote, and none can write more ("complete output", docs/design.md).
OutputComplete == main = "done" => got = wrote /\ writers = {}

\* Packets of the feeder and of the main loop never mix on the socket: the
\* guest finds a command where it expects one and data where it expects data.
PacketsIntact == input # "error"

\* With pipes, a child that waits for room in its output gets it, whether or not it
\* reads its input, and however much input waits for it: the threads that feed it and
\* those that take its output do not wait for each other ("A separate reader prevents
\* full-duplex pipelines from deadlocking on both ends", run_io_guest).
OutputDrains ==
    \A s \in Streams :
        (~tty /\ pipe[s] = PipeCap) ~> pipe[s] < PipeCap \/ main = "done"

\* The same with a terminal that a process of the request keeps: "Reading stdin and writing
\* its packets may both block. Keep output draining independently" (interactive-stdio.patch).
OutputAlwaysDrains ==
    []reader =>
        \A s \in Streams : pipe[s] = PipeCap ~> pipe[s] < PipeCap \/ main = "done"

\* When the leader has exited and no process holds its output, the client is told the
\* exit code.  The exception is a terminal whose forward_input has ended with its last
\* process: a window change may then wait, or fail, at a socket nobody reads.
ExitArrives ==
    (~leader /\ writers = {}) ~>
        \/ main = "done"
        \/ [](input = "ended" /\ main \in {"lock", "size", "body", "failed"})
=============================================================================

--------------------------- MODULE PortRendezvous ---------------------------
(***************************************************************************)
(* How a host client and the guest I/O thread of its request find each     *)
(* other.  The client takes the first port whose lock file it can flock,   *)
(* binds a socket at that port's path, names the port in its request, and  *)
(* accepts one connection.  The guest thread connects to the port: nothing *)
(* but the number says whose request it serves.                            *)
(***************************************************************************)
EXTENDS Naturals, FiniteSets, Sequences

CONSTANTS
    Clients,    \* host clients, each with one request
    NPorts,     \* the ports of the dynamic range are 1..NPorts
    NoClient

ASSUME PortsAssumption == NPorts \in Nat \ {0}
ASSUME NoClientAssumption == NoClient \notin Clients
ASSUME ClientsAssumption == IsFiniteSet(Clients)

Ports == 1 .. NPorts
NoPort == 0

VARIABLES
    client,     \* where each client is
    next,       \* the port its scan tries next
    port,       \* the port it locked; its request still names it when it died
    lock,       \* the client that holds each port's lock
    listener,   \* the client whose socket is at each port's path
    backlog,    \* per client, the requests whose threads connected to it
    stream,     \* the request whose connection each client accepted
    request,    \* where the request of each client, and its thread, is
    earlyDeath  \* may a client die before its request's thread has connected?

vars == <<client, next, port, lock, listener, backlog, stream, request,
          earlyDeath>>

ClientState == {"idle", "scan", "locked", "bound", "sent", "serving",
                "done", "noport", "dead"}
RequestState == {"none", "spawned", "connected", "exited", "cancelled", "refused"}

TypeOK ==
    /\ client \in [Clients -> ClientState]
    /\ next \in [Clients -> 1 .. NPorts + 1]
    /\ port \in [Clients -> Ports \cup {NoPort}]
    /\ lock \in [Ports -> Clients \cup {NoClient}]
    /\ listener \in [Ports -> Clients \cup {NoClient}]
    /\ backlog \in [Clients -> Seq(Clients)]
    /\ stream \in [Clients -> Clients \cup {NoClient}]
    /\ request \in [Clients -> RequestState]
    /\ earlyDeath \in BOOLEAN

Init ==
    /\ client = [c \in Clients |-> "idle"]
    /\ next = [c \in Clients |-> 1]
    /\ port = [c \in Clients |-> NoPort]
    /\ lock = [p \in Ports |-> NoClient]
    /\ listener = [p \in Ports |-> NoClient]
    /\ backlog = [c \in Clients |-> <<>>]
    /\ stream = [c \in Clients |-> NoClient]
    /\ request = [c \in Clients |-> "none"]
    /\ earlyDeath \in BOOLEAN

Move(c, from, to) ==
    /\ client[c] = from
    /\ client' = [client EXCEPT ![c] = to]

\* The end of a process drops its lock and its listener, and resets the
\* connections nobody accepted.
LeaveWith(c, state) ==
    /\ client' = [client EXCEPT ![c] = state]
    /\ lock' = [p \in Ports |-> IF lock[p] = c THEN NoClient ELSE lock[p]]
    /\ listener' = [p \in Ports |-> IF listener[p] = c THEN NoClient ELSE listener[p]]
    /\ backlog' = [backlog EXCEPT ![c] = <<>>]

StartScan(c) ==
    /\ Move(c, "idle", "scan")
    /\ UNCHANGED <<next, port, lock, listener, backlog, stream, request, earlyDeath>>

\* Mutant: the lock of a taken port counts as taken over.
TryPort_IgnoresLock(c) ==
    /\ client[c] = "scan"
    /\ next[c] \in Ports
    /\ client' = [client EXCEPT ![c] = "locked"]
    /\ port' = [port EXCEPT ![c] = next[c]]
    /\ lock' = [lock EXCEPT ![next[c]] = c]
    /\ UNCHANGED <<next, listener, backlog, stream, request, earlyDeath>>

\* Mutant, and the code before the patch: the loop does not go on to the next
\* port when the lock file it has just made is taken by another client.
TryPort_FailsWhenTaken(c) ==
    /\ client[c] = "scan"
    /\ next[c] \in Ports
    /\ \/ /\ lock[next[c]] = NoClient
          /\ client' = [client EXCEPT ![c] = "locked"]
          /\ port' = [port EXCEPT ![c] = next[c]]
          /\ lock' = [lock EXCEPT ![next[c]] = c]
       \/ /\ lock[next[c]] # NoClient
          /\ client' = [client EXCEPT ![c] = "noport"]
          /\ UNCHANGED <<port, lock>>
    /\ UNCHANGED <<next, listener, backlog, stream, request, earlyDeath>>

\* Open or create the lock file, then a flock that does not block; on to the
\* next port when it is taken.
TryPort(c) ==
    /\ client[c] = "scan"
    /\ next[c] \in Ports
    /\ \/ /\ lock[next[c]] = NoClient
          /\ client' = [client EXCEPT ![c] = "locked"]
          /\ port' = [port EXCEPT ![c] = next[c]]
          /\ lock' = [lock EXCEPT ![next[c]] = c]
          /\ UNCHANGED next
       \/ /\ lock[next[c]] # NoClient
          /\ next' = [next EXCEPT ![c] = @ + 1]
          /\ UNCHANGED <<client, port, lock>>
    /\ UNCHANGED <<listener, backlog, stream, request, earlyDeath>>

\* "Ran out of ports."
RanOutOfPorts(c) ==
    /\ next[c] = NPorts + 1
    /\ Move(c, "scan", "noport")
    /\ UNCHANGED <<next, port, lock, listener, backlog, stream, request, earlyDeath>>

\* The stale path of an earlier client is unlinked first.
Bind(c) ==
    /\ Move(c, "locked", "bound")
    /\ listener' = [listener EXCEPT ![port[c]] = c]
    /\ UNCHANGED <<next, port, lock, backlog, stream, request, earlyDeath>>

Send(c) ==
    /\ Move(c, "bound", "sent")
    /\ UNCHANGED <<next, port, lock, listener, backlog, stream, request, earlyDeath>>

\* The worker runs the command and starts its I/O thread; the client may have
\* died after it sent the request, since the connection keeps the text.
Spawn(r) ==
    /\ request[r] = "none"
    /\ client[r] = "sent" \/ (client[r] = "dead" /\ port[r] # NoPort)
    /\ request' = [request EXCEPT ![r] = "spawned"]
    /\ UNCHANGED <<client, next, port, lock, listener, backlog, stream, earlyDeath>>

\* run_io_guest connects to the port the request names, whoever listens there.
Connect(r) ==
    /\ request[r] = "spawned"
    /\ LET c == listener[port[r]] IN
          IF c = NoClient
          THEN /\ request' = [request EXCEPT ![r] = "refused"]
               /\ UNCHANGED backlog
          ELSE /\ request' = [request EXCEPT ![r] = "connected"]
               /\ backlog' = [backlog EXCEPT ![c] = Append(@, r)]
    /\ UNCHANGED <<client, next, port, lock, listener, stream, earlyDeath>>

\* run_io_host accepts one connection, after the worker's OK.
AcceptStream(c) ==
    /\ request[c] # "none"
    /\ backlog[c] # <<>>
    /\ Move(c, "sent", "serving")
    /\ stream' = [stream EXCEPT ![c] = Head(backlog[c])]
    /\ backlog' = [backlog EXCEPT ![c] = Tail(@)]
    /\ UNCHANGED <<next, port, lock, listener, request, earlyDeath>>

\* The command is over and its output drained: the thread writes CMD_EXIT.
WriteExit(r) ==
    /\ request[r] = "connected"
    /\ request' = [request EXCEPT ![r] = "exited"]
    /\ UNCHANGED <<client, next, port, lock, listener, backlog, stream, earlyDeath>>

\* wait_for_child read an end of file: the group is killed, and the thread
\* ends at the closed stop pipe without a CMD_EXIT.
Cancel(r) ==
    /\ client[r] = "dead"
    /\ request[r] = "connected"
    /\ request' = [request EXCEPT ![r] = "cancelled"]
    /\ UNCHANGED <<client, next, port, lock, listener, backlog, stream, earlyDeath>>

\* The client returns the code it read and ends.
ReadExit(c) ==
    /\ client[c] = "serving"
    /\ request[stream[c]] = "exited"
    /\ LeaveWith(c, "done")
    /\ UNCHANGED <<next, port, stream, request, earlyDeath>>

Die(c) ==
    /\ client[c] \notin {"done", "noport", "dead"}
    /\ earlyDeath \/ client[c] # "sent" \/ request[c] \notin {"none", "spawned"}
    \* a client that had not sent its request leaves nothing in the guest
    /\ LeaveWith(c, "dead")
    /\ port' = [port EXCEPT ![c] = IF client[c] \in {"sent", "serving"} THEN @ ELSE NoPort]
    /\ UNCHANGED <<next, stream, request, earlyDeath>>

Next ==
    \E c \in Clients :
        \/ StartScan(c) \/ TryPort(c) \/ RanOutOfPorts(c) \/ Bind(c) \/ Send(c)
        \/ Spawn(c) \/ Connect(c) \/ AcceptStream(c) \/ WriteExit(c)
        \/ Cancel(c) \/ ReadExit(c) \/ Die(c)

Spec == Init /\ [][Next]_vars

---------------------------------------------------------------------------
\* Clients that hold a port hold different ones, and the socket at a port's
\* path is the one of the client that holds its lock (launch.rs).
PortIsExclusive ==
    \A c \in Clients :
        client[c] \in {"locked", "bound", "sent", "serving"} =>
            /\ lock[port[c]] = c
            /\ client[c] # "locked" => listener[port[c]] = c

\* A client fails for want of a port only when that many others took one, counting those
\* that have died since: racing for a lock file is not an error.
NoPortMeansBusy ==
    \A c \in Clients :
        client[c] = "noport" =>
            Cardinality({d \in Clients \ {c} :
                            client[d] \notin {"idle", "scan", "noport"}}) >= NPorts

\* A client's output and exit code are those of its own command, as long as no
\* client dies between its request and its thread's connection: the packets it
\* reads come from the thread of its own request.
StreamIsOwn == ~earlyDeath => \A c \in Clients : stream[c] \in {c, NoClient}

\* The same whenever clients die: each client's output is its own
\* ("without touching another request", docs/design.md).
StreamIsAlwaysOwn == \A c \in Clients : stream[c] \in {c, NoClient}
=============================================================================

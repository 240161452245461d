---------------------------- MODULE GuestSession ----------------------------
(***************************************************************************)
(* prepare-session in the guest, before any request: it starts the shared  *)
(* FEXServer, waits for its readiness on a pipe, starts the session bus,    *)
(* and takes the server down again when any of it fails.  The pipe ends     *)
(* when the last copy of its write end is closed: the server closes its own *)
(* when it is ready, and the kernel when it exits, which is before the       *)
(* parent can wait for it.                                                 *)
(***************************************************************************)
VARIABLES
    session,    \* where prepare-session is
    server,     \* FEXServer; "closing" is exiting with its descriptors closed already
    writer,     \* does prepare-session hold a copy of the write end?
    data,       \* is there a byte in the pipe?
    wasReady,   \* did the server become ready?
    told,       \* was it sent SIGTERM?
    overlooked, \* poll() came while the server was closing
    bus,        \* does the session bus run?
    faults      \* what may go wrong

sessionVars == <<session, server, writer, data, wasReady, told, overlooked, bus>>

TypeOK ==
    /\ session \in {"off", "spawn", "close", "select", "read", "bus", "except", "wait",
                    "killed", "ok", "failed"}
    /\ server \in {"none", "starting", "ready", "closing", "zombie", "reaped"}
    /\ writer \in BOOLEAN
    /\ data \in BOOLEAN
    /\ wasReady \in BOOLEAN
    /\ told \in BOOLEAN
    /\ overlooked \in BOOLEAN
    /\ bus \in BOOLEAN

Init ==
    /\ session = "off"
    /\ server = "none"
    /\ writer = FALSE
    /\ data = FALSE
    /\ wasReady = FALSE
    /\ told = FALSE
    /\ overlooked = FALSE
    /\ bus = FALSE

\* A new VM, at the start of prepare-session with its pipe, or none.
Restart(to) ==
    /\ session' = to
    /\ server' = "none"
    /\ writer' = (to = "spawn")
    /\ data' = FALSE
    /\ wasReady' = FALSE
    /\ told' = FALSE
    /\ overlooked' = FALSE
    /\ bus' = FALSE

Begin == Restart("spawn")
Gone == Restart("off")

Move(from, to) == session = from /\ session' = to

EndOfFile == ~writer /\ server \notin {"starting"}

---------------------------------------------------------------------------
(* main().                                                                 *)

Spawn ==
    /\ \/ /\ Move("spawn", "close")
          /\ server' = "starting"
          /\ UNCHANGED writer
       \/ /\ "exec" \in faults
          /\ Move("spawn", "except")
          /\ writer' = FALSE
          /\ UNCHANGED server
    /\ UNCHANGED <<data, wasReady, told, overlooked, bus, faults>>

\* Mutant: the parent keeps its write end.
CloseWriter_Kept ==
    /\ Move("close", "select")
    /\ UNCHANGED <<server, writer, data, wasReady, told, overlooked, bus, faults>>

CloseWriter ==
    /\ Move("close", "select")
    /\ writer' = FALSE
    /\ UNCHANGED <<server, data, wasReady, told, overlooked, bus, faults>>

\* Mutant: the end of the pipe is all that is looked at.
Read_PipeOnly ==
    /\ Move("read", IF data THEN "except" ELSE "bus")
    /\ UNCHANGED <<server, writer, data, wasReady, told, overlooked, bus, faults>>

Select ==
    /\ data \/ EndOfFile
    /\ Move("select", "read")
    /\ UNCHANGED <<server, writer, data, wasReady, told, overlooked, bus, faults>>

\* 15 s are over only for a server that hangs.
SelectTimeout ==
    /\ ~data
    /\ ~EndOfFile
    /\ "hang" \in faults
    /\ Move("select", "except")
    /\ UNCHANGED <<server, writer, data, wasReady, told, overlooked, bus, faults>>

\* `os.read(read_fd, 8) or server.poll() is not None`
Read ==
    /\ Move("read", IF data \/ server = "zombie" THEN "except" ELSE "bus")
    /\ server' = IF ~data /\ server = "zombie" THEN "reaped" ELSE server
    /\ overlooked' = (~data /\ server = "closing")
    /\ UNCHANGED <<writer, data, wasReady, told, bus, faults>>

\* dbus-daemon --fork returns when its socket is there, or fails.
StartBus ==
    /\ \/ Move("bus", "ok") /\ bus' = TRUE
       \/ "bus" \in faults /\ Move("bus", "except") /\ UNCHANGED bus
    /\ UNCHANGED <<server, writer, data, wasReady, told, overlooked, faults>>

\* Mutant: a server that does not react to SIGTERM is left behind.
Except_Leaves ==
    /\ Move("except", "failed")
    /\ told' = (server \in {"starting", "ready", "closing"})
    /\ UNCHANGED <<server, writer, data, wasReady, overlooked, bus, faults>>

\* The except clause: `server.poll() is None`, then terminate().
Except ==
    /\ session = "except"
    /\ IF server \in {"starting", "ready", "closing"}
       THEN session' = "wait" /\ told' = TRUE /\ UNCHANGED server
       ELSE /\ session' = "failed"
            /\ server' = IF server = "zombie" THEN "reaped" ELSE server
            /\ UNCHANGED told
    /\ UNCHANGED <<writer, data, wasReady, overlooked, bus, faults>>

\* wait(), within the 5 s or after kill().
Reap ==
    /\ session \in {"wait", "killed"}
    /\ server = "zombie"
    /\ session' = "failed"
    /\ server' = "reaped"
    /\ UNCHANGED <<writer, data, wasReady, told, overlooked, bus, faults>>

\* kill(), for a server that sits SIGTERM out.
WaitTimeout ==
    /\ "deaf" \in faults
    /\ server \in {"starting", "ready"}
    /\ Move("wait", "killed")
    /\ server' = "closing"
    /\ UNCHANGED <<writer, data, wasReady, told, overlooked, bus, faults>>

---------------------------------------------------------------------------
(* FEXServer.                                                              *)

ServerReady ==
    /\ "hang" \notin faults
    /\ server = "starting"
    /\ server' = "ready"
    /\ wasReady' = TRUE
    /\ UNCHANGED <<session, writer, data, told, overlooked, bus, faults>>

\* Something is written where nothing is expected.
ServerWrites ==
    /\ "noise" \in faults
    /\ server = "starting"
    /\ data' = TRUE
    /\ UNCHANGED <<session, server, writer, wasReady, told, overlooked, bus, faults>>

ServerDies ==
    /\ "die" \in faults
    /\ server \in {"starting", "ready"}
    /\ server' = "closing"
    /\ UNCHANGED <<session, writer, data, wasReady, told, overlooked, bus, faults>>

ServerObeys ==
    /\ told
    /\ "deaf" \notin faults
    /\ server \in {"starting", "ready"}
    /\ server' = "closing"
    /\ UNCHANGED <<session, writer, data, wasReady, told, overlooked, bus, faults>>

ServerExits ==
    /\ server = "closing"
    /\ server' = "zombie"
    /\ UNCHANGED <<session, writer, data, wasReady, told, overlooked, bus, faults>>

SessionStep ==
    \/ Spawn \/ CloseWriter \/ Select \/ SelectTimeout \/ Read \/ StartBus
    \/ Except \/ Reap \/ WaitTimeout

ServerStep == ServerReady \/ ServerObeys \/ ServerExits

Next == SessionStep \/ ServerStep \/ ServerWrites \/ ServerDies

---------------------------------------------------------------------------
\* A session that let the boot go on had a FEXServer that reported itself ready, and
\* has a bus: the end of the pipe alone says neither ready nor dead.  The exception is
\* a server whose exit closed the pipe and which poll() does not see as exited yet.
SessionHasServer == session = "ok" => bus /\ (wasReady \/ overlooked)

\* A session that fails leaves no server behind, however deaf it is to SIGTERM.
NoServerIsLeft == session = "failed" => server \in {"none", "reaped"} /\ ~bus
=============================================================================

------------------------- MODULE PortRendezvousProofs -------------------------
(***************************************************************************)
(* A port has one holder, and without early deaths every client reads its  *)
(* own command, for any number of clients and ports.                       *)
(***************************************************************************)
EXTENDS PortRendezvous, FiniteSetTheorems, TLAPS

Holding == {"locked", "bound", "sent", "serving"}

HoldersHavePorts == \A c \in Clients : client[c] \in Holding => port[c] \in Ports

\* A request waits for its thread only while its client waits for it, what is in a
\* client's backlog is its own connected thread, and a client that went on, or died
\* with its port named, has had its thread connect.
ConnectsInTime ==
    \A c \in Clients :
        /\ request[c] = "spawned" => client[c] = "sent"
        /\ \A i \in DOMAIN backlog[c] :
              backlog[c][i] = c /\ request[c] \notin {"none", "spawned"}
        /\ client[c] = "serving" \/ (client[c] = "dead" /\ port[c] # NoPort)
              => request[c] \notin {"none", "spawned"}

\* The inductive invariant.  PortIsExclusive is inductive given the types; StreamIsOwn
\* needs to know which threads have connected.
IInv ==
    TypeOK /\ HoldersHavePorts /\ PortIsExclusive /\ (~earlyDeath => ConnectsInTime)
    /\ StreamIsOwn

---------------------------------------------------------------------------
\* No port is taken at first.
LEMMA InitIInv == Init => IInv
  <1> SUFFICES ASSUME Init PROVE IInv
    OBVIOUS
  <1> USE NoClientAssumption, PortsAssumption DEF Init
  <1>1. TypeOK
    BY DEF TypeOK, ClientState, RequestState, Ports, NoPort
  <1>2. PortIsExclusive /\ ConnectsInTime /\ StreamIsOwn /\ HoldersHavePorts
    BY DEF PortIsExclusive, ConnectsInTime, StreamIsOwn, HoldersHavePorts, Holding
  <1> QED
    BY <1>1, <1>2 DEF IInv

\* The scan stays in its range, whose end is one past the last port.
LEMMA TypeStep == TypeOK /\ [Next]_vars => TypeOK'
  <1> SUFFICES ASSUME TypeOK, [Next]_vars PROVE TypeOK'
    OBVIOUS
  <1> USE NoClientAssumption, PortsAssumption
      DEF TypeOK, ClientState, RequestState, Ports, NoPort, Move, LeaveWith
  <1>1. ASSUME NEW c \in Clients, StartScan(c) \/ RanOutOfPorts(c) \/ Bind(c) \/ Send(c)
        PROVE TypeOK'
    <2>1. CASE StartScan(c)
      BY <2>1 DEF StartScan
    <2>2. CASE RanOutOfPorts(c)
      BY <2>2 DEF RanOutOfPorts
    <2>3. CASE Bind(c)
      BY <2>3 DEF Bind
    <2>4. CASE Send(c)
      BY <2>4 DEF Send
    <2> QED
      BY <1>1, <2>1, <2>2, <2>3, <2>4
  <1>2. ASSUME NEW c \in Clients, TryPort(c) PROVE TypeOK'
    <2>1. next[c] \in Ports /\ next[c] + 1 \in 1 .. NPorts + 1
      BY <1>2 DEF TryPort
    <2>2. CASE lock[next[c]] = NoClient
      <3>1. /\ client' = [client EXCEPT ![c] = "locked"]
            /\ port' = [port EXCEPT ![c] = next[c]]
            /\ lock' = [lock EXCEPT ![next[c]] = c]
            /\ UNCHANGED <<next, listener, backlog, stream, request, earlyDeath>>
        BY <1>2, <2>2 DEF TryPort
      <3> HIDE DEF Ports
      <3> QED
        BY <2>1, <3>1
    <2>3. CASE lock[next[c]] # NoClient
      <3>1. next' = [next EXCEPT ![c] = next[c] + 1]
            /\ UNCHANGED <<client, port, lock, listener, backlog, stream, request, earlyDeath>>
        BY <1>2, <2>3 DEF TryPort
      <3> HIDE DEF Ports
      <3> QED
        BY <2>1, <3>1
    <2> QED
      BY <2>2, <2>3
  <1>3. ASSUME NEW c \in Clients, Spawn(c) \/ WriteExit(c) \/ Cancel(c) PROVE TypeOK'
    BY <1>3 DEF Spawn, WriteExit, Cancel
  <1>4. ASSUME NEW c \in Clients, Connect(c) PROVE TypeOK'
    <2>1. CASE listener[port[c]] = NoClient
      BY <1>4, <2>1 DEF Connect
    <2>2. CASE listener[port[c]] # NoClient
      <3>1. backlog' \in [Clients -> Seq(Clients)]
        <4> DEFINE d == listener[port[c]]
        <4>1. backlog' = [backlog EXCEPT ![d] = Append(@, c)]
          BY <1>4, <2>2 DEF Connect
        <4>2. CASE d \in Clients
          BY <4>1, <4>2
        <4>3. CASE d \notin Clients
          BY <4>1, <4>3
        <4> QED
          BY <4>2, <4>3
      <3> QED
        BY <1>4, <2>2, <3>1 DEF Connect
    <2> QED
      BY <2>1, <2>2
  <1>5. ASSUME NEW c \in Clients, AcceptStream(c) PROVE TypeOK'
    <2>1. Head(backlog[c]) \in Clients /\ Tail(backlog[c]) \in Seq(Clients)
      BY <1>5 DEF AcceptStream
    <2> QED
      BY <1>5, <2>1 DEF AcceptStream
  <1>6. ASSUME NEW c \in Clients, ReadExit(c) \/ Die(c) PROVE TypeOK'
    <2>1. \A state \in ClientState : LeaveWith(c, state) =>
              /\ client' \in [Clients -> ClientState]
              /\ lock' \in [Ports -> Clients \cup {NoClient}]
              /\ listener' \in [Ports -> Clients \cup {NoClient}]
              /\ backlog' \in [Clients -> Seq(Clients)]
      <3> <<>> \in Seq(Clients)
        OBVIOUS
      <3> QED
        OBVIOUS
    <2> HIDE DEF LeaveWith
    <2>2. CASE ReadExit(c)
      BY <2>1, <2>2 DEF ReadExit
    <2>3. CASE Die(c)
      BY <2>1, <2>3 DEF Die
    <2> QED
      BY <1>6, <2>2, <2>3
  <1>7. CASE UNCHANGED vars
    BY <1>7 DEF vars
  <1> QED
    BY <1>1, <1>2, <1>3, <1>4, <1>5, <1>6, <1>7 DEF Next

\* Who holds a port has locked it.
LEMMA HoldersStep == TypeOK /\ HoldersHavePorts /\ [Next]_vars => HoldersHavePorts'
  <1> SUFFICES ASSUME TypeOK, HoldersHavePorts, [Next]_vars PROVE HoldersHavePorts'
    OBVIOUS
  <1> USE DEF TypeOK, HoldersHavePorts, Holding, Move, LeaveWith
  <1>1. ASSUME NEW c \in Clients, StartScan(c) \/ RanOutOfPorts(c) \/ Bind(c) \/ Send(c)
        PROVE HoldersHavePorts'
    BY <1>1 DEF StartScan, RanOutOfPorts, Bind, Send
  <1>2. ASSUME NEW c \in Clients, TryPort(c) PROVE HoldersHavePorts'
    BY <1>2 DEF TryPort
  <1>3. ASSUME NEW c \in Clients, Spawn(c) \/ Connect(c) \/ WriteExit(c) \/ Cancel(c)
        PROVE HoldersHavePorts'
    BY <1>3 DEF Spawn, Connect, WriteExit, Cancel
  <1>4. ASSUME NEW c \in Clients, AcceptStream(c) \/ ReadExit(c) \/ Die(c)
        PROVE HoldersHavePorts'
    BY <1>4 DEF AcceptStream, ReadExit, Die
  <1>5. CASE UNCHANGED vars
    BY <1>5 DEF vars
  <1> QED
    BY <1>1, <1>2, <1>3, <1>4, <1>5 DEF Next

\* A lock is taken only while it is free, and goes with its holder alone.
LEMMA ExclusiveStep ==
    TypeOK /\ HoldersHavePorts /\ PortIsExclusive /\ [Next]_vars => PortIsExclusive'
  <1> SUFFICES ASSUME TypeOK, HoldersHavePorts, PortIsExclusive, [Next]_vars PROVE PortIsExclusive'
    OBVIOUS
  <1> USE NoClientAssumption DEF TypeOK, HoldersHavePorts, Holding, PortIsExclusive, Move
  <1>1. ASSUME NEW c \in Clients, StartScan(c) \/ RanOutOfPorts(c) PROVE PortIsExclusive'
    BY <1>1 DEF StartScan, RanOutOfPorts
  <1>2. ASSUME NEW c \in Clients, TryPort(c) PROVE PortIsExclusive'
    <2>1. CASE lock[next[c]] = NoClient
      <3>1. /\ next[c] \in Ports
            /\ client' = [client EXCEPT ![c] = "locked"]
            /\ port' = [port EXCEPT ![c] = next[c]]
            /\ lock' = [lock EXCEPT ![next[c]] = c]
            /\ listener' = listener
        BY <1>2, <2>1 DEF TryPort
      <3>2. \A d \in Clients \ {c} :
                client[d] \in Holding => port[d] \in Ports /\ port[d] # next[c]
        BY <2>1
      <3> QED
        BY <3>1, <3>2
    <2>2. CASE lock[next[c]] # NoClient
      <3>1. UNCHANGED <<client, port, lock, listener>>
        BY <1>2, <2>2 DEF TryPort
      <3> QED
        BY <3>1
    <2> QED
      BY <2>1, <2>2
  <1>3. ASSUME NEW c \in Clients, Bind(c) PROVE PortIsExclusive'
    <2> SUFFICES ASSUME NEW d \in Clients,
                        client'[d] \in {"locked", "bound", "sent", "serving"}
                 PROVE  /\ lock'[port'[d]] = d
                        /\ client'[d] # "locked" => listener'[port'[d]] = d
      BY DEF PortIsExclusive
    <2>1. lock' = lock /\ port' = port /\ lock[port[d]] = d /\ lock[port[c]] = c
      BY <1>3 DEF Bind
    <2>2. CASE d = c
      <3>1. port[c] \in Ports
        BY <1>3 DEF Bind
      <3> QED
        BY <1>3, <2>1, <2>2, <3>1 DEF Bind
    <2>3. CASE d # c
      BY <1>3, <2>1, <2>3 DEF Bind
    <2> QED
      BY <2>2, <2>3
  <1>4. ASSUME NEW c \in Clients, Send(c) PROVE PortIsExclusive'
    BY <1>4 DEF Send
  <1>5. ASSUME NEW c \in Clients, Spawn(c) \/ WriteExit(c) \/ Cancel(c) \/ Connect(c)
        PROVE PortIsExclusive'
    BY <1>5 DEF Spawn, WriteExit, Cancel, Connect
  <1>6. ASSUME NEW c \in Clients, AcceptStream(c) PROVE PortIsExclusive'
    BY <1>6 DEF AcceptStream
  <1>7. ASSUME NEW c \in Clients, ReadExit(c) \/ Die(c) PROVE PortIsExclusive'
    <2> SUFFICES ASSUME NEW d \in Clients,
                        client'[d] \in {"locked", "bound", "sent", "serving"}
                 PROVE  /\ lock'[port'[d]] = d
                        /\ client'[d] # "locked" => listener'[port'[d]] = d
      BY DEF PortIsExclusive
    <2>1. d # c /\ client'[d] = client[d] /\ port'[d] = port[d]
      BY <1>7 DEF ReadExit, Die, LeaveWith
    <2>2. port[d] \in Ports
      BY <2>1
    <2> QED
      BY <1>7, <2>1, <2>2 DEF ReadExit, Die, LeaveWith
  <1>8. CASE UNCHANGED vars
    BY <1>8 DEF vars
  <1> QED
    BY <1>1, <1>2, <1>3, <1>4, <1>5, <1>6, <1>7, <1>8 DEF Next

\* The listener at a port its client holds is that client's, so a thread connects to
\* its own client while that waits for it.
LEMMA ConnectsStep ==
    IInv /\ [Next]_vars /\ ~earlyDeath => ConnectsInTime'
  <1> SUFFICES ASSUME IInv, [Next]_vars, ~earlyDeath PROVE ConnectsInTime'
    OBVIOUS
  <1>0. TypeOK /\ PortIsExclusive /\ ConnectsInTime
    BY DEF IInv
  <1> USE <1>0, NoClientAssumption DEF TypeOK, ConnectsInTime, Move
  <1>1. ASSUME NEW c \in Clients, StartScan(c) \/ RanOutOfPorts(c) PROVE ConnectsInTime'
    BY <1>1 DEF StartScan, RanOutOfPorts
  <1>2. ASSUME NEW c \in Clients, Bind(c) \/ Send(c) PROVE ConnectsInTime'
    BY <1>2 DEF Bind, Send
  <1>3. ASSUME NEW c \in Clients, TryPort(c) PROVE ConnectsInTime'
    BY <1>3 DEF TryPort
  <1>4. ASSUME NEW c \in Clients, Spawn(c) PROVE ConnectsInTime'
    BY <1>4 DEF Spawn
  <1>5. ASSUME NEW c \in Clients, Connect(c) PROVE ConnectsInTime'
    <2>1. client[c] = "sent" /\ listener[port[c]] = c
      BY <1>5 DEF Connect, PortIsExclusive
    <2>2. /\ request' = [request EXCEPT ![c] = "connected"]
          /\ backlog' = [backlog EXCEPT ![c] = Append(@, c)]
          /\ UNCHANGED <<client, port>>
      BY <1>5, <2>1 DEF Connect
    <2>3. ASSUME NEW d \in Clients, NEW i \in DOMAIN backlog'[d]
          PROVE  backlog'[d][i] = d /\ request'[d] \notin {"none", "spawned"}
      <3>1. CASE d = c
        BY <2>2, <2>3, <3>1
      <3>2. CASE d # c
        BY <2>2, <2>3, <3>2
      <3> QED
        BY <3>1, <3>2
    <2> QED
      BY <2>2, <2>3
  <1>6. ASSUME NEW c \in Clients, AcceptStream(c) PROVE ConnectsInTime'
    <2>1. /\ backlog[c] # <<>>
          /\ client' = [client EXCEPT ![c] = "serving"]
          /\ backlog' = [backlog EXCEPT ![c] = Tail(@)]
          /\ UNCHANGED <<port, request>>
      BY <1>6 DEF AcceptStream
    <2>2. request[c] \notin {"none", "spawned"}
      BY <2>1
    <2>3. ASSUME NEW d \in Clients, NEW i \in DOMAIN backlog'[d]
          PROVE  backlog'[d][i] = d /\ request'[d] \notin {"none", "spawned"}
      <3>1. CASE d = c
        BY <2>1, <2>2, <2>3, <3>1
      <3>2. CASE d # c
        BY <2>1, <2>3, <3>2
      <3> QED
        BY <3>1, <3>2
    <2> QED
      BY <2>1, <2>2, <2>3
  <1>7. ASSUME NEW c \in Clients, WriteExit(c) \/ Cancel(c) PROVE ConnectsInTime'
    BY <1>7 DEF WriteExit, Cancel
  <1>8. ASSUME NEW c \in Clients, ReadExit(c) PROVE ConnectsInTime'
    BY <1>8 DEF ReadExit, LeaveWith
  <1>9. ASSUME NEW c \in Clients, Die(c) PROVE ConnectsInTime'
    BY <1>9 DEF Die, LeaveWith
  <1>10. CASE UNCHANGED vars
    BY <1>10 DEF vars
  <1> QED
    BY <1>1, <1>2, <1>3, <1>4, <1>5, <1>6, <1>7, <1>8, <1>9, <1>10 DEF Next

\* What a client accepts is from its backlog.
LEMMA StreamStep == IInv /\ [Next]_vars => StreamIsOwn'
  <1> SUFFICES ASSUME IInv, [Next]_vars PROVE StreamIsOwn'
    OBVIOUS
  <1> USE DEF IInv, TypeOK, StreamIsOwn, ConnectsInTime
  <1>1. ASSUME NEW c \in Clients, AcceptStream(c) PROVE StreamIsOwn'
    <2>1. backlog[c] # <<>> /\ stream' = [stream EXCEPT ![c] = Head(backlog[c])]
          /\ earlyDeath' = earlyDeath
      BY <1>1 DEF AcceptStream
    <2>2. Head(backlog[c]) = backlog[c][1] /\ 1 \in DOMAIN backlog[c]
      BY <2>1
    <2> QED
      BY <2>1, <2>2
  <1>2. ASSUME NEW c \in Clients,
               \/ StartScan(c) \/ TryPort(c) \/ RanOutOfPorts(c) \/ Bind(c) \/ Send(c)
               \/ Spawn(c) \/ Connect(c) \/ WriteExit(c) \/ Cancel(c) \/ ReadExit(c) \/ Die(c)
        PROVE StreamIsOwn'
    BY <1>2 DEF StartScan, TryPort, RanOutOfPorts, Bind, Send, Spawn, Connect, WriteExit,
      Cancel, ReadExit, Die
  <1>3. CASE UNCHANGED vars
    BY <1>3 DEF vars
  <1> QED
    BY <1>1, <1>2, <1>3 DEF Next

\* earlyDeath is chosen once.
LEMMA ChoiceStep == [Next]_vars => earlyDeath' = earlyDeath
  BY DEF Next, vars, StartScan, TryPort, RanOutOfPorts, Bind, Send, Spawn, Connect,
    AcceptStream, WriteExit, Cancel, ReadExit, Die

---------------------------------------------------------------------------
\* The ports, the backlogs and the streams agree in every state.
THEOREM Invariance == Spec => []IInv
  <1>1. IInv /\ [Next]_vars => IInv'
    BY TypeStep, HoldersStep, ExclusiveStep, ConnectsStep, StreamStep, ChoiceStep DEF IInv
  <1> QED
    BY InitIInv, <1>1, PTL DEF Spec

\* No two clients ever hold a port, and the socket at its path is its holder's
\* (find_vsock_port).
THEOREM OneHolder == Spec => []PortIsExclusive
  BY Invariance, PTL DEF IInv

\* Where no client dies before its request's thread has connected, the stream each one
\* reads is its own command's (run_io_guest).
THEOREM OwnStream == Spec => []StreamIsOwn
  BY Invariance, PTL DEF IInv

---------------------------------------------------------------------------
(* Why a scan that found no port met a client at each.                     *)

Took == {d \in Clients : client[d] \notin {"idle", "scan", "noport"}}

\* A locked port names a client that holds it.
LockNamesHolder ==
    \A p \in Ports : lock[p] # NoClient => client[lock[p]] \in Holding /\ port[lock[p]] = p

\* f names, for each port the scan of c has passed, a client that took it.  It is one to
\* one, since a client takes one port in its life: where it still holds one, it is that one.
Names(c, f) ==
    /\ f \in [1 .. next[c] - 1 -> Took \ {c}]
    /\ \A p, q \in 1 .. next[c] - 1 : f[p] = f[q] => p = q
    /\ \A p \in 1 .. next[c] - 1 : client[f[p]] \in Holding => port[f[p]] = p

ScanInv ==
    /\ LockNamesHolder
    /\ \A c \in Clients : client[c] = "noport" => next[c] = NPorts + 1
    /\ \A c \in Clients : \E f : Names(c, f)

\* No scan has begun.
LEMMA InitScan == Init => ScanInv
  <1> SUFFICES ASSUME Init PROVE ScanInv
    OBVIOUS
  <1>1. LockNamesHolder /\ \A c \in Clients : client[c] # "noport"
    BY DEF Init, LockNamesHolder
  <1>2. ASSUME NEW c \in Clients PROVE Names(c, [p \in 1 .. next[c] - 1 |-> NoClient])
    <2>1. 1 .. next[c] - 1 = {}
      BY DEF Init
    <2> QED
      BY <2>1 DEF Names
  <1> QED
    BY <1>1, <1>2 DEF ScanInv

\* The locks follow the clients that hold them.
LEMMA LockNamesStep ==
    TypeOK /\ HoldersHavePorts /\ PortIsExclusive /\ LockNamesHolder /\ [Next]_vars
        => LockNamesHolder'
  <1> SUFFICES ASSUME TypeOK, HoldersHavePorts, PortIsExclusive, LockNamesHolder, [Next]_vars
               PROVE  LockNamesHolder'
    OBVIOUS
  <1> USE NoClientAssumption DEF TypeOK, LockNamesHolder, Holding, Move
  <1>1. ASSUME NEW c \in Clients,
               StartScan(c) \/ RanOutOfPorts(c) \/ Bind(c) \/ Send(c) \/ AcceptStream(c)
        PROVE  LockNamesHolder'
    <2>1. /\ \A d \in Clients : client[d] \in Holding => client'[d] \in Holding
          /\ UNCHANGED <<port, lock>>
      BY <1>1 DEF StartScan, RanOutOfPorts, Bind, Send, AcceptStream
    <2> QED
      BY <2>1
  <1>2. ASSUME NEW c \in Clients, Spawn(c) \/ Connect(c) \/ WriteExit(c) \/ Cancel(c)
        PROVE  LockNamesHolder'
    <2>1. UNCHANGED <<client, port, lock>>
      BY <1>2 DEF Spawn, Connect, WriteExit, Cancel
    <2> QED
      BY <2>1
  <1>3. ASSUME NEW c \in Clients, TryPort(c) PROVE LockNamesHolder'
    <2>1. CASE lock[next[c]] = NoClient
      <3>1. /\ client[c] = "scan" /\ next[c] \in Ports
            /\ client' = [client EXCEPT ![c] = "locked"]
            /\ port' = [port EXCEPT ![c] = next[c]]
            /\ lock' = [lock EXCEPT ![next[c]] = c]
        BY <1>3, <2>1 DEF TryPort
      <3> QED
        BY <3>1
    <2>2. CASE lock[next[c]] # NoClient
      <3>1. UNCHANGED <<client, port, lock>>
        BY <1>3, <2>2 DEF TryPort
      <3> QED
        BY <3>1
    <2> QED
      BY <2>1, <2>2
  <1>4. ASSUME NEW c \in Clients, ReadExit(c) \/ Die(c) PROVE LockNamesHolder'
    <2>1. /\ \A d \in Clients \ {c} : client'[d] = client[d] /\ port'[d] = port[d]
          /\ lock' = [p \in Ports |-> IF lock[p] = c THEN NoClient ELSE lock[p]]
      BY <1>4 DEF ReadExit, Die, LeaveWith
    <2> QED
      BY <2>1
  <1>5. CASE UNCHANGED vars
    BY <1>5 DEF vars
  <1> QED
    BY <1>1, <1>2, <1>3, <1>4, <1>5 DEF Next

\* Who took a port has taken it for good, and holds no other later.
LEMMA TookStays ==
    ASSUME TypeOK, [Next]_vars, NEW d \in Took
    PROVE  /\ d \in Took'
           /\ client'[d] \in Holding => client[d] \in Holding /\ port'[d] = port[d]
  <1> USE DEF TypeOK, Took, Holding, Move
  <1>1. ASSUME NEW c \in Clients,
               StartScan(c) \/ RanOutOfPorts(c) \/ Bind(c) \/ Send(c) \/ AcceptStream(c)
        PROVE  /\ d \in Took'
               /\ client'[d] \in Holding => client[d] \in Holding /\ port'[d] = port[d]
    BY <1>1 DEF StartScan, RanOutOfPorts, Bind, Send, AcceptStream
  <1>2. ASSUME NEW c \in Clients, Spawn(c) \/ Connect(c) \/ WriteExit(c) \/ Cancel(c)
        PROVE  UNCHANGED <<client, port>>
    BY <1>2 DEF Spawn, Connect, WriteExit, Cancel
  <1>3. ASSUME NEW c \in Clients, TryPort(c)
        PROVE  d \in Took' /\ client'[d] = client[d] /\ port'[d] = port[d]
    BY <1>3 DEF TryPort
  <1>4. ASSUME NEW c \in Clients, ReadExit(c) \/ Die(c)
        PROVE  /\ d \in Took'
               /\ client'[d] \in Holding => client[d] \in Holding /\ port'[d] = port[d]
    BY <1>4 DEF ReadExit, Die, LeaveWith
  <1>5. CASE UNCHANGED vars
    BY <1>5 DEF vars
  <1> QED
    BY <1>1, <1>2, <1>3, <1>4, <1>5 DEF Next

\* A scan goes past a port only when another client has it, which then never took one the
\* scan went past before.
LEMMA ScanStep ==
    TypeOK /\ HoldersHavePorts /\ PortIsExclusive /\ ScanInv /\ [Next]_vars => ScanInv'
  <1> SUFFICES ASSUME TypeOK, HoldersHavePorts, PortIsExclusive, ScanInv, [Next]_vars
               PROVE  ScanInv'
    OBVIOUS
  <1>1. LockNamesHolder'
    BY LockNamesStep DEF ScanInv
  <1>2. ASSUME NEW c \in Clients
        PROVE  \/ next'[c] = next[c] /\ (client'[c] = "noport" => client[c] = "noport"
                                                              \/ next[c] = NPorts + 1)
               \/ /\ client[c] = "scan" /\ client'[c] = "scan"
                  /\ next[c] \in Ports /\ lock[next[c]] # NoClient
                  /\ next'[c] = next[c] + 1
    <2>1. ASSUME NEW d \in Clients,
                 StartScan(d) \/ RanOutOfPorts(d) \/ Bind(d) \/ Send(d) \/ AcceptStream(d)
          PROVE  next' = next /\ (client'[c] = "noport" => client[c] = "noport"
                                                         \/ next[c] = NPorts + 1)
      BY <2>1 DEF StartScan, RanOutOfPorts, Bind, Send, AcceptStream, Move, TypeOK
    <2>2. ASSUME NEW d \in Clients, Spawn(d) \/ Connect(d) \/ WriteExit(d) \/ Cancel(d)
          PROVE  next' = next /\ client' = client
      BY <2>2 DEF Spawn, Connect, WriteExit, Cancel
    <2>3. ASSUME NEW d \in Clients, ReadExit(d) \/ Die(d)
          PROVE  next' = next /\ (client'[c] = "noport" => client[c] = "noport")
      BY <2>3 DEF ReadExit, Die, LeaveWith, TypeOK
    <2>4. ASSUME NEW d \in Clients, TryPort(d), lock[next[d]] = NoClient
          PROVE  next' = next /\ (client'[c] = "noport" => client[c] = "noport")
      BY <2>4 DEF TryPort, TypeOK
    <2>5. ASSUME NEW d \in Clients, TryPort(d), lock[next[d]] # NoClient
          PROVE  /\ client' = client /\ client[d] = "scan" /\ next[d] \in Ports
                 /\ next' = [next EXCEPT ![d] = @ + 1]
      BY <2>5 DEF TryPort
    <2>6. CASE UNCHANGED vars
      BY <2>6 DEF vars
    <2>7. ASSUME NEW d \in Clients, TryPort(d), lock[next[d]] # NoClient, c = d
          PROVE  /\ client[c] = "scan" /\ client'[c] = "scan"
                 /\ next[c] \in Ports /\ lock[next[c]] # NoClient
                 /\ next'[c] = next[c] + 1
      BY <2>5, <2>7 DEF TypeOK
    <2>8. ASSUME NEW d \in Clients, TryPort(d), lock[next[d]] # NoClient, c # d
          PROVE  next'[c] = next[c] /\ client' = client
      BY <2>5, <2>8 DEF TypeOK
    <2> QED
      BY <2>1, <2>2, <2>3, <2>4, <2>6, <2>7, <2>8 DEF Next
  <1>3. ASSUME NEW c \in Clients, client'[c] = "noport" PROVE next'[c] = NPorts + 1
    BY <1>2, <1>3 DEF ScanInv
  <1>4. ASSUME NEW c \in Clients PROVE \E f : Names(c, f)'
    <2>1. PICK f : Names(c, f)
      BY DEF ScanInv
    <2>2. \A p \in 1 .. next[c] - 1 :
             /\ f[p] \in Took /\ f[p] # c /\ f[p] \in Took'
             /\ client'[f[p]] \in Holding => client[f[p]] \in Holding /\ port'[f[p]] = p
      BY <2>1, TookStays DEF Names
    <2>3. CASE next'[c] = next[c]
      <3>1. f \in [1 .. next[c] - 1 -> Took' \ {c}]
        BY <2>1, <2>2 DEF Names
      <3>2. Names(c, f)'
        BY <2>1, <2>2, <2>3, <3>1 DEF Names
      <3> QED
        BY <3>2
    <2>4. CASE /\ client[c] = "scan" /\ client'[c] = "scan"
               /\ next[c] \in Ports /\ lock[next[c]] # NoClient
               /\ next'[c] = next[c] + 1
      <3> DEFINE n == next[c]
                 d == lock[n]
                 g == [p \in 1 .. n |-> IF p = n THEN d ELSE f[p]]
      <3>1. n \in Nat \ {0} /\ next'[c] - 1 = n
        BY <2>4, PortsAssumption DEF Ports
      <3>2. d \in Clients /\ client[d] \in Holding /\ port[d] = n /\ d # c
        BY <2>4, NoClientAssumption DEF ScanInv, LockNamesHolder, TypeOK, Holding
      <3>3. d \in Took
        BY <3>2 DEF Took, Holding
      <3>4. d \in Took' /\ (client'[d] \in Holding => port'[d] = n)
        BY <3>2, <3>3, TookStays
      <3>5. \A p \in 1 .. n - 1 : f[p] # d
        BY <2>1, <3>1, <3>2 DEF Names
      <3>6. \A p \in 1 .. n : p # n => p \in 1 .. n - 1
        BY <3>1
      <3> HIDE DEF n, d
      <3>7. g \in [1 .. n -> Took' \ {c}]
        BY <2>2, <3>2, <3>4, <3>6 DEF n
      <3>8. \A p, q \in 1 .. n : g[p] = g[q] => p = q
        BY <2>1, <3>5, <3>6 DEF Names, n
      <3>9. \A p \in 1 .. n : client'[g[p]] \in Holding => port'[g[p]] = p
        BY <2>2, <3>4, <3>6 DEF n
      <3> HIDE DEF g
      <3>10. PICK h : h = g
        OBVIOUS
      <3>11. Names(c, h)'
        BY <3>1, <3>7, <3>8, <3>9, <3>10 DEF Names
      <3> QED
        BY <3>11
    <2> QED
      BY <1>2, <2>3, <2>4
  <1> QED
    BY <1>1, <1>3, <1>4 DEF ScanInv

\* The clients that a failed scan has met are as many as there are ports.
LEMMA FailureCounts == TypeOK /\ ScanInv => NoPortMeansBusy
  <1> SUFFICES ASSUME TypeOK, ScanInv, NEW c \in Clients, client[c] = "noport"
               PROVE  Cardinality(Took \ {c}) >= NPorts
    BY DEF NoPortMeansBusy, Took
  <1>1. PICK f : Names(c, f)
    BY DEF ScanInv
  <1>2. next[c] - 1 = NPorts
    BY PortsAssumption DEF ScanInv
  <1>3. f \in Injection(1 .. NPorts, Took \ {c})
    BY <1>1, <1>2 DEF Names, Injection, IsInjective
  <1>4. IsFiniteSet(Took \ {c})
    BY ClientsAssumption, FS_Subset DEF Took
  <1>5. Cardinality(1 .. NPorts) <= Cardinality(Took \ {c})
    BY <1>3, <1>4, FS_Injection
  <1>6. Cardinality(1 .. NPorts) = NPorts
    BY PortsAssumption, FS_Interval
  <1>7. Cardinality(Took \ {c}) \in Nat
    BY <1>4, FS_CardinalityType
  <1> QED
    BY <1>5, <1>6, <1>7, PortsAssumption

\* A client that ran out of ports met, at each of them, another one that took it: the
\* scan never fails for losing a race (find_vsock_port).
THEOREM FailureIsReal == Spec => []NoPortMeansBusy
  <1>1. Init => IInv /\ ScanInv
    BY InitIInv, InitScan
  <1>2. IInv /\ ScanInv /\ [Next]_vars => (IInv /\ ScanInv)'
    BY TypeStep, HoldersStep, ExclusiveStep, ConnectsStep, StreamStep, ChoiceStep, ScanStep DEF IInv
  <1>3. IInv /\ ScanInv => NoPortMeansBusy
    BY FailureCounts DEF IInv
  <1> QED
    BY <1>1, <1>2, <1>3, PTL DEF Spec

\* The variables have their types: a scan stays within the ports and one past them.
THEOREM TypeCorrect == Spec => []TypeOK
  BY Invariance, PTL DEF IInv

---------------------------------------------------------------------------
(* What holds of the streams even when clients die before their requests'   *)
(* threads have connected.                                                  *)

\* The thread of a request has connected to client c.
Waits(r, c) == \E i \in DOMAIN backlog[c] : backlog[c][i] = r
Meets(r, c) == stream[c] = r \/ Waits(r, c)

\* A connection is nowhere before it is made.
NotBefore ==
    \A r, c \in Clients : request[r] \in {"none", "spawned", "refused"} => ~Meets(r, c)

\* And in one place then: two clients never read one connection.
OneReader ==
    \A c, d \in Clients : stream[c] = stream[d] /\ stream[c] # NoClient => c = d

OnePlace ==
    /\ \A c, d \in Clients : \A i \in DOMAIN backlog[c], j \in DOMAIN backlog[d] :
          backlog[c][i] = backlog[d][j] => c = d /\ i = j
    /\ \A c, d \in Clients : ~Waits(stream[d], c)

\* A thread goes to another client than its own only when its own is gone.
OnlyOrphansStray ==
    \A r, c \in Clients : r # c /\ Meets(r, c) => client[r] \in {"done", "dead"}

\* No client that waits for its output loses it to another client, whoever dies: what a
\* client reads is its own command's, or that of a client that has ended.
StreamIsNotStolen ==
    \A r \in Clients : client[r] \in {"sent", "serving"} =>
        \A c \in Clients \ {r} : stream[c] # r

\* A client returns an exit code only when the command it listened to has given one.
CodeIsReal ==
    \A c \in Clients : client[c] = "done" =>
        stream[c] \in Clients /\ request[stream[c]] = "exited"

\* The same with what it needs: who serves has a stream, and who sent a request is not
\* a client that still looks for a port.
ClientInv ==
    /\ \A c \in Clients : client[c] = "serving" => stream[c] # NoClient
    /\ \A r \in Clients : request[r] # "none" =>
          client[r] \in {"sent", "serving", "done", "dead"}
    /\ CodeIsReal

PlacesInv ==
    NotBefore /\ OneReader /\ OnePlace /\ OnlyOrphansStray /\ ClientInv

\* No request is on its way.
LEMMA InitPlaces == Init => PlacesInv
  BY NoClientAssumption DEF Init, PlacesInv, NotBefore, OneReader, OnePlace, OnlyOrphansStray,
    ClientInv, CodeIsReal, Meets, Waits

\* The steps that only take connections away.
LEMMA PlacesWithoutConnection ==
    ASSUME TypeOK, NotBefore, OneReader, OnePlace, OnlyOrphansStray,
           \A c \in Clients : backlog'[c] \in {backlog[c], <<>>},
           stream' = stream,
           \A r \in Clients : request'[r] \in {"none", "spawned", "refused"} =>
               request[r] \in {"none", "spawned", "refused"},
           \A r \in Clients : client[r] \in {"done", "dead"} => client'[r] \in {"done", "dead"}
    PROVE  (NotBefore /\ OneReader /\ OnePlace /\ OnlyOrphansStray)'
  <1>1. \A r, c \in Clients : Meets(r, c)' => Meets(r, c)
    <2> DOMAIN <<>> = {}
      OBVIOUS
    <2> QED
      BY DEF Meets, Waits
  <1>2. NotBefore' /\ OnlyOrphansStray'
    BY <1>1 DEF NotBefore, OnlyOrphansStray
  <1>3. OneReader'
    BY DEF OneReader
  <1>4. \A c \in Clients : \A i \in DOMAIN backlog'[c] :
           i \in DOMAIN backlog[c] /\ backlog'[c][i] = backlog[c][i]
    <2> DOMAIN <<>> = {}
      OBVIOUS
    <2> QED
      OBVIOUS
  <1>5. OnePlace'
    BY <1>4 DEF OnePlace, Waits
  <1> QED
    BY <1>2, <1>3, <1>5

\* A new connection is the request's first, and at its own client if that is there.
LEMMA PlacesAtConnect ==
    ASSUME TypeOK, PortIsExclusive, NotBefore, OneReader, OnePlace, OnlyOrphansStray, ClientInv,
           NEW r \in Clients, Connect(r)
    PROVE  (NotBefore /\ OneReader /\ OnePlace /\ OnlyOrphansStray)'
  <1> DEFINE c == listener[port[r]]
  <1>0. request[r] = "spawned" /\ client' = client /\ stream' = stream /\ port' = port
    BY DEF Connect
  <1>1. CASE c = NoClient \/ c \notin Clients
    <2>1. \A d \in Clients : backlog'[d] = backlog[d]
      BY <1>1 DEF Connect, TypeOK
    <2>2. request' \in {[request EXCEPT ![r] = "refused"], [request EXCEPT ![r] = "connected"]}
      BY DEF Connect
    <2> QED
      BY <1>0, <2>1, <2>2, PlacesWithoutConnection DEF TypeOK
  <1>2. CASE c # NoClient /\ c \in Clients
    <2>1. /\ request' = [request EXCEPT ![r] = "connected"]
          /\ backlog' = [backlog EXCEPT ![c] = Append(@, r)]
      BY <1>2 DEF Connect
    <2>2. client[r] \in {"sent", "serving", "done", "dead"}
      BY <1>0 DEF ClientInv
    <2>3. client[r] \in {"done", "dead"} \/ c = r
      BY <2>2 DEF PortIsExclusive
    <2> HIDE DEF c
    <2>4. \A d \in Clients : d # c => backlog'[d] = backlog[d]
      BY <2>1 DEF TypeOK
    <2>5. backlog'[c] = Append(backlog[c], r) /\ backlog[c] \in Seq(Clients)
      BY <1>2, <2>1 DEF TypeOK
    <2>6. \A d \in Clients : \A i \in DOMAIN backlog'[d] :
             \/ i \in DOMAIN backlog[d] /\ backlog'[d][i] = backlog[d][i]
             \/ d = c /\ i = Len(backlog[c]) + 1 /\ backlog'[d][i] = r
      BY <2>4, <2>5
    <2>7. \A d \in Clients : \A i \in DOMAIN backlog[d] : backlog[d][i] # r
      BY <1>0 DEF NotBefore, Meets, Waits
    <2>8. \A d \in Clients : stream[d] # r
      BY <1>0 DEF NotBefore, Meets
    <2>9. \A q, d \in Clients : Meets(q, d)' => Meets(q, d) \/ (q = r /\ d = c)
      BY <1>0, <2>6 DEF Meets, Waits
    <2>10. NotBefore'
      BY <1>0, <2>1, <2>9 DEF NotBefore, TypeOK
    <2>11. OnlyOrphansStray'
      BY <1>0, <2>3, <2>9 DEF OnlyOrphansStray
    <2>12. OneReader'
      BY <1>0 DEF OneReader
    <2>13. OnePlace'
      <3>1. \A d, e \in Clients : \A i \in DOMAIN backlog'[d], j \in DOMAIN backlog'[e] :
               backlog'[d][i] = backlog'[e][j] => d = e /\ i = j
        BY <2>6, <2>7 DEF OnePlace
      <3>2. \A d, e \in Clients : ~Waits(stream[d], e)'
        BY <1>0, <2>6, <2>8 DEF OnePlace, Waits
      <3> QED
        BY <1>0, <3>1, <3>2 DEF OnePlace, Waits
    <2> QED
      BY <2>10, <2>11, <2>12, <2>13
  <1> QED
    BY <1>1, <1>2

\* A connection that is accepted leaves the backlog.
LEMMA PlacesAtAccept ==
    ASSUME TypeOK, NotBefore, OneReader, OnePlace, OnlyOrphansStray,
           NEW c \in Clients, AcceptStream(c)
    PROVE  (NotBefore /\ OneReader /\ OnePlace /\ OnlyOrphansStray)'
  <1>1. /\ backlog[c] # <<>> /\ backlog[c] \in Seq(Clients)
        /\ request' = request
        /\ client' = [client EXCEPT ![c] = "serving"] /\ client[c] = "sent"
        /\ stream' = [stream EXCEPT ![c] = Head(backlog[c])]
        /\ backlog' = [backlog EXCEPT ![c] = Tail(@)]
    BY DEF AcceptStream, Move, TypeOK
  <1>2. 1 \in DOMAIN backlog[c] /\ Head(backlog[c]) = backlog[c][1] /\ backlog[c][1] \in Clients
    BY <1>1
  <1>3. /\ stream'[c] = backlog[c][1]
        /\ \A d \in Clients : d # c => stream'[d] = stream[d] /\ backlog'[d] = backlog[d]
    BY <1>1, <1>2 DEF TypeOK
  <1>4. \A i \in DOMAIN backlog'[c] :
           i + 1 \in DOMAIN backlog[c] /\ i + 1 # 1 /\ backlog'[c][i] = backlog[c][i + 1] /\ i \in Nat
    <2>1. backlog'[c] = Tail(backlog[c])
      BY <1>1 DEF TypeOK
    <2>2. \A q \in Seq(Clients) : q # <<>> =>
             \A i \in DOMAIN Tail(q) :
                i \in Nat /\ i + 1 \in DOMAIN q /\ i + 1 # 1 /\ Tail(q)[i] = q[i + 1]
      OBVIOUS
    <2> QED
      BY <1>1, <2>1, <2>2
  <1>5. \A r, d \in Clients : Meets(r, d)' => Meets(r, d)
    BY <1>2, <1>3, <1>4 DEF Meets, Waits
  <1>6. NotBefore' /\ OnlyOrphansStray'
    BY <1>1, <1>5 DEF NotBefore, OnlyOrphansStray, TypeOK
  <1>7. OneReader'
    BY <1>2, <1>3 DEF OneReader, OnePlace, Waits
  <1>8. \A d, e \in Clients : \A i \in DOMAIN backlog'[d], j \in DOMAIN backlog'[e] :
           backlog'[d][i] = backlog'[e][j] => d = e /\ i = j
    <2> SUFFICES ASSUME NEW d \in Clients, NEW e \in Clients,
                        NEW i \in DOMAIN backlog'[d], NEW j \in DOMAIN backlog'[e],
                        backlog'[d][i] = backlog'[e][j]
                 PROVE  d = e /\ i = j
      OBVIOUS
    <2>1. CASE d = c /\ e = c
      <3>1. i + 1 = j + 1 /\ i \in Nat /\ j \in Nat
        BY <1>4, <2>1 DEF OnePlace
      <3> QED
        BY <2>1, <3>1
    <2>2. CASE d # c \/ e # c
      BY <1>3, <1>4, <2>2 DEF OnePlace
    <2> QED
      BY <2>1, <2>2
  <1>9. \A d, e \in Clients : \A i \in DOMAIN backlog'[e] : backlog'[e][i] # stream'[d]
    BY <1>2, <1>3, <1>4 DEF OnePlace, Waits
  <1>10. OnePlace'
    BY <1>8, <1>9 DEF OnePlace, Waits
  <1> QED
    BY <1>6, <1>7, <1>10

\* The clients' side of it.
LEMMA ClientStep == TypeOK /\ ClientInv /\ [Next]_vars => ClientInv'
  <1> SUFFICES ASSUME TypeOK, ClientInv, [Next]_vars PROVE ClientInv'
    OBVIOUS
  <1> USE NoClientAssumption DEF TypeOK, ClientInv, CodeIsReal, Move, LeaveWith
  <1>1. ASSUME NEW c \in Clients,
               StartScan(c) \/ TryPort(c) \/ RanOutOfPorts(c) \/ Bind(c) \/ Send(c)
        PROVE  ClientInv'
    BY <1>1 DEF StartScan, TryPort, RanOutOfPorts, Bind, Send
  <1>2. ASSUME NEW c \in Clients, Spawn(c) \/ Connect(c) \/ WriteExit(c) \/ Cancel(c)
        PROVE  ClientInv'
    BY <1>2 DEF Spawn, Connect, WriteExit, Cancel
  <1>3. ASSUME NEW c \in Clients, AcceptStream(c) PROVE ClientInv'
    <2>1. Head(backlog[c]) \in Clients
      BY <1>3 DEF AcceptStream
    <2> QED
      BY <1>3, <2>1 DEF AcceptStream
  <1>4. ASSUME NEW c \in Clients, ReadExit(c) PROVE ClientInv'
    BY <1>4 DEF ReadExit
  <1>5. ASSUME NEW c \in Clients, Die(c) PROVE ClientInv'
    BY <1>5 DEF Die
  <1>6. CASE UNCHANGED vars
    BY <1>6 DEF vars
  <1> QED
    BY <1>1, <1>2, <1>3, <1>4, <1>5, <1>6 DEF Next

\* Every step keeps the connections in their places.
LEMMA PlacesStep == IInv /\ PlacesInv /\ [Next]_vars => PlacesInv'
  <1> SUFFICES ASSUME IInv, PlacesInv, [Next]_vars
               PROVE  (NotBefore /\ OneReader /\ OnePlace /\ OnlyOrphansStray)'
    BY ClientStep DEF PlacesInv, IInv
  <1>0. TypeOK /\ PortIsExclusive /\ NotBefore /\ OneReader /\ OnePlace /\ OnlyOrphansStray
        /\ ClientInv
    BY DEF IInv, PlacesInv
  <1> DEFINE Only ==
        /\ \A c \in Clients : backlog'[c] \in {backlog[c], <<>>}
        /\ stream' = stream
        /\ \A r \in Clients : request'[r] \in {"none", "spawned", "refused"} =>
              request[r] \in {"none", "spawned", "refused"}
        /\ \A r \in Clients : client[r] \in {"done", "dead"} => client'[r] \in {"done", "dead"}
  <1>1. ASSUME NEW c \in Clients,
               StartScan(c) \/ TryPort(c) \/ RanOutOfPorts(c) \/ Bind(c) \/ Send(c)
        PROVE  Only
    BY <1>0, <1>1 DEF StartScan, TryPort, RanOutOfPorts, Bind, Send, Move, TypeOK
  <1>2. ASSUME NEW c \in Clients, Spawn(c) \/ WriteExit(c) \/ Cancel(c) PROVE Only
    BY <1>0, <1>2 DEF Spawn, WriteExit, Cancel, TypeOK
  <1>3. ASSUME NEW c \in Clients, ReadExit(c) \/ Die(c) PROVE Only
    BY <1>0, <1>3 DEF ReadExit, Die, LeaveWith, TypeOK
  <1>4. ASSUME UNCHANGED vars PROVE Only
    BY <1>4 DEF vars
  <1>5. ASSUME Only PROVE (NotBefore /\ OneReader /\ OnePlace /\ OnlyOrphansStray)'
    BY <1>0, <1>5, PlacesWithoutConnection
  <1> QED
    BY <1>0, <1>1, <1>2, <1>3, <1>4, <1>5, PlacesAtConnect, PlacesAtAccept DEF Next

\* Every connection is in one place, and strays only from a client that is gone.
THEOREM PlacesInvariance == Spec => []PlacesInv
  BY InitPlaces, PlacesStep, Invariance, PTL DEF Spec

\* No client that still waits for its command's output loses it to another one, whichever
\* clients die and whenever.
THEOREM OutputStaysHome == Spec => []StreamIsNotStolen
  <1>1. PlacesInv => StreamIsNotStolen
    BY DEF PlacesInv, OnlyOrphansStray, Meets, StreamIsNotStolen
  <1> QED
    BY <1>1, PlacesInvariance, PTL

\* Two clients never read one command's output.
THEOREM OneListener == Spec => []OneReader
  BY PlacesInvariance, PTL DEF PlacesInv

\* The code a client returns is one that a command has exited with, and, where no client
\* dies before its thread has connected, its own command's.
THEOREM ReturnedCodes ==
    Spec => [](CodeIsReal
               /\ (~earlyDeath => \A c \in Clients : client[c] = "done" => request[c] = "exited"))
  <1>1. IInv /\ PlacesInv =>
            CodeIsReal
            /\ (~earlyDeath => \A c \in Clients : client[c] = "done" => request[c] = "exited")
    BY NoClientAssumption DEF IInv, PlacesInv, ClientInv, CodeIsReal, StreamIsOwn
  <1> QED
    BY <1>1, Invariance, PlacesInvariance, PTL
=============================================================================

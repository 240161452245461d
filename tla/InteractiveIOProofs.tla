------------------------- MODULE InteractiveIOProofs -------------------------
(***************************************************************************)
(* The interactive I/O, proved for any amount of input, output and window  *)
(* changes and any capacity of the sockets and pipes.                      *)
(***************************************************************************)
EXTENDS InteractiveIO, FiniteSetTheorems, TLAPS

Pieces == {"data", "eof", "size", "body"}

\* Is the guest in the middle of a packet once it has read the first i pieces?
Inside(i) == IF i = 0 THEN input \in {"data", "size"} ELSE toGuest[i] \in {"data", "size"}

\* A body follows its command on the socket and nothing else does, and the host is inside
\* a packet where the socket's end is.
Ordered ==
    /\ \A i \in 1 .. Len(toGuest) : (toGuest[i] = "body") <=> Inside(i - 1)
    /\ Inside(Len(toGuest)) <=> feeder = "body" \/ main = "body"

\* The socket is in order as long as somebody reads it, and the host writes under the
\* mutex.
PacketInv ==
    /\ toGuest \in Seq(Pieces)
    /\ input \in {"read", "data", "size", "write", "ended"}
    /\ chunk \in {"data", "eof"}
    /\ input # "ended" => Ordered
    /\ feeder \in {"head", "body"} => mutex = "feeder"
    /\ main \in {"size", "body"} => mutex = "main"

\* A command is written where a packet has ended, a body where one has begun.
LEMMA PutKeeps ==
    ASSUME PacketInv, Ordered, NEW piece \in Pieces, PutGuest(piece), UNCHANGED input,
           (piece = "body") <=> (feeder = "body" \/ main = "body")
    PROVE  /\ toGuest' \in Seq(Pieces)
           /\ \A i \in 1 .. Len(toGuest') : (toGuest'[i] = "body") <=> Inside(i - 1)'
           /\ Inside(Len(toGuest))' <=> piece \in {"data", "size"}
  <1>1. /\ toGuest' = Append(toGuest, piece) /\ toGuest' \in Seq(Pieces)
        /\ Len(toGuest') = Len(toGuest) + 1 /\ Len(toGuest) \in Nat
        /\ toGuest'[Len(toGuest) + 1] = piece
        /\ \A i \in 1 .. Len(toGuest) : toGuest'[i] = toGuest[i]
    BY DEF PutGuest, PacketInv, Ordered
  <1>2. \A i \in 0 .. Len(toGuest) : Inside(i)' <=> Inside(i)
    BY <1>1 DEF Inside
  <1>3. Inside(Len(toGuest))
        <=> (feeder = "body" \/ main = "body")
    BY DEF PacketInv, Ordered
  <1>4. ASSUME NEW i \in 1 .. Len(toGuest') PROVE (toGuest'[i] = "body") <=> Inside(i - 1)'
    <2>1. CASE i = Len(toGuest) + 1
      <3>1. Inside(i - 1)' <=> Inside(Len(toGuest))
        BY <1>1, <1>2, <2>1
      <3> QED
        BY <1>1, <1>3, <2>1, <3>1
    <2>2. CASE i # Len(toGuest) + 1
      <3>1. i \in 1 .. Len(toGuest) /\ i - 1 \in 0 .. Len(toGuest)
        BY <1>1, <2>2
      <3>2. (toGuest[i] = "body") <=> Inside(i - 1)
        BY <3>1 DEF PacketInv, Ordered
      <3> QED
        BY <1>1, <1>2, <3>1, <3>2
    <2> QED
      BY <2>1, <2>2
  <1>5. Inside(Len(toGuest))' <=> piece \in {"data", "size"}
    <2>1. Len(toGuest') # 0 /\ toGuest'[Len(toGuest')] = piece
      BY <1>1
    <2> QED
      BY <2>1 DEF Inside
  <1> QED
    BY <1>1, <1>4, <1>5

\* Reading a piece leaves the guest where the socket's order puts it, and never finds a
\* piece that does not belong there.
LEMMA ReadKeeps ==
    ASSUME PacketInv, Ordered, InputRead
    PROVE  /\ toGuest' \in Seq(Pieces)
           /\ input' \in {"read", "data", "size", "write"}
           /\ \A i \in 1 .. Len(toGuest') : (toGuest'[i] = "body") <=> Inside(i - 1)'
           /\ Inside(Len(toGuest))' <=> Inside(Len(toGuest))
  <1>1. /\ toGuest \in Seq(Pieces) /\ toGuest # <<>> /\ Len(toGuest) \in Nat \ {0}
        /\ toGuest' = Tail(toGuest) /\ toGuest' \in Seq(Pieces)
        /\ Len(toGuest') = Len(toGuest) - 1 /\ Head(toGuest) = toGuest[1]
        /\ \A i \in 1 .. Len(toGuest) - 1 : toGuest'[i] = toGuest[i + 1]
    BY DEF InputRead, PacketInv, Ordered
  <1>2. (toGuest[1] = "body") <=> Inside(0)
    BY <1>1 DEF PacketInv, Ordered
  <1>3. input \in {"read", "data", "size"} /\ (Inside(0) <=> input # "read")
    BY DEF InputRead, Inside
  <1>4. input' \in {"read", "data", "size", "write"}
        /\ (input' \in {"data", "size"} <=> toGuest[1] \in {"data", "size"})
    BY <1>1, <1>2, <1>3 DEF InputRead
  <1>5. ASSUME NEW i \in 0 .. Len(toGuest') PROVE Inside(i)' <=> Inside(i + 1)
    BY <1>1, <1>4, <1>5 DEF Inside
  <1>6. ASSUME NEW i \in 1 .. Len(toGuest') PROVE (toGuest'[i] = "body") <=> Inside(i - 1)'
    <2>1. i - 1 \in 0 .. Len(toGuest') /\ i + 1 \in 1 .. Len(toGuest)
      BY <1>1, <1>6
    <2>2. (toGuest[i + 1] = "body") <=> Inside((i + 1) - 1)
      BY <2>1 DEF PacketInv, Ordered
    <2>3. Inside(i - 1)' <=> Inside(i)
      BY <1>5, <2>1
    <2>4. toGuest'[i] = toGuest[i + 1] /\ (i + 1) - 1 = i
      BY <1>1, <1>6
    <2> QED
      BY <2>2, <2>3, <2>4
  <1>7. Inside(Len(toGuest))' <=> Inside(Len(toGuest))
    <2>0. Len(toGuest') \in Nat /\ Len(toGuest') + 1 = Len(toGuest)
      BY <1>1
    <2>1. PICK k \in 0 .. Len(toGuest') : k = Len(toGuest') /\ k + 1 = Len(toGuest)
      BY <2>0
    <2>2. Inside(k)' <=> Inside(k + 1)
      BY <1>5, <2>1
    <2>3. Inside(Len(toGuest))' <=> Inside(k)'
      BY <2>1 DEF Inside
    <2> QED
      BY <2>1, <2>2, <2>3
  <1> QED
    BY <1>1, <1>4, <1>6, <1>7

\* No step puts a piece where it does not belong.
LEMMA PacketStep == PacketInv /\ [Next]_vars => PacketInv'
  <1> SUFFICES ASSUME PacketInv, [Next]_vars PROVE PacketInv'
    OBVIOUS
  <1> DEFINE same == UNCHANGED <<toGuest, input, feeder, main, mutex, chunk>>
  <1>1. CASE same
    BY <1>1 DEF PacketInv, Ordered, Inside
  <1>2. CASE FeederRead \/ FeederLock \/ HostRead \/ HostWinch \/ HostLock
    <2>1. UNCHANGED <<toGuest, input>>
      BY <1>2 DEF FeederRead, FeederLock, HostRead, HostWinch, HostLock, inputVars
    <2>2. /\ feeder' = "body" <=> feeder = "body"
          /\ main' = "body" <=> main = "body"
          /\ feeder' \in {"head", "body"} => mutex' = "feeder"
          /\ main' \in {"size", "body"} => mutex' = "main"
          /\ chunk' \in {"data", "eof"}
      BY <1>2 DEF FeederRead, FeederLock, HostRead, HostWinch, HostLock, inputVars, PacketInv
    <2> QED
      BY <2>1, <2>2 DEF PacketInv, Ordered, Inside
  <1>3. CASE FeederWrite
    <2>1. input' = input /\ chunk' = chunk /\ main' = main /\ main \notin {"size", "body"}
      BY <1>3 DEF FeederWrite, inputVars, PacketInv
    <2>5. /\ toGuest' \in Seq(Pieces)
          /\ feeder' \in {"head", "body"} => mutex' = "feeder"
          /\ feeder' = "read" \/ feeder' = "ended" => mutex' = "free"
      BY <1>3 DEF FeederWrite, PutGuest, PacketInv, Pieces
    <2>6. CASE input = "ended"
      BY <2>1, <2>5, <2>6 DEF PacketInv
    <2> SUFFICES ASSUME input # "ended" PROVE Ordered'
      BY <2>1, <2>5, <2>6 DEF PacketInv
    <2>7. Ordered /\ ~GuestHungUp
      BY DEF PacketInv, GuestHungUp
    <2>2. CASE feeder = "head" /\ chunk = "data" /\ PutGuest("data") /\ feeder' = "body"
                 /\ UNCHANGED mutex
      <3>1. "data" \in Pieces /\ (("data" = "body") <=> (feeder = "body" \/ main = "body"))
        BY <2>1, <2>2 DEF Pieces
      <3> QED
        BY <2>1, <2>2, <2>7, <3>1, PutKeeps DEF Ordered
    <2>3. CASE feeder = "body" /\ PutGuest("body") /\ feeder' = "read" /\ mutex' = "free"
      <3>1. "body" \in Pieces /\ (("body" = "body") <=> (feeder = "body" \/ main = "body"))
        BY <2>1, <2>3 DEF Pieces
      <3> QED
        BY <2>1, <2>3, <2>7, <3>1, PutKeeps DEF Ordered
    <2>4. CASE feeder = "head" /\ chunk = "eof" /\ PutGuest("eof") /\ feeder' = "ended"
                 /\ mutex' = "free"
      <3>1. "eof" \in Pieces /\ (("eof" = "body") <=> (feeder = "body" \/ main = "body"))
        BY <2>1, <2>4 DEF Pieces
      <3> QED
        BY <2>1, <2>4, <2>7, <3>1, PutKeeps DEF Ordered
    <2> QED
      BY <1>3, <2>2, <2>3, <2>4, <2>7 DEF FeederWrite
  <1>4. CASE HostSize
    <2>1. /\ input' = input /\ chunk' = chunk /\ feeder' = feeder
          /\ feeder \notin {"head", "body"} /\ mutex = "main"
      BY <1>4 DEF HostSize, inputVars, PacketInv
    <2>5. /\ toGuest' \in Seq(Pieces)
          /\ main' \in {"size", "body"} => mutex' = "main"
      BY <1>4 DEF HostSize, PutGuest, PacketInv, Pieces
    <2>6. CASE input = "ended"
      BY <2>1, <2>5, <2>6 DEF PacketInv
    <2> SUFFICES ASSUME input # "ended" PROVE Ordered'
      BY <2>1, <2>5, <2>6 DEF PacketInv
    <2>7. Ordered /\ ~GuestHungUp
      BY DEF PacketInv, GuestHungUp
    <2>2. CASE main = "size" /\ PutGuest("size") /\ main' = "body" /\ UNCHANGED mutex
      <3>1. "size" \in Pieces /\ (("size" = "body") <=> (feeder = "body" \/ main = "body"))
        BY <2>1, <2>2 DEF Pieces
      <3> QED
        BY <2>1, <2>2, <2>7, <3>1, PutKeeps DEF Ordered
    <2>3. CASE main = "body" /\ PutGuest("body") /\ main' = "poll"
      <3>1. "body" \in Pieces /\ (("body" = "body") <=> (feeder = "body" \/ main = "body"))
        BY <2>1, <2>3 DEF Pieces
      <3> QED
        BY <2>1, <2>3, <2>7, <3>1, PutKeeps DEF Ordered
    <2> QED
      BY <1>4, <2>2, <2>3, <2>7 DEF HostSize
  <1>5. CASE InputRead
    <2>1. UNCHANGED <<feeder, main, mutex, chunk>>
      BY <1>5 DEF InputRead, hostVars
    <2>2. Ordered
      BY <1>5 DEF InputRead, PacketInv
    <2> QED
      BY <1>5, <2>1, <2>2, ReadKeeps DEF PacketInv, Ordered
  <1>6. CASE InputWrite
    <2>1. /\ UNCHANGED <<toGuest, feeder, main, mutex, chunk>>
          /\ input = "write" /\ input' \in {"read", "ended"}
      BY <1>6 DEF InputWrite, hostVars
    <2> QED
      BY <2>1 DEF PacketInv, Ordered, Inside
  <1> QED
    BY <1>1, <1>2, <1>3, <1>4, <1>5, <1>6
    DEF Next, HostLoop, FeederSend, InputStep, PumpStep, ChildStep, WindowChange, PumpEnd,
      PumpRead, PumpSend, PumpCode, PumpExit, PumpWriteExit, ChildWrite, ChildClose, ChildRead,
      ChildCloseInput, LeaderExit, WriteCode, vars, hostVars, inputVars

\* The order of the pieces on the socket, whoever writes them when.
THEOREM PacketInvariance == Spec => []PacketInv
  <1>1. Init => PacketInv
    <2> SUFFICES ASSUME Init PROVE PacketInv
      OBVIOUS
    <2>1. toGuest = <<>> /\ Len(toGuest) = 0 /\ toGuest \in Seq(Pieces)
      BY DEF Init
    <2>2. input = "read" /\ feeder = "read" /\ chunk = "data"
      BY DEF Init
    <2>3. main \in {"poll", "size"} /\ (main = "size" => mutex = "main")
      BY DEF Init
    <2> QED
      BY <2>1, <2>2, <2>3 DEF PacketInv, Ordered, Inside
  <1> QED
    BY <1>1, PacketStep, PTL DEF Spec

\* The packets of the host's two threads never mix.
THEOREM PacketsStayWhole == Spec => []PacketsIntact
  <1>1. PacketInv => PacketsIntact
    BY DEF PacketInv, PacketsIntact
  <1> QED
    BY <1>1, PacketInvariance, PTL

---------------------------------------------------------------------------
(* Every chunk of output is in one place.                                  *)

Packet == Streams \cup {"exit"}

\* How often packet s is in the socket q.
Count(q, s) == Cardinality({i \in DOMAIN q : q[i] = s})

\* A socket holds finitely many packets.
LEMMA CountType ==
    ASSUME NEW q \in Seq(Packet), NEW s \in Packet
    PROVE  Count(q, s) \in Nat
  <1> DEFINE here == {i \in DOMAIN q : q[i] = s}
  <1>1. IsFiniteSet(1 .. Len(q))
    BY FS_Interval, 1 \in Int, Len(q) \in Int
  <1>2. here \subseteq 1 .. Len(q)
    OBVIOUS
  <1>3. IsFiniteSet(here)
    BY <1>1, <1>2, FS_Subset
  <1> QED
    BY <1>3, FS_CardinalityType DEF Count

\* A packet that is written is counted once more.
LEMMA CountAppend ==
    ASSUME NEW q \in Seq(Packet), NEW t \in Packet, NEW s \in Packet
    PROVE  Count(Append(q, t), s) = Count(q, s) + (IF t = s THEN 1 ELSE 0)
  <1> DEFINE old == {i \in DOMAIN q : q[i] = s}
             new == {i \in DOMAIN Append(q, t) : Append(q, t)[i] = s}
  <1>1. DOMAIN q = 1 .. Len(q) /\ Len(q) \in Nat
    OBVIOUS
  <1>2. IsFiniteSet(old)
    BY <1>1, FS_Interval, FS_Subset, 1 \in Int, Len(q) \in Int
  <1>3. CASE t = s
    <2>1. new = old \cup {Len(q) + 1} /\ Len(q) + 1 \notin old
      BY <1>1, <1>3
    <2>2. Cardinality(new) = Cardinality(old) + 1
      <3> HIDE DEF old, new
      <3> QED
        BY <1>2, <2>1, FS_AddElement
    <2> QED
      BY <1>3, <2>2 DEF Count
  <1>4. CASE t # s
    <2>1. new = old
      BY <1>1, <1>4
    <2>2. Count(q, s) \in Nat
      BY CountType
    <2>3. Count(Append(q, t), s) = Count(q, s)
      BY <2>1 DEF Count
    <2> HIDE DEF Count
    <2> QED
      BY <1>4, <2>2, <2>3
  <1> QED
    BY <1>3, <1>4

\* One that is read, once less.
LEMMA CountTail ==
    ASSUME NEW q \in Seq(Packet), q # <<>>, NEW s \in Packet
    PROVE  Count(q, s) = Count(Tail(q), s) + (IF Head(q) = s THEN 1 ELSE 0)
  <1> DEFINE all == {i \in DOMAIN q : q[i] = s}
             rest == {i \in DOMAIN Tail(q) : Tail(q)[i] = s}
             moved == {i \in 2 .. Len(q) : q[i] = s}
             up == [i \in rest |-> i + 1]
  <1>1. /\ DOMAIN q = 1 .. Len(q) /\ Len(q) \in Nat \ {0}
        /\ DOMAIN Tail(q) = 1 .. Len(q) - 1
        /\ \A i \in 1 .. Len(q) - 1 : Tail(q)[i] = q[i + 1]
        /\ Head(q) = q[1]
    OBVIOUS
  <1>2. IsFiniteSet(rest) /\ IsFiniteSet(moved)
    BY <1>1, FS_Interval, FS_Subset, 1 \in Int, 2 \in Int, Len(q) \in Int, Len(q) - 1 \in Int
  <1>3. Cardinality(rest) = Cardinality(moved)
    <2>1. up \in [rest -> moved]
      BY <1>1
    <2>2. \A i, j \in rest : up[i] = up[j] => i = j
      BY <1>1
    <2>3. \A j \in moved : \E i \in rest : up[i] = j
      <3> SUFFICES ASSUME NEW j \in moved PROVE j - 1 \in rest /\ up[j - 1] = j
        OBVIOUS
      <3> QED
        BY <1>1
    <2>4. up \in Bijection(rest, moved)
      BY <2>1, <2>2, <2>3 DEF Bijection, Injection, Surjection, IsInjective
    <2> QED
      BY <1>2, <2>4, FS_Bijection DEF ExistsBijection
  <1>4. CASE Head(q) = s
    <2>1. all = moved \cup {1} /\ 1 \notin moved
      BY <1>1, <1>4
    <2>2. Cardinality(all) = Cardinality(rest) + 1
      <3> HIDE DEF all, rest, moved
      <3> QED
        BY <1>2, <1>3, <2>1, FS_AddElement
    <2> QED
      BY <1>4, <2>2 DEF Count
  <1>5. CASE Head(q) # s
    <2>1. all = moved
      BY <1>1, <1>5
    <2>2. Cardinality(rest) \in Nat
      BY <1>2, FS_CardinalityType
    <2>3. Count(q, s) = Cardinality(all) /\ Count(Tail(q), s) = Cardinality(rest)
      BY DEF Count
    <2> HIDE DEF Count, all, rest, moved
    <2> QED
      BY <1>3, <1>5, <2>1, <2>2, <2>3
  <1> QED
    BY <1>4, <1>5

\* Every chunk that was written was received or is in the socket, in the pump's hands or
\* in the pipe; a stream the pump has given up is empty and nobody writes it; the exit code
\* is the last packet, and follows the end of every stream.
OutputInv ==
    /\ toHost \in Seq(Packet)
    /\ wrote \in [Streams -> Nat]
    /\ got \in [Streams -> Nat]
    /\ pipe \in [Streams -> Nat]
    /\ pump \in {"poll", "exit", "ended"} \cup Streams
    /\ writers \subseteq opened
    /\ opened \subseteq Streams
    /\ \A s \in Streams :
          wrote[s] = got[s] + Count(toHost, s) + (IF pump = s THEN 1 ELSE 0) + pipe[s]
    /\ \A s \in Streams \ opened : pipe[s] = 0
    /\ pump \in {"exit", "ended"} => opened = {}
    /\ \A i \in 1 .. Len(toHost) : toHost[i] = "exit" => i = Len(toHost) /\ pump = "ended"
    /\ main = "done" => toHost = <<>> /\ pump = "ended"

\* The pump writes while no exit code is in the socket.
LEMMA PumpPuts ==
    ASSUME OutputInv, NEW packet \in Packet, PutHost(packet), pump # "ended",
           packet = "exit" => pump' = "ended"
    PROVE  /\ toHost' \in Seq(Packet)
           /\ \A s \in Streams : Count(toHost', s) = Count(toHost, s)
                                     + (IF packet = s THEN 1 ELSE 0)
           /\ \A i \in 1 .. Len(toHost') : toHost'[i] = "exit" => i = Len(toHost') /\ pump' = "ended"
  <1>1. /\ toHost \in Seq(Packet) /\ toHost' = Append(toHost, packet)
        /\ Len(toHost') = Len(toHost) + 1 /\ toHost'[Len(toHost) + 1] = packet
        /\ \A i \in 1 .. Len(toHost) : toHost'[i] = toHost[i]
    BY DEF PutHost, OutputInv
  <1>2. \A s \in Streams : Count(toHost', s) = Count(toHost, s) + (IF packet = s THEN 1 ELSE 0)
    BY <1>1, CountAppend DEF Packet
  <1>3. \A i \in 1 .. Len(toHost) : toHost[i] # "exit"
    BY DEF OutputInv
  <1> QED
    BY <1>1, <1>2, <1>3

\* Neither a packet nor a chunk is lost on its way, and nothing comes after the exit code.
LEMMA OutputStep == OutputInv /\ [Next]_vars => OutputInv'
  <1> SUFFICES ASSUME OutputInv, [Next]_vars PROVE OutputInv'
    OBVIOUS
  <1>0. \A s \in Streams : Count(toHost, s) \in Nat
    BY CountType DEF OutputInv, Packet
  <1> USE DEF hostVars, inputVars, pumpVars, childVars
  <1>1. CASE UNCHANGED <<toHost, wrote, got, pipe, pump, writers, opened>> /\ main' # "done"
    BY <1>1 DEF OutputInv
  <1>2. CASE HostRead
    <2>1. /\ toHost \in Seq(Packet) /\ toHost # <<>> /\ Len(toHost) \in Nat \ {0}
          /\ toHost' = Tail(toHost) /\ toHost' \in Seq(Packet)
          /\ Len(toHost') = Len(toHost) - 1
          /\ Head(toHost) = toHost[1] /\ Head(toHost) \in Packet
          /\ \A i \in 1 .. Len(toHost) - 1 : toHost'[i] = toHost[i + 1]
      BY <1>2 DEF HostRead, OutputInv
    <2>2. \A s \in Streams : Count(toHost, s) = Count(toHost', s)
                                + (IF Head(toHost) = s THEN 1 ELSE 0)
      BY <2>1, CountTail DEF Packet
    <2>3. \A s \in Streams : Count(toHost', s) \in Nat
      BY <2>1, CountType DEF Packet
    <2>4. /\ UNCHANGED <<wrote, pipe, pump, writers, opened>>
          /\ \A i \in 1 .. Len(toHost') : toHost'[i] = "exit" => i = Len(toHost') /\ pump' = "ended"
      <3>1. UNCHANGED <<wrote, pipe, pump, writers, opened>>
        BY <1>2 DEF HostRead
      <3>2. ASSUME NEW i \in 1 .. Len(toHost'), toHost'[i] = "exit"
            PROVE  i = Len(toHost') /\ pump' = "ended"
        <4>1. i + 1 \in 1 .. Len(toHost) /\ toHost[i + 1] = "exit"
          BY <2>1, <3>2
        <4>2. i + 1 = Len(toHost) /\ pump = "ended"
          BY <4>1 DEF OutputInv
        <4>3. Len(toHost') = Len(toHost) - 1 /\ Len(toHost) \in Nat /\ i \in Nat
          BY <2>1, <3>2
        <4>4. i = Len(toHost')
          BY <4>2, <4>3
        <4> QED
          BY <3>1, <4>2, <4>4
      <3> QED
        BY <3>1, <3>2
    <2>5. CASE Head(toHost) = "exit"
      <3>1. main' = "done" /\ got' = got
        BY <1>2, <2>5 DEF HostRead
      <3>2. Len(toHost) = 1 /\ pump = "ended"
        <4>1. 1 \in 1 .. Len(toHost) /\ toHost[1] = "exit"
          BY <2>1, <2>5
        <4> QED
          BY <4>1 DEF OutputInv
      <3>3. toHost' = <<>>
        BY <2>1, <3>2
      <3>4. \A s \in Streams : Count(toHost', s) = Count(toHost, s)
        BY <1>0, <2>2, <2>3, <2>5 DEF Streams
      <3> QED
        BY <2>1, <2>4, <3>1, <3>2, <3>3, <3>4 DEF OutputInv
    <2>6. CASE Head(toHost) # "exit"
      <3> DEFINE t == Head(toHost)
      <3>1. t \in Streams /\ got' = [got EXCEPT ![t] = @ + 1] /\ main' = main /\ main # "done"
        BY <1>2, <2>1, <2>6 DEF HostRead, Packet
      <3> HIDE DEF t
      <3>2. got' \in [Streams -> Nat] /\ \A s \in Streams : got'[s] = got[s] + (IF t = s THEN 1 ELSE 0)
        BY <3>1 DEF OutputInv
      <3>3. ASSUME NEW s \in Streams
            PROVE  wrote[s] = got'[s] + Count(toHost', s) + (IF pump = s THEN 1 ELSE 0) + pipe[s]
        <4>1. wrote[s] = got[s] + Count(toHost, s) + (IF pump = s THEN 1 ELSE 0) + pipe[s]
              /\ got[s] \in Nat /\ pipe[s] \in Nat
          BY DEF OutputInv
        <4>2. Count(toHost, s) = Count(toHost', s) + (IF t = s THEN 1 ELSE 0)
          BY <2>2 DEF t
        <4> QED
          BY <2>3, <3>2, <4>1, <4>2
      <3> QED
        BY <2>1, <2>4, <3>1, <3>2, <3>3 DEF OutputInv
    <2> QED
      BY <2>5, <2>6
  <1>3. ASSUME NEW t \in Streams, PumpEnd(t) PROVE OutputInv'
    BY <1>3 DEF PumpEnd, OutputInv
  <1>4. ASSUME NEW t \in Streams, PumpRead(t) PROVE OutputInv'
    <2>1. /\ pump = "poll" /\ pump' = t /\ t \in opened /\ pipe[t] > 0
          /\ pipe' = [pipe EXCEPT ![t] = @ - 1]
          /\ UNCHANGED <<main, toHost, wrote, got, writers, opened>>
      BY <1>4 DEF PumpRead
    <2>2. \A s \in Streams : s # "poll" /\ s # "exit" /\ s # "ended"
      BY DEF Streams
    <2>3. /\ pipe' \in [Streams -> Nat]
          /\ \A s \in Streams : pipe'[s] = pipe[s] - (IF t = s THEN 1 ELSE 0)
      BY <2>1 DEF OutputInv
    <2>4. ASSUME NEW s \in Streams
          PROVE  wrote[s] = got[s] + Count(toHost, s) + (IF t = s THEN 1 ELSE 0) + pipe'[s]
      <3>1. wrote[s] = got[s] + Count(toHost, s) + 0 + pipe[s] /\ got[s] \in Nat /\ pipe[s] \in Nat
        BY <2>1, <2>2 DEF OutputInv
      <3> QED
        BY <1>0, <2>3, <3>1
    <2> QED
      BY <2>1, <2>2, <2>3, <2>4 DEF OutputInv
  <1>5. CASE PumpSend
    <2>1. /\ pump \in Streams /\ pump \in Packet /\ pump' = "poll" /\ PutHost(pump)
          /\ pump # "ended" /\ pump # "exit"
          /\ UNCHANGED <<main, wrote, got, pipe, writers, opened>>
      BY <1>5 DEF PumpSend, Packet, Streams
    <2>2. /\ toHost' \in Seq(Packet)
          /\ \A s \in Streams : Count(toHost', s) = Count(toHost, s) + (IF pump = s THEN 1 ELSE 0)
          /\ \A i \in 1 .. Len(toHost') : toHost'[i] = "exit" => i = Len(toHost') /\ pump' = "ended"
      BY <2>1, PumpPuts
    <2>3. ASSUME NEW s \in Streams
          PROVE  wrote[s] = got[s] + Count(toHost', s) + (IF pump' = s THEN 1 ELSE 0) + pipe[s]
      <3>1. wrote[s] = got[s] + Count(toHost, s) + (IF pump = s THEN 1 ELSE 0) + pipe[s]
            /\ got[s] \in Nat /\ pipe[s] \in Nat
        BY DEF OutputInv
      <3>2. (IF pump' = s THEN 1 ELSE 0) = 0
        BY <2>1 DEF Streams
      <3>3. Count(toHost', s) = Count(toHost, s) + (IF pump = s THEN 1 ELSE 0)
        BY <2>2
      <3> HIDE DEF Count
      <3> QED
        BY <1>0, <3>1, <3>2, <3>3
    <2> QED
      BY <2>1, <2>2, <2>3 DEF OutputInv
  <1>6. CASE PumpCode \/ PumpExit
    <2>1. UNCHANGED <<main, toHost, wrote, got, pipe, writers, opened>> /\ pump = "poll"
          /\ (pump' = "poll" \/ (pump' = "exit" /\ opened = {}))
      BY <1>6 DEF PumpCode, PumpExit
    <2>2. \A s \in Streams : pump # s /\ pump' # s
      BY <2>1 DEF Streams
    <2> QED
      BY <2>1, <2>2 DEF OutputInv
  <1>7. CASE PumpWriteExit
    <2>1. /\ pump = "exit" /\ pump' = "ended" /\ PutHost("exit") /\ "exit" \in Packet
          /\ UNCHANGED <<main, wrote, got, pipe, writers, opened>>
      BY <1>7 DEF PumpWriteExit, Packet
    <2>2. /\ toHost' \in Seq(Packet)
          /\ \A s \in Streams : Count(toHost', s) = Count(toHost, s) + (IF "exit" = s THEN 1 ELSE 0)
          /\ \A i \in 1 .. Len(toHost') : toHost'[i] = "exit" => i = Len(toHost') /\ pump' = "ended"
      BY <2>1, PumpPuts
    <2>3. \A s \in Streams : pump # s /\ pump' # s /\ s # "exit"
      BY <2>1 DEF Streams
    <2>4. \A s \in Streams : Count(toHost', s) = Count(toHost, s)
      BY <1>0, <2>2, <2>3
    <2> QED
      BY <2>1, <2>2, <2>3, <2>4 DEF OutputInv
  <1>8. ASSUME NEW t \in Streams, ChildWrite(t) PROVE OutputInv'
    <2>1. /\ t \in writers
          /\ pipe' = [pipe EXCEPT ![t] = @ + 1] /\ wrote' = [wrote EXCEPT ![t] = @ + 1]
          /\ UNCHANGED <<main, toHost, got, pump, writers, opened>>
      BY <1>8 DEF ChildWrite
    <2>2. /\ pipe' \in [Streams -> Nat] /\ wrote' \in [Streams -> Nat]
          /\ \A s \in Streams : pipe'[s] = pipe[s] + (IF t = s THEN 1 ELSE 0)
                                /\ wrote'[s] = wrote[s] + (IF t = s THEN 1 ELSE 0)
      BY <2>1 DEF OutputInv
    <2>3. ASSUME NEW s \in Streams
          PROVE  wrote'[s] = got[s] + Count(toHost, s) + (IF pump = s THEN 1 ELSE 0) + pipe'[s]
      <3>1. wrote[s] = got[s] + Count(toHost, s) + (IF pump = s THEN 1 ELSE 0) + pipe[s]
            /\ got[s] \in Nat /\ pipe[s] \in Nat
        BY DEF OutputInv
      <3> QED
        BY <1>0, <2>2, <3>1
    <2> QED
      BY <2>1, <2>2, <2>3 DEF OutputInv
  <1>9. ASSUME NEW t \in Streams, ChildClose(t) PROVE OutputInv'
    BY <1>9 DEF ChildClose, OutputInv
  <1>10. CASE UNCHANGED vars
    BY <1>10 DEF vars, OutputInv
  <1>11. CASE /\ Running
              /\ \/ HostWinch \/ HostLock \/ HostSize \/ FeederRead \/ FeederSend
                 \/ WindowChange \/ InputStep \/ ChildRead \/ ChildCloseInput \/ LeaderExit
                 \/ WriteCode
    <2>1. UNCHANGED <<toHost, wrote, got, pipe, pump, writers, opened>> /\ main' # "done"
      BY <1>11 DEF HostWinch, HostLock, HostSize, FeederRead, FeederSend, FeederLock,
        FeederWrite, WindowChange, InputStep, InputRead, InputWrite, ChildRead,
        ChildCloseInput, LeaderExit, WriteCode, Running
    <2> QED
      BY <1>1, <2>1
  <1> QED
    BY <1>2, <1>3, <1>4, <1>5, <1>6, <1>7, <1>8, <1>9, <1>10, <1>11
    DEF Next, HostLoop, PumpStep, ChildStep

\* Where the output is, for any number of chunks and any capacities.
THEOREM OutputInvariance == Spec => []OutputInv
  <1>1. Init => OutputInv
    <2> SUFFICES ASSUME Init PROVE OutputInv
      OBVIOUS
    <2>1. \A s \in Streams : Count(<<>>, s) = 0 /\ s # "poll"
      BY FS_EmptySet DEF Count, Streams
    <2>2. /\ toHost = <<>> /\ Len(toHost) = 0 /\ toHost \in Seq(Packet)
          /\ pipe = [s \in Streams |-> 0] /\ wrote = [s \in Streams |-> 0]
          /\ got = [s \in Streams |-> 0] /\ pump = "poll" /\ opened = Used /\ writers = Used
          /\ main # "done"
      BY DEF Init, OpenedAtStart
    <2>3. Used \subseteq Streams
      BY DEF Used, Streams
    <2> QED
      BY <2>1, <2>2, <2>3 DEF OutputInv
  <1> QED
    BY <1>1, OutputStep, PTL DEF Spec

\* A client that was told the exit code has everything that was ever written.
THEOREM OutputArrives == Spec => []OutputComplete
  <1>1. OutputInv => OutputComplete
    <2> SUFFICES ASSUME OutputInv, main = "done" PROVE got = wrote /\ writers = {}
      BY DEF OutputComplete
    <2>1. \A s \in Streams : Count(<<>>, s) = 0 /\ s # "ended"
      BY FS_EmptySet DEF Count, Streams
    <2>2. toHost = <<>> /\ pump = "ended" /\ opened = {} /\ writers = {}
      BY DEF OutputInv
    <2>3. \A s \in Streams : wrote[s] = got[s]
      BY <2>1, <2>2 DEF OutputInv
    <2> QED
      BY <2>2, <2>3 DEF OutputInv
  <1> QED
    BY <1>1, OutputInvariance, PTL

---------------------------------------------------------------------------
(* Who waits for whom.                                                     *)

\* The mutex is held by a thread that is writing and by nobody else; on pipes the main
\* loop has no window change to write, and forward_input reads to the end; a terminal nobody
\* writes has no reader either; and the exit code stays on the socket until the client has it.
WaitInv ==
    /\ mutex = "feeder" <=> feeder \in {"head", "body"}
    /\ mutex = "main" <=> main \in {"size", "body"}
    /\ ~tty => main \in {"poll", "done"} /\ winchesLeft = 0 /\ ~winched /\ input # "ended"
    /\ tty /\ "out" \notin writers => ~reader
    /\ pump = "ended" /\ main # "done" => toHost # <<>> /\ toHost[Len(toHost)] = "exit"

\* The guards of HostLoop, FeederSend, InputStep and PumpStep.
HostCanMove ==
    \/ main = "poll" /\ (toHost # <<>> \/ winched)
    \/ main = "lock" /\ mutex = "free"
    \/ main \in {"size", "body"} /\ (Len(toGuest) < SocketCap \/ GuestHungUp)

FeederCanMove ==
    \/ feeder = "lock" /\ mutex = "free"
    \/ feeder \in {"head", "body"} /\ (Len(toGuest) < SocketCap \/ GuestHungUp)

InputCanMove ==
    \/ input \in {"read", "data", "size"} /\ toGuest # <<>>
    \/ input = "write" /\ (reader => stdinPipe < PipeCap)

PumpCanMove ==
    \/ /\ pump = "poll"
       /\ \/ code = "stop"
          \/ code = "known" /\ opened = {}
          \/ \E s \in opened : s \notin writers \/ pipe[s] > 0
    \/ pump \in Streams \cup {"exit"} /\ Len(toHost) < SocketCap

\* Once the child has exited and nobody holds its output, somebody can take the exit code
\* one step further: the parties do not wait for each other in a circle.  The exception is
\* ExitArrives's: a window change that waits, on a terminal that has lost its last process
\* and with it forward_input.
ExitIsOwed ==
    ~leader /\ writers = {} /\ Running =>
        \/ code = "none" \/ HostCanMove \/ FeederCanMove \/ InputCanMove \/ PumpCanMove
        \/ tty /\ input = "ended" /\ main \in {"lock", "size", "body"}

\* Output that has come to the host can be taken unless the host's thread is kept by a
\* terminal whose input is not read: the socket to the guest is full.
OnlyInputStalls ==
    toHost # <<>> /\ Running /\ ~HostCanMove /\ ~FeederCanMove =>
        tty /\ Len(toGuest) = SocketCap

\* What a step may write: a piece of a packet where the socket has room.
LEMMA TypeStep == TypeOK /\ OutputInv' /\ [Next]_vars => TypeOK'
  <1> SUFFICES ASSUME TypeOK, OutputInv', [Next]_vars PROVE TypeOK'
    OBVIOUS
  <1> USE BoundsAssumption DEF hostVars, inputVars, pumpVars, childVars
  <1> DEFINE hosts == /\ tty \in BOOLEAN
                      /\ main \in {"poll", "lock", "size", "body", "done", "failed"}
                      /\ feeder \in {"read", "lock", "head", "body", "ended"}
                      /\ chunk \in {"data", "eof"}
                      /\ mutex \in {"free", "main", "feeder"}
                      /\ inputLeft \in 0 .. Input
                      /\ winchesLeft \in 0 .. Winches
                      /\ winched \in BOOLEAN
             inputs == /\ input \in {"read", "data", "size", "write", "error", "ended"}
                       /\ stdin \in BOOLEAN
                       /\ stdinPipe \in 0 .. PipeCap
                       /\ reader \in BOOLEAN
                       /\ leader \in BOOLEAN
                       /\ code \in {"none", "stop", "known"}
             pumps == /\ pump \in {"poll", "exit", "ended"} \cup Streams
                      /\ opened \subseteq Used
                      /\ writers \subseteq Used
                      /\ pipe \in [Streams -> 0 .. PipeCap]
                      /\ wrote \in [Streams -> 0 .. Output]
  <1>0. hosts /\ inputs /\ pumps
    BY DEF TypeOK
  <1>1. hosts'
    <2>1. CASE HostLoop
      BY <1>0, <2>1 DEF HostLoop, HostRead, HostWinch, HostLock, HostSize
    <2>2. CASE FeederRead
      <3>1. inputLeft' \in 0 .. Input
        BY <1>0, <2>2 DEF FeederRead
      <3> QED
        BY <1>0, <2>2, <3>1 DEF FeederRead
    <2>3. CASE FeederSend
      BY <1>0, <2>3 DEF FeederSend, FeederLock, FeederWrite
    <2>4. CASE WindowChange
      BY <1>0, <2>4 DEF WindowChange
    <2>5. CASE InputStep \/ PumpStep \/ ChildStep \/ WriteCode \/ UNCHANGED vars
      <3>1. UNCHANGED <<tty, hostVars>>
        <4>1. CASE InputStep
          BY <4>1 DEF InputStep, InputRead, InputWrite
        <4>2. CASE PumpStep
          BY <4>2 DEF PumpStep, PumpEnd, PumpRead, PumpSend, PumpCode, PumpExit, PumpWriteExit
        <4>3. CASE ChildStep \/ WriteCode
          BY <4>3 DEF ChildStep, ChildWrite, ChildClose, ChildRead, ChildCloseInput,
            LeaderExit, WriteCode
        <4> QED
          BY <2>5, <4>1, <4>2, <4>3 DEF vars
      <3> QED
        BY <1>0, <3>1
    <2> QED
      BY <2>1, <2>2, <2>3, <2>4, <2>5 DEF Next
  <1>2. inputs'
    <2>1. CASE HostLoop \/ FeederRead \/ FeederSend \/ WindowChange \/ UNCHANGED vars
      <3>1. UNCHANGED <<inputVars, leader, code>>
        BY <2>1 DEF HostLoop, HostRead, HostWinch, HostLock, HostSize,
          FeederRead, FeederSend, FeederLock, FeederWrite, WindowChange, vars
      <3> QED
        BY <1>0, <3>1
    <2>2. CASE InputRead
      BY <1>0, <2>2 DEF InputRead
    <2>3. CASE InputWrite
      <3>0. stdinPipe \in 0 .. PipeCap
        BY <1>0
      <3>1. /\ input' \in {"read", "ended"} /\ UNCHANGED <<reader, leader, code>>
            /\ stdinPipe' = stdinPipe \/ (stdinPipe < PipeCap /\ stdinPipe' = stdinPipe + 1)
            /\ stdin' = stdin \/ stdin' = FALSE
        BY <2>3 DEF InputWrite
      <3>2. stdinPipe' \in 0 .. PipeCap
        BY <3>0, <3>1
      <3> QED
        BY <1>0, <3>1, <3>2
    <2>4. CASE PumpStep
      <3>1. UNCHANGED <<inputVars, leader>> /\ (code' = code \/ code' = "known")
        BY <2>4 DEF PumpStep, PumpEnd, PumpRead, PumpSend, PumpCode, PumpExit, PumpWriteExit
      <3> QED
        BY <1>0, <3>1
    <2>5. CASE ChildStep \/ WriteCode
      <3>1. /\ UNCHANGED <<input, stdin>>
            /\ stdinPipe' = stdinPipe \/ (stdinPipe > 0 /\ stdinPipe' = stdinPipe - 1)
            /\ (reader' = reader \/ reader' = FALSE)
            /\ (leader' = leader \/ leader' = FALSE)
            /\ (code' = code \/ code' = "stop")
        BY <2>5 DEF ChildStep, ChildWrite, ChildClose, ChildRead, ChildCloseInput,
          LeaderExit, WriteCode
      <3>0. stdinPipe \in 0 .. PipeCap
        BY <1>0
      <3>2. stdinPipe' \in 0 .. PipeCap
        BY <3>0, <3>1
      <3> QED
        BY <1>0, <3>1, <3>2
    <2> QED
      BY <2>1, <2>2, <2>3, <2>4, <2>5 DEF Next, InputStep
  <1>3. pumps'
    <2>1. CASE HostLoop \/ FeederRead \/ FeederSend \/ WindowChange \/ InputStep \/ UNCHANGED vars
      <3>1. UNCHANGED <<tty, pump, opened, writers, pipe, wrote>>
        BY <2>1 DEF HostLoop, HostRead, HostWinch, HostLock, HostSize,
          FeederRead, FeederSend, FeederLock, FeederWrite, WindowChange,
          InputStep, InputRead, InputWrite, vars
      <3> QED
        BY <1>0, <3>1 DEF Used
    <2>2. CASE PumpStep
      <3>1. /\ UNCHANGED <<tty, writers, wrote>>
            /\ opened' \subseteq opened
            /\ pump' \in {"poll", "exit", "ended"} \cup Streams
        BY <1>0, <2>2 DEF PumpStep, PumpEnd, PumpRead, PumpSend, PumpCode, PumpExit, PumpWriteExit
      <3>2. pipe' = pipe \/ \E s \in Streams : pipe[s] > 0 /\ pipe' = [pipe EXCEPT ![s] = @ - 1]
        BY <2>2 DEF PumpStep, PumpEnd, PumpRead, PumpSend, PumpCode, PumpExit, PumpWriteExit
      <3>3. pipe' \in [Streams -> 0 .. PipeCap]
        BY <1>0, <3>2
      <3> QED
        BY <1>0, <3>1, <3>3 DEF Used
    <2>3. CASE ChildStep \/ WriteCode
      <3>1. UNCHANGED <<tty, pump, opened>> /\ writers' \subseteq writers
        BY <2>3 DEF ChildStep, ChildWrite, ChildClose, ChildRead, ChildCloseInput,
          LeaderExit, WriteCode
      <3>2. \/ UNCHANGED <<pipe, wrote>>
            \/ \E s \in Streams : /\ wrote[s] < Output /\ pipe[s] < PipeCap
                                   /\ pipe' = [pipe EXCEPT ![s] = @ + 1]
                                   /\ wrote' = [wrote EXCEPT ![s] = @ + 1]
        BY <2>3 DEF ChildStep, ChildWrite, ChildClose, ChildRead, ChildCloseInput,
          LeaderExit, WriteCode
      <3>3. pipe' \in [Streams -> 0 .. PipeCap] /\ wrote' \in [Streams -> 0 .. Output]
        BY <1>0, <3>2
      <3> QED
        BY <1>0, <3>1, <3>3 DEF Used
    <2> QED
      BY <2>1, <2>2, <2>3 DEF Next
  <1>4. got' \in [Streams -> 0 .. Output]
    <2>1. ASSUME NEW s \in Streams PROVE got'[s] \in 0 .. Output
      <3>1. /\ Count(toHost', s) \in Nat /\ got'[s] \in Nat /\ pipe'[s] \in Nat
            /\ wrote'[s] = got'[s] + Count(toHost', s) + (IF pump' = s THEN 1 ELSE 0) + pipe'[s]
        BY CountType DEF OutputInv, Packet
      <3>2. wrote'[s] \in 0 .. Output
        BY <1>3
      <3> QED
        BY <3>1, <3>2
    <2>2. got' \in [Streams -> Nat]
      BY DEF OutputInv
    <2> QED
      BY <2>1, <2>2
  <1>5. toHost' \in Seq(Streams \cup {"exit"}) /\ Len(toHost') <= SocketCap
    <2>1. \/ toHost' = toHost
          \/ toHost # <<>> /\ toHost' = Tail(toHost)
          \/ \E packet : PutHost(packet)
      BY DEF Next, vars, HostLoop, FeederSend, InputStep, PumpStep, ChildStep,
        HostRead, HostWinch, HostLock, HostSize, FeederRead, FeederLock, FeederWrite,
        WindowChange, InputRead, InputWrite, PumpEnd, PumpRead, PumpSend, PumpCode, PumpExit,
        PumpWriteExit, ChildWrite, ChildClose, ChildRead, ChildCloseInput, LeaderExit, WriteCode
    <2>2. toHost' \in Seq(Streams \cup {"exit"})
      BY DEF OutputInv, Packet
    <2>3. toHost \in Seq(Streams \cup {"exit"}) /\ Len(toHost) <= SocketCap
      BY DEF TypeOK
    <2>4. CASE toHost # <<>> /\ toHost' = Tail(toHost)
      BY <2>2, <2>3, <2>4
    <2>5. CASE \E packet : PutHost(packet)
      <3>1. PICK packet : toHost' = Append(toHost, packet) /\ Len(toHost) < SocketCap
        BY <2>5 DEF PutHost
      <3>2. Len(toHost') = Len(toHost) + 1 /\ Len(toHost) \in Nat
        BY <2>3, <3>1
      <3> QED
        BY <2>2, <3>1, <3>2
    <2> QED
      BY <2>1, <2>2, <2>3, <2>4, <2>5
  <1>6. toGuest' \in Seq(Pieces) /\ Len(toGuest') <= SocketCap
    <2>1. \/ toGuest' = toGuest
          \/ toGuest # <<>> /\ toGuest' = Tail(toGuest)
          \/ \E piece \in Pieces : PutGuest(piece)
      BY DEF Pieces, Next, vars, HostLoop, FeederSend, InputStep, PumpStep, ChildStep,
        HostRead, HostWinch, HostLock, HostSize, FeederRead, FeederLock, FeederWrite,
        WindowChange, InputRead, InputWrite, PumpEnd, PumpRead, PumpSend, PumpCode, PumpExit,
        PumpWriteExit, ChildWrite, ChildClose, ChildRead, ChildCloseInput, LeaderExit, WriteCode
    <2>2. toGuest \in Seq(Pieces) /\ Len(toGuest) <= SocketCap /\ Len(toGuest) \in Nat
      BY DEF TypeOK, Pieces
    <2>3. CASE toGuest # <<>> /\ toGuest' = Tail(toGuest)
      BY <2>2, <2>3
    <2>4. CASE \E piece \in Pieces : PutGuest(piece)
      <3>1. PICK piece \in Pieces : toGuest' = Append(toGuest, piece) /\ Len(toGuest) < SocketCap
        BY <2>4 DEF PutGuest
      <3>2. Len(toGuest') = Len(toGuest) + 1 /\ toGuest' \in Seq(Pieces)
        BY <2>2, <3>1
      <3> QED
        BY <2>2, <3>1, <3>2
    <2> QED
      BY <2>1, <2>2, <2>3, <2>4
  <1> QED
    BY <1>1, <1>2, <1>3, <1>4, <1>5, <1>6 DEF TypeOK, Pieces

\* Sockets and pipes never hold more than they can, whoever writes them, and no stream
\* carries more than was written to it.
THEOREM TypeCorrect == Spec => []TypeOK
  <1>1. Init => TypeOK
    <2> SUFFICES ASSUME Init PROVE TypeOK
      OBVIOUS
    <2>1. toGuest = <<>> /\ toHost = <<>> /\ Len(toGuest) = 0 /\ Len(toHost) = 0
          /\ toGuest \in Seq({"data", "eof", "size", "body"})
          /\ toHost \in Seq(Streams \cup {"exit"})
      BY DEF Init
    <2>2. /\ main \in {"poll", "size"} /\ mutex \in {"main", "free"}
          /\ winchesLeft \in 0 .. Winches
      BY BoundsAssumption DEF Init
    <2>3. /\ pipe \in [Streams -> 0 .. PipeCap]
          /\ wrote \in [Streams -> 0 .. Output] /\ got \in [Streams -> 0 .. Output]
          /\ 0 \in 0 .. PipeCap /\ Input \in 0 .. Input /\ 0 <= SocketCap
      BY BoundsAssumption DEF Init
    <2>4. opened \subseteq Used /\ writers \subseteq Used
      BY DEF Init, OpenedAtStart
    <2> QED
      BY <2>1, <2>2, <2>3, <2>4 DEF Init, TypeOK
  <1> QED
    BY <1>1, TypeStep, OutputInvariance, PTL DEF Spec

\* Locks are taken before a write and given back after it; only the client's read takes
\* the exit code off the socket.
LEMMA WaitStep == TypeOK /\ WaitInv /\ OutputInv /\ [Next]_vars => WaitInv'
  <1> SUFFICES ASSUME TypeOK, WaitInv, OutputInv, [Next]_vars PROVE WaitInv'
    OBVIOUS
  <1> USE DEF hostVars, inputVars, pumpVars, childVars
  <1>1. /\ (mutex = "feeder" <=> feeder \in {"head", "body"})'
        /\ (mutex = "main" <=> main \in {"size", "body"})'
    <2>1. CASE HostLoop
      BY <2>1 DEF WaitInv, HostLoop, HostRead, HostWinch, HostLock, HostSize
    <2>2. CASE FeederRead \/ FeederSend \/ WindowChange
      BY <2>2 DEF WaitInv, FeederRead, FeederSend, FeederLock, FeederWrite, WindowChange
    <2>3. CASE InputStep \/ PumpStep \/ ChildStep \/ WriteCode \/ UNCHANGED vars
      BY <2>3 DEF WaitInv, InputStep, InputRead, InputWrite, PumpStep, PumpEnd, PumpRead, PumpSend,
        PumpCode, PumpExit, PumpWriteExit, ChildStep, ChildWrite, ChildClose, ChildRead,
        ChildCloseInput, LeaderExit, WriteCode, vars
    <2> QED
      BY <2>1, <2>2, <2>3 DEF Next
  <1>2. (~tty => main \in {"poll", "done"} /\ winchesLeft = 0 /\ ~winched /\ input # "ended")'
    <2>1. CASE HostLoop
      BY <2>1 DEF WaitInv, HostLoop, HostRead, HostWinch, HostLock, HostSize
    <2>2. CASE FeederRead \/ FeederSend
      BY <2>2 DEF WaitInv, FeederRead, FeederSend, FeederLock, FeederWrite
    <2>3. CASE WindowChange
      BY <2>3 DEF WaitInv, WindowChange, TypeOK
    <2>4. CASE InputStep \/ PumpStep \/ ChildStep \/ WriteCode \/ UNCHANGED vars
      <3>1. UNCHANGED <<tty, main, winchesLeft, winched>>
            /\ (input' = "ended" => input = "ended" \/ tty)
        BY <2>4 DEF InputStep, InputRead, InputWrite,
          PumpStep, PumpEnd, PumpRead, PumpSend, PumpCode, PumpExit, PumpWriteExit,
          ChildStep, ChildWrite, ChildClose, ChildRead, ChildCloseInput,
          LeaderExit, WriteCode, vars
      <3> QED
        BY <3>1 DEF WaitInv
    <2> QED
      BY <2>1, <2>2, <2>3, <2>4 DEF Next
  <1>3. (tty /\ "out" \notin writers => ~reader)'
    BY DEF WaitInv, Next, vars, HostLoop, FeederSend, InputStep, PumpStep, ChildStep,
      HostRead, HostWinch, HostLock, HostSize, FeederRead, FeederLock, FeederWrite,
      WindowChange, InputRead, InputWrite, PumpEnd, PumpRead, PumpSend, PumpCode, PumpExit,
      PumpWriteExit, ChildWrite, ChildClose, ChildRead, ChildCloseInput, LeaderExit, WriteCode
  <1>4. ASSUME (pump = "ended" /\ main # "done")' PROVE (toHost # <<>> /\ toHost[Len(toHost)] = "exit")'
    <2>1. \/ toHost' = toHost /\ pump = "ended" /\ main # "done"
          \/ HostRead /\ pump = "ended" /\ main # "done"
          \/ PutHost("exit")
      BY <1>4 DEF Streams, Next, vars, HostLoop, FeederSend, InputStep, PumpStep, ChildStep,
        HostRead, HostWinch, HostLock, HostSize, FeederRead, FeederLock, FeederWrite,
        WindowChange, InputRead, InputWrite, PumpEnd, PumpRead, PumpSend, PumpCode, PumpExit,
        PumpWriteExit, ChildWrite, ChildClose, ChildRead, ChildCloseInput, LeaderExit, WriteCode
    <2>2. toHost \in Seq(Packet)
      BY DEF OutputInv
    <2>3. CASE toHost' = toHost /\ pump = "ended" /\ main # "done"
      BY <2>3 DEF WaitInv
    <2>4. CASE PutHost("exit")
      <3>1. toHost' = Append(toHost, "exit") /\ "exit" \in Packet
        BY <2>4 DEF PutHost, Packet
      <3> QED
        BY <2>2, <3>1
    <2>5. CASE HostRead /\ pump = "ended" /\ main # "done"
      <3>1. toHost # <<>> /\ toHost[Len(toHost)] = "exit" /\ toHost' = Tail(toHost)
            /\ Head(toHost) # "exit"
        BY <1>4, <2>5 DEF WaitInv, HostRead
      <3>2. Len(toHost) \in Nat /\ Len(toHost) # 1 /\ Len(toHost) # 0
        BY <2>2, <3>1
      <3>3. Len(toHost') = Len(toHost) - 1 /\ Len(toHost) - 1 \in 1 .. Len(toHost')
        BY <2>2, <3>1, <3>2
      <3>4. toHost'[Len(toHost')] = toHost[Len(toHost)]
        BY <2>2, <3>1, <3>2, <3>3
      <3>5. toHost' # <<>>
        BY <3>2, <3>3
      <3> QED
        BY <3>1, <3>4, <3>5
    <2> QED
      BY <2>1, <2>3, <2>4, <2>5
  <1> QED
    BY <1>1, <1>2, <1>3, <1>4 DEF WaitInv

\* The order in which the two ends wait, for any capacities.
THEOREM WaitInvariance == Spec => []WaitInv
  <1>1. Init => WaitInv
    BY DEF Init, WaitInv, Used
  <1> QED
    BY <1>1, WaitStep, TypeCorrect, OutputInvariance, PTL DEF Spec

\* With the child gone and its output closed no circle of waits keeps the exit code from
\* the client: on pipes never, on a terminal unless a window change waits for room in the
\* socket after forward_input has ended (run_io_guest, run_io_host, forward_stdin,
\* forward_input).
THEOREM NobodyWaitsInACircle == Spec => []ExitIsOwed
  <1>1. TypeOK /\ WaitInv /\ PacketInv /\ OutputInv => ExitIsOwed
    <2> SUFFICES ASSUME TypeOK, WaitInv, PacketInv, OutputInv,
                        writers = {}, Running, code # "none",
                        ~HostCanMove, ~FeederCanMove, ~InputCanMove, ~PumpCanMove,
                        ~(tty /\ input = "ended" /\ main \in {"lock", "size", "body"})
                 PROVE  FALSE
      BY DEF ExitIsOwed
    <2> USE BoundsAssumption
    <2>1. code \in {"stop", "known"} /\ pump \in {"poll", "exit", "ended"} \cup Streams
          /\ Len(toHost) \in Nat /\ Len(toGuest) \in Nat
          /\ Len(toHost) <= SocketCap /\ Len(toGuest) <= SocketCap
          /\ (Len(toHost) = SocketCap => toHost # <<>>)
          /\ (Len(toGuest) = SocketCap => toGuest # <<>>)
      BY DEF TypeOK
    <2>2. pump # "poll"
      BY <2>1 DEF PumpCanMove
    <2>3. toHost # <<>>
      <3>1. CASE pump = "ended"
        BY <3>1 DEF WaitInv, Running
      <3>2. CASE pump # "ended"
        <4>1. ~(Len(toHost) < SocketCap)
          BY <2>1, <2>2, <3>2 DEF PumpCanMove
        <4> QED
          BY <2>1, <4>1
      <3> QED
        BY <3>1, <3>2
    <2>4. main \in {"lock", "size", "body"} /\ tty
      BY <2>3 DEF HostCanMove, TypeOK, WaitInv, Running
    <2>5. Len(toGuest) = SocketCap
      <3>1. ~(Len(toGuest) < SocketCap)
        BY <2>4 DEF HostCanMove, FeederCanMove, WaitInv, TypeOK
      <3> QED
        BY <2>1, <3>1
    <2>6. ~reader
      BY <2>4 DEF WaitInv
    <2> QED
      BY <2>1, <2>4, <2>5, <2>6 DEF InputCanMove, PacketInv
  <1> QED
    BY <1>1, TypeCorrect, WaitInvariance, PacketInvariance, OutputInvariance, PTL

\* On pipes the host can always take output that has come; on a terminal only input that
\* the guest does not take can stop it ("Keep output draining independently").
THEOREM OutputWaitsForInputOnly == Spec => []OnlyInputStalls
  <1>1. TypeOK /\ WaitInv => OnlyInputStalls
    <2> SUFFICES ASSUME TypeOK, WaitInv, toHost # <<>>, Running,
                        ~HostCanMove, ~FeederCanMove
                 PROVE  tty /\ Len(toGuest) = SocketCap
      BY DEF OnlyInputStalls
    <2>1. main \in {"lock", "size", "body"} /\ tty
      BY DEF HostCanMove, TypeOK, WaitInv, Running
    <2>2. ~(Len(toGuest) < SocketCap)
      BY <2>1 DEF HostCanMove, FeederCanMove, WaitInv, TypeOK
    <2>3. Len(toGuest) \in Nat /\ Len(toGuest) <= SocketCap /\ SocketCap \in Nat
      BY BoundsAssumption DEF TypeOK
    <2> QED
      BY <2>1, <2>2, <2>3
  <1> QED
    BY <1>1, TypeCorrect, WaitInvariance, PTL
=============================================================================

------------------------- MODULE PacketSourcesProofs -------------------------
(***************************************************************************)
(* The three sources, each by an invariant of its own variables.           *)
(*   - Sockets: the lidar datagrams are pushed as they arrived.            *)
(*   - Capture: for every gap between two looks at the clock and every     *)
(*     value an uninitialised count may have, the reader's clock does not  *)
(*     drift from the sensor's, and no packet is early.                    *)
(*   - Rosbag: the packets of the node's own scans are filtered out.       *)
(***************************************************************************)
EXTENDS PacketSources, TLAPS

(* The capture: what its reader keeps. *)
PaceType ==
  /\ capture \in Seq(Int)
  /\ position \in 0 .. Len(capture)
  /\ lastTs \in Int /\ lastTime \in Int /\ wake \in Int /\ now \in Int
  /\ base \in [time : Int, ts : Int]
  /\ reader \in {"deliver", "pace"} => position >= 1

(* Until a packet has been timed there is nothing to keep pace with; after *)
(* that the reader is behind the time it keeps, or sleeps until then.      *)
PaceInv ==
  /\ reader = "open" => base = NoBase
  /\ base # NoBase /\ ~cut =>
       /\ reader \in {"next", "deliver", "pace"} => now >= lastTime
       /\ reader = "sleep" => wake = lastTime

ReplayInv == PaceType /\ NoDrift /\ PaceInv

-----------------------------------------------------------------------------
(* The packet being timed is one of the capture. *)
LEMMA PacketTimed ==
  ASSUME PaceType, reader = "pace"
  PROVE  PacketTs \in Int /\ SleepTime \in Int
<1>1. capture \in Seq(Int) /\ position \in 1 .. Len(capture)
  BY DEF PaceType
<1>2. PacketTs \in Int
  BY <1>1 DEF PacketTs
<1> QED BY <1>2 DEF PaceType, SleepTime

(* A sleep makes up for exactly the time the reader is ahead. *)
LEMMA PaceStep ==
  ASSUME ReplayInv, PaceNext
  PROVE  ReplayInv'
<1>1. PacketTs \in Int /\ SleepTime \in Int
  BY PacketTimed DEF ReplayInv, PaceNext
<1>2. /\ lastTs \in Int /\ lastTime \in Int /\ now \in Int
      /\ base.time \in Int /\ base.ts \in Int
  BY DEF ReplayInv, PaceType
<1>3. lastTs' = PacketTs /\ lastTime' = now + SleepTime /\ wake' = now + SleepTime
      /\ now' = now /\ base' = base /\ capture' = capture /\ position' = position
      /\ reader' \in {"sleep", "next"} /\ (reader' = "next" <=> ~(SleepTime > 0))
  BY DEF PaceNext, clockVars
<1>4. PaceType'
  BY <1>1, <1>2, <1>3 DEF ReplayInv, PaceType
<1>5. NoDrift'
  <2>1. lastTime' = PacketTs - lastTs + lastTime
    BY <1>1, <1>2, <1>3 DEF SleepTime
  <2> QED BY <1>1, <1>2, <1>3, <2>1 DEF ReplayInv, NoDrift
<1>6. PaceInv'
  BY <1>1, <1>2, <1>3 DEF PaceInv
<1> QED BY <1>4, <1>5, <1>6 DEF ReplayInv

(* Every step of the reader, of its owner and of time keeps the pace. *)
LEMMA ReplayStep ==
  ASSUME ReplayInv, [ReplayNext]_replayVars
  PROVE  ReplayInv'
<1> USE DEF ReplayInv
<1>1. CASE CallStop \/ CallStart
  BY <1>1 DEF CallStop, CallStart, PaceType, NoDrift, PaceInv, paceVars, clockVars
<1>2. CASE StopReturns
  BY <1>2 DEF StopReturns, PaceType, NoDrift, PaceInv, paceVars, clockVars
<1>3. CASE StartReturns
  <2>1. NoBase \in [time : Int, ts : Int]
    BY DEF NoBase
  <2>2. base' = NoBase /\ position' = 0 /\ reader' = "open" /\ lastTs' = 0 /\ lastTime' = 0
        /\ wake' = 0 /\ now' = now /\ capture' = capture
    BY <1>3 DEF StartReturns, clockVars
  <2>3. PaceType'
    BY <2>1, <2>2 DEF PaceType
  <2> QED BY <2>2, <2>3 DEF NoDrift, PaceInv
<1>4. CASE OpenFails \/ OpenSucceeds
  BY <1>4 DEF OpenFails, OpenSucceeds, PaceType, NoDrift, PaceInv, paceVars, clockVars
<1>5. CASE NextPacket
  <2>1. position' \in 0 .. Len(capture)' /\ (reader' = "deliver" => position' >= 1)
        /\ reader' \in {"deliver", "exited"}
    BY <1>5 DEF NextPacket, PaceType
  <2> QED BY <1>5, <2>1 DEF NextPacket, PaceType, NoDrift, PaceInv, paceVars, clockVars
<1>6. CASE Deliver
  BY <1>6 DEF Deliver, PaceType, NoDrift, PaceInv, clockVars
<1>7. CASE PaceFirst
  <2>1. PacketTs \in Int
    BY <1>7, PacketTimed DEF PaceFirst
  <2> QED BY <1>7, <2>1 DEF PaceFirst, PaceType, NoDrift, PaceInv, clockVars
<1>8. CASE PaceNext
  BY <1>8, PaceStep
<1>9. CASE Wake
  BY <1>9 DEF Wake, PaceType, NoDrift, PaceInv, paceVars, clockVars
<1>10. CASE Interrupted
  BY <1>10 DEF Interrupted, PaceType, NoDrift, PaceInv
<1>11. CASE Tick
  BY <1>11 DEF Tick, PaceType, NoDrift, PaceInv, paceVars
<1>12. CASE UNCHANGED replayVars
  BY <1>12 DEF replayVars, PaceType, NoDrift, PaceInv, paceVars, clockVars
<1> QED BY <1>1, <1>2, <1>3, <1>4, <1>5, <1>6, <1>7, <1>8, <1>9, <1>10, <1>11, <1>12
      DEF ReplayNext, Owner, Reader

(* Whichever source there is, the replay takes its own steps or none. *)
LEMMA ReplayInvariant == Spec => []ReplayInv
<1>1. Init => ReplayInv
  BY ReplayAssumption DEF Init, ReplayInit, ReplayInv, PaceType, NoDrift, PaceInv, NoBase
<1>2. [Next]_vars => [ReplayNext]_replayVars
  BY DEF Next, vars
<1> QED BY <1>1, <1>2, ReplayStep, PTL DEF Spec

(* The reader's clock has moved by what the sensor's has: delays, sleeps   *)
(* that are cut short and captures whose clock jumps do not add up.        *)
THEOREM ReplayNoDrift == Spec => []NoDrift
<1>1. ReplayInv => NoDrift
  BY DEF ReplayInv
<1> QED BY <1>1, ReplayInvariant, PTL

(* After a sleep that was not cut short no packet is delivered before its  *)
(* time.                                                                   *)
THEOREM ReplayNeverEarly == Spec => []NeverEarly
<1>1. ReplayInv => NeverEarly
  BY DEF ReplayInv, PaceInv, NeverEarly
<1> QED BY <1>1, ReplayInvariant, PTL

-----------------------------------------------------------------------------
(* RecvTask: what may arrive on the sockets, and what they and the history *)
(* hold.                                                                   *)
Kinds == {"lidar", "gps", "damaged"}
Datagram == [kind : Kinds, id : Nat]

InputType ==
  /\ samePort \in BOOLEAN
  /\ waiting \in [{"lidar", "gps"} -> Seq(Datagram)]
  /\ arrived \in Nat
  /\ readLidar \in Seq(Nat) /\ pushedLidar \in Seq(Nat)

(* A buffer q in which the lidar datagrams r + 1 .. n wait in their order, *)
(* each of them once, between others.                                      *)
Waiting(q, r, n) ==
  /\ r <= n
  /\ \A i \in 1 .. Len(q) : q[i].kind = "lidar" => q[i].id \in r + 1 .. n
  /\ \A i, j \in 1 .. Len(q) :
       i < j /\ q[i].kind = "lidar" /\ q[j].kind = "lidar" => q[i].id < q[j].id
  /\ \A m \in r + 1 .. n : \E i \in 1 .. Len(q) : q[i].kind = "lidar" /\ q[i].id = m

(* Nothing but GPS waits at the GPS socket. At the lidar socket wait the   *)
(* lidar datagrams that have arrived and were not read.                    *)
BufferInv ==
  /\ \A i \in 1 .. Len(waiting["gps"]) : waiting["gps"][i].kind = "gps"
  /\ Waiting(waiting["lidar"], Len(readLidar), arrived)

(* They are read in order, and what has been read has been pushed but for  *)
(* the datagram in hand; no GPS datagram has been.                         *)
ReadInv ==
  /\ \A i \in 1 .. Len(readLidar) : readLidar[i] = i
  /\ IF task = "classify" /\ packet.kind = "lidar"
       THEN packet.id \in Nat /\ readLidar = Append(pushedLidar, packet.id)
       ELSE readLidar = pushedLidar
  /\ "gps" \notin pushedKinds

InputInv == InputType /\ BufferInv /\ ReadInv

(* The socket that is read holds a datagram. *)
LEMMA SocketRead ==
  ASSUME NEW socket \in {"lidar", "gps"}, ReceiveFrom(socket)
  PROVE  waiting[socket] # << >>
BY DEF ReceiveFrom, Readable

(* A datagram that arrives waits behind the others. *)
LEMMA WaitingMore ==
  ASSUME NEW q \in Seq(Datagram), NEW r \in Nat, NEW n \in Nat, Waiting(q, r, n),
         NEW d \in Datagram
  PROVE  /\ d.kind = "lidar" /\ d.id = n + 1 => Waiting(Append(q, d), r, n + 1)
         /\ d.kind # "lidar" => Waiting(Append(q, d), r, n)
<1> DEFINE p == Append(q, d)
<1>1. /\ Len(p) = Len(q) + 1 /\ Len(q) \in Nat
      /\ \A i \in 1 .. Len(q) : p[i] = q[i]
      /\ p[Len(q) + 1] = d
  OBVIOUS
<1> HIDE DEF p
<1>2. PICK k \in Nat : k = Len(q)
  BY <1>1
<1>3. ASSUME d.kind = "lidar", d.id = n + 1 PROVE Waiting(p, r, n + 1)
  <2>1. ASSUME NEW i \in 1 .. Len(p), p[i].kind = "lidar" PROVE p[i].id \in r + 1 .. n + 1
    <3>1. CASE i = k + 1
      BY <1>1, <1>2, <1>3, <3>1 DEF Waiting
    <3>2. CASE i # k + 1
      BY <1>1, <1>2, <2>1, <3>2 DEF Waiting
    <3> QED BY <3>1, <3>2
  <2>2. ASSUME NEW i \in 1 .. Len(p), NEW j \in 1 .. Len(p), i < j, p[i].kind = "lidar", p[j].kind = "lidar"
        PROVE  p[i].id < p[j].id
    <3>0. i \in 1 .. Len(q)
      BY <1>1, <2>2
    <3>1. CASE j = k + 1
      <4>1. q[i].id \in r + 1 .. n
        BY <1>1, <2>2, <3>0 DEF Waiting
      <4> QED BY <1>1, <1>2, <1>3, <3>0, <3>1, <4>1
    <3>2. CASE j # k + 1
      <4>1. j \in 1 .. Len(q)
        BY <1>1, <1>2, <3>2
      <4>2. p[i] = q[i] /\ p[j] = q[j]
        BY <1>1, <3>0, <4>1
      <4>3. q[i].id < q[j].id
        BY <2>2, <3>0, <4>1, <4>2 DEF Waiting
      <4> QED BY <4>2, <4>3
    <3> QED BY <3>1, <3>2
  <2>3. ASSUME NEW m \in r + 1 .. n + 1
        PROVE  \E i \in 1 .. Len(p) : p[i].kind = "lidar" /\ p[i].id = m
    <3>1. CASE m = n + 1
      <4>1. k + 1 \in 1 .. Len(p) /\ p[k + 1] = d
        BY <1>1, <1>2
      <4> QED BY <1>3, <3>1, <4>1
    <3>2. CASE m # n + 1
      <4>1. PICK i \in 1 .. Len(q) : q[i].kind = "lidar" /\ q[i].id = m
        BY <3>2 DEF Waiting
      <4> QED BY <1>1, <4>1
    <3> QED BY <3>1, <3>2
  <2> QED BY <2>1, <2>2, <2>3 DEF Waiting
<1>4. ASSUME d.kind # "lidar" PROVE Waiting(p, r, n)
  <2>1. ASSUME NEW i \in 1 .. Len(p), p[i].kind = "lidar" PROVE i \in 1 .. Len(q) /\ p[i] = q[i]
    BY <1>1, <1>4, <2>1
  <2>2. \A i \in 1 .. Len(p) : p[i].kind = "lidar" => p[i].id \in r + 1 .. n
    BY <2>1 DEF Waiting
  <2>3. \A i, j \in 1 .. Len(p) :
          i < j /\ p[i].kind = "lidar" /\ p[j].kind = "lidar" => p[i].id < p[j].id
    BY <2>1 DEF Waiting
  <2>4. ASSUME NEW m \in r + 1 .. n
        PROVE  \E i \in 1 .. Len(p) : p[i].kind = "lidar" /\ p[i].id = m
    <3>1. PICK i \in 1 .. Len(q) : q[i].kind = "lidar" /\ q[i].id = m
      BY DEF Waiting
    <3> QED BY <1>1, <3>1
  <2> QED BY <2>2, <2>3, <2>4 DEF Waiting
<1> QED BY <1>3, <1>4 DEF p

(* The lidar datagram at the head is the next one that was not read. *)
LEMMA WaitingLess ==
  ASSUME NEW q \in Seq(Datagram), NEW r \in Nat, NEW n \in Nat, Waiting(q, r, n), q # << >>
  PROVE  IF Head(q).kind = "lidar" THEN Head(q).id = r + 1 /\ Waiting(Tail(q), r + 1, n)
                                   ELSE Waiting(Tail(q), r, n)
<1> DEFINE p == Tail(q)
<1>1. /\ Len(p) = Len(q) - 1 /\ Len(q) \in Nat /\ Len(q) > 0
      /\ \A i \in 1 .. Len(p) : p[i] = q[i + 1]
      /\ Head(q) = q[1] /\ q[1] \in Datagram /\ 1 \in 1 .. Len(q)
  OBVIOUS
<1> HIDE DEF p
<1>2. \A i \in 1 .. Len(p) : i + 1 \in 1 .. Len(q) /\ 1 < i + 1
  BY <1>1
<1>3. \A i, j \in 1 .. Len(p) :
        i < j /\ p[i].kind = "lidar" /\ p[j].kind = "lidar" => p[i].id < p[j].id
  <2> SUFFICES ASSUME NEW i \in 1 .. Len(p), NEW j \in 1 .. Len(p), i < j,
                      p[i].kind = "lidar", p[j].kind = "lidar"
               PROVE  p[i].id < p[j].id
    OBVIOUS
  <2>1. i + 1 \in 1 .. Len(q) /\ j + 1 \in 1 .. Len(q) /\ i + 1 < j + 1
    BY <1>1
  <2>2. p[i] = q[i + 1] /\ p[j] = q[j + 1]
    BY <1>1
  <2>3. q[i + 1].id < q[j + 1].id
    BY <2>1, <2>2 DEF Waiting
  <2> QED BY <2>2, <2>3
<1>4. CASE Head(q).kind = "lidar"
  <2>1. q[1].id \in r + 1 .. n /\ q[1].kind = "lidar"
    BY <1>1, <1>4 DEF Waiting
  <2>2. q[1].id = r + 1
    <3>1. r + 1 \in r + 1 .. n
      BY <2>1
    <3>2. PICK i \in 1 .. Len(q) : q[i].kind = "lidar" /\ q[i].id = r + 1
      BY <3>1 DEF Waiting
    <3>3. CASE i = 1
      BY <3>2, <3>3
    <3>4. CASE i # 1
      <4>1. q[1].id < q[i].id
        BY <1>1, <2>1, <3>2, <3>4 DEF Waiting
      <4> QED BY <2>1, <3>2, <4>1
    <3> QED BY <3>3, <3>4
  <2>3. ASSUME NEW i \in 1 .. Len(p), p[i].kind = "lidar" PROVE p[i].id \in (r + 1) + 1 .. n
    <3>1. p[i] = q[i + 1] /\ i + 1 \in 1 .. Len(q) /\ 1 < i + 1
      BY <1>1, <1>2
    <3>2. q[1].id < q[i + 1].id /\ q[i + 1].id \in r + 1 .. n
      BY <1>1, <2>1, <2>3, <3>1 DEF Waiting
    <3> QED BY <2>2, <3>1, <3>2
  <2>4. ASSUME NEW m \in (r + 1) + 1 .. n
        PROVE  \E i \in 1 .. Len(p) : p[i].kind = "lidar" /\ p[i].id = m
    <3>1. m \in r + 1 .. n /\ m # r + 1
      OBVIOUS
    <3>2. PICK i \in 1 .. Len(q) : q[i].kind = "lidar" /\ q[i].id = m
      BY <3>1 DEF Waiting
    <3>3. i - 1 \in 1 .. Len(p) /\ (i - 1) + 1 = i
      BY <1>1, <2>2, <3>1, <3>2
    <3>4. p[i - 1] = q[i]
      BY <1>1, <3>3
    <3> QED BY <3>2, <3>3, <3>4
  <2>5. r + 1 <= n
    BY <2>1
  <2>6. Waiting(p, r + 1, n)
    BY <1>3, <2>3, <2>4, <2>5 DEF Waiting
  <2> QED BY <1>1, <1>4, <2>2, <2>6 DEF p
<1>5. CASE Head(q).kind # "lidar"
  <2>1. ASSUME NEW i \in 1 .. Len(p), p[i].kind = "lidar" PROVE p[i].id \in r + 1 .. n
    BY <1>1, <1>2, <2>1 DEF Waiting
  <2>2. ASSUME NEW m \in r + 1 .. n
        PROVE  \E i \in 1 .. Len(p) : p[i].kind = "lidar" /\ p[i].id = m
    <3>1. PICK i \in 1 .. Len(q) : q[i].kind = "lidar" /\ q[i].id = m
      BY DEF Waiting
    <3>2. i # 1
      BY <1>1, <1>5, <3>1
    <3>3. i - 1 \in 1 .. Len(p) /\ (i - 1) + 1 = i
      BY <1>1, <3>2
    <3>4. p[i - 1] = q[i]
      BY <1>1, <3>3
    <3> QED BY <3>1, <3>3, <3>4
  <2>3. Waiting(p, r, n)
    BY <1>3, <2>1, <2>2 DEF Waiting
  <2> QED BY <1>5, <2>3 DEF p
<1> QED BY <1>4, <1>5

(* A datagram arrives at its socket. *)
LEMMA ArriveStep ==
  ASSUME InputInv, NEW kind \in Kinds, Arrive(kind)
  PROVE  InputInv'
<1>1. InputType /\ BufferInv /\ ReadInv
  BY DEF InputInv
<1>2. PICK n \in Nat : n = IF kind = "lidar" THEN arrived + 1 ELSE arrived
  BY <1>1 DEF InputType
<1>3. PICK d \in Datagram : d = [kind |-> kind, id |-> n]
  BY DEF Datagram
<1>4. PICK s \in {"lidar", "gps"} : s = SocketOf(kind) /\ (kind # "gps" => s = "lidar")
  BY DEF SocketOf
<1>5. /\ arrived' = n
      /\ waiting' = [waiting EXCEPT ![s] = Append(waiting[s], d)]
      /\ UNCHANGED <<samePort, number, task, packet, readLidar, pushedLidar, pushedKinds>>
  BY <1>1, <1>2, <1>3, <1>4 DEF Arrive, pushedVars, InputType
<1>6. InputType'
  BY <1>1, <1>5 DEF InputType
<1>7. ReadInv'
  BY <1>1, <1>5 DEF ReadInv
<1>8. BufferInv'
  <2>1. /\ waiting["lidar"] \in Seq(Datagram) /\ waiting["gps"] \in Seq(Datagram)
        /\ arrived \in Nat /\ Len(readLidar) \in Nat /\ readLidar' = readLidar
    BY <1>1, <1>5 DEF InputType, Kinds
  <2>2. arrived' = IF kind = "lidar" THEN arrived + 1 ELSE arrived
    BY <1>2, <1>5
  <2>3. \A i \in 1 .. Len(waiting'["gps"]) : waiting'["gps"][i].kind = "gps"
    <3>1. CASE s = "gps"
      <4>1. waiting'["gps"] = Append(waiting["gps"], d) /\ d.kind = "gps"
        BY <1>1, <1>3, <1>4, <1>5, <3>1 DEF InputType, Kinds
      <4> QED BY <1>1, <2>1, <4>1 DEF BufferInv
    <3>2. CASE s # "gps"
      BY <1>1, <1>5, <3>2 DEF InputType, BufferInv
    <3> QED BY <3>1, <3>2
  <2>4. Waiting(waiting'["lidar"], Len(readLidar), arrived')
    <3>0. Waiting(waiting["lidar"], Len(readLidar), arrived)
      BY <1>1 DEF BufferInv
    <3>1. CASE s # "lidar"
      <4>1. waiting'["lidar"] = waiting["lidar"] /\ arrived' = arrived
        BY <1>1, <1>4, <1>5, <2>2, <3>1 DEF InputType
      <4> QED BY <3>0, <4>1
    <3>2. CASE s = "lidar"
      <4>1. waiting'["lidar"] = Append(waiting["lidar"], d)
        BY <1>1, <1>5, <3>2 DEF InputType
      <4>2. CASE kind = "lidar"
        <5>1. d.kind = "lidar" /\ d.id = arrived + 1 /\ arrived' = arrived + 1
          BY <1>2, <1>3, <2>2, <4>2
        <5> QED BY <2>1, <3>0, <4>1, <5>1, WaitingMore
      <4>3. CASE kind # "lidar"
        <5>1. d.kind # "lidar" /\ arrived' = arrived
          BY <1>3, <2>2, <4>3
        <5> QED BY <2>1, <3>0, <4>1, <5>1, WaitingMore
      <4> QED BY <4>2, <4>3
    <3> QED BY <3>1, <3>2
  <2> QED BY <2>1, <2>3, <2>4 DEF BufferInv
<1> QED BY <1>6, <1>7, <1>8 DEF InputInv

(* RecvTask reads a datagram: if a lidar datagram, the next one. *)
LEMMA ReceiveStep ==
  ASSUME InputInv, NEW s \in {"lidar", "gps"}, ReceiveFrom(s)
  PROVE  InputInv'
<1>1. InputType /\ BufferInv /\ ReadInv /\ task = "poll" /\ task' = "classify"
  BY DEF InputInv, ReceiveFrom
<1>2. /\ waiting[s] # << >>
      /\ waiting' = [waiting EXCEPT ![s] = Tail(waiting[s])]
      /\ packet' = Head(waiting[s])
      /\ readLidar' = IF Head(waiting[s]).kind = "lidar"
                        THEN Append(readLidar, Head(waiting[s]).id) ELSE readLidar
  BY SocketRead DEF ReceiveFrom
<1>3. UNCHANGED <<samePort, number, arrived, pushedLidar, pushedKinds>>
  BY DEF ReceiveFrom, pushedVars
<1>4. /\ waiting[s] \in Seq(Datagram) /\ waiting["gps"] \in Seq(Datagram)
      /\ waiting["lidar"] \in Seq(Datagram) /\ arrived \in Nat
      /\ Len(readLidar) \in Nat /\ readLidar \in Seq(Nat) /\ readLidar = pushedLidar
  BY <1>1 DEF InputType, Kinds, ReadInv
<1>5. packet' \in Datagram /\ Tail(waiting[s]) \in Seq(Datagram) /\ packet'.id \in Nat
  <2>1. packet' \in Datagram /\ Tail(waiting[s]) \in Seq(Datagram)
    BY <1>2, <1>4
  <2> QED BY <2>1 DEF Datagram
<1>6. readLidar' \in Seq(Nat)
  BY <1>2, <1>4, <1>5
<1>7. InputType'
  BY <1>1, <1>2, <1>3, <1>5, <1>6 DEF InputType
<1>8. \A i \in 1 .. Len(waiting'["gps"]) : waiting'["gps"][i].kind = "gps"
  <2>1. CASE s = "gps"
    <3>1. waiting'["gps"] = Tail(waiting["gps"])
      BY <1>1, <1>2, <2>1 DEF InputType
    <3> QED BY <1>1, <1>2, <1>4, <2>1, <3>1 DEF BufferInv
  <2>2. CASE s # "gps"
    BY <1>1, <1>2, <2>2 DEF InputType, BufferInv
  <2> QED BY <2>1, <2>2
<1>9. CASE packet'.kind = "lidar"
  <2>1. s = "lidar"
    <3>1. ASSUME s = "gps" PROVE FALSE
      <4>1. Head(waiting["gps"]).kind = "gps"
        BY <1>1, <1>2, <1>4, <3>1 DEF BufferInv
      <4> QED BY <1>2, <1>9, <3>1, <4>1
    <3> QED BY <3>1
  <2>2. /\ packet'.id = Len(readLidar) + 1
        /\ Waiting(Tail(waiting["lidar"]), Len(readLidar) + 1, arrived)
    BY <1>1, <1>2, <1>4, <1>9, <2>1, WaitingLess DEF BufferInv
  <2>3. waiting'["lidar"] = Tail(waiting["lidar"])
    BY <1>1, <1>2, <2>1 DEF InputType
  <2>4. readLidar' = Append(readLidar, packet'.id)
    BY <1>2, <1>9
  <2>5. Len(readLidar') = Len(readLidar) + 1
    BY <1>4, <1>5, <2>4
  <2>6. BufferInv'
    BY <1>3, <1>8, <2>2, <2>3, <2>5 DEF BufferInv
  <2>7. \A i \in 1 .. Len(readLidar') : readLidar'[i] = i
    BY <1>1, <1>4, <1>5, <2>2, <2>4 DEF ReadInv
  <2>8. ReadInv'
    BY <1>1, <1>3, <1>4, <1>5, <1>9, <2>4, <2>7 DEF ReadInv
  <2> QED BY <1>7, <2>6, <2>8 DEF InputInv
<1>10. CASE packet'.kind # "lidar"
  <2>1. readLidar' = readLidar
    BY <1>2, <1>10
  <2>2. Waiting(waiting'["lidar"], Len(readLidar), arrived)
    <3>1. CASE s = "lidar"
      <4>1. waiting'["lidar"] = Tail(waiting["lidar"])
        BY <1>1, <1>2, <3>1 DEF InputType
      <4>2. Waiting(Tail(waiting["lidar"]), Len(readLidar), arrived)
        BY <1>1, <1>2, <1>4, <1>10, <3>1, WaitingLess DEF BufferInv
      <4> QED BY <4>1, <4>2
    <3>2. CASE s # "lidar"
      <4>1. waiting'["lidar"] = waiting["lidar"]
        BY <1>1, <1>2, <3>2 DEF InputType
      <4> QED BY <1>1, <4>1 DEF BufferInv
    <3> QED BY <3>1, <3>2
  <2>3. BufferInv'
    BY <1>3, <1>8, <2>1, <2>2 DEF BufferInv
  <2>4. ReadInv'
    BY <1>1, <1>3, <1>4, <1>10, <2>1 DEF ReadInv
  <2> QED BY <1>7, <2>3, <2>4 DEF InputInv
<1> QED BY <1>9, <1>10

(* RecvTask pushes the datagram or hands it to the GPS parser. *)
LEMMA ClassifyStep ==
  ASSUME InputInv, Classify
  PROVE  InputInv'
<1>1. InputType /\ BufferInv /\ ReadInv /\ task = "classify" /\ task' = "test"
  BY DEF InputInv, Classify
<1>2. UNCHANGED <<samePort, number, waiting, arrived, packet, readLidar>>
  BY DEF Classify
<1>3. CASE packet.kind = "lidar"
  <2>1. pushedLidar' = Append(pushedLidar, packet.id) /\ pushedKinds' = pushedKinds \cup {packet.kind}
    BY <1>3 DEF Classify, IsGps
  <2>2. readLidar = pushedLidar'
    BY <1>1, <1>3, <2>1 DEF ReadInv
  <2> QED BY <1>1, <1>2, <1>3, <2>1, <2>2 DEF InputInv, InputType, BufferInv, ReadInv
<1>4. CASE packet.kind # "lidar"
  <2>1. pushedLidar' = pushedLidar /\ "gps" \notin pushedKinds'
    BY <1>1, <1>4 DEF Classify, IsGps, pushedVars, ReadInv
  <2> QED BY <1>1, <1>2, <1>4, <2>1 DEF InputInv, InputType, BufferInv, ReadInv
<1> QED BY <1>3, <1>4

(* Every step of the sockets, of RecvTask and of its owner keeps the       *)
(* order.                                                                  *)
LEMMA InputStep ==
  ASSUME InputInv, [InputNext]_inputVars
  PROVE  InputInv'
<1>1. CASE Disable \/ PollFails \/ LoopTest
  <2>1. /\ UNCHANGED <<samePort, number, waiting, arrived, packet, readLidar, pushedLidar, pushedKinds>>
        /\ task = "classify" <=> task' = "classify"
    BY <1>1 DEF Disable, PollFails, LoopTest, pushedVars
  <2> QED BY <2>1 DEF InputInv, InputType, BufferInv, ReadInv
<1>2. CASE ReadNothing
  <2>1. /\ UNCHANGED <<samePort, number, waiting, arrived, readLidar, pushedLidar, pushedKinds>>
        /\ task = "poll" /\ packet'.kind # "lidar"
    BY <1>2 DEF ReadNothing, pushedVars
  <2> QED BY <2>1 DEF InputInv, InputType, BufferInv, ReadInv
<1>3. CASE UNCHANGED inputVars
  BY <1>3 DEF inputVars, InputInv, InputType, BufferInv, ReadInv
<1> QED BY <1>1, <1>2, <1>3, ArriveStep, ReceiveStep, ClassifyStep DEF InputNext, Task, Exited, Kinds

(* InputInv holds throughout. *)
LEMMA InputInvariant == Spec => []InputInv
<1>1. Init => InputInv
  <2> SUFFICES ASSUME Init PROVE InputInv
    OBVIOUS
  <2>1. /\ waiting = [s \in {"lidar", "gps"} |-> << >>] /\ arrived = 0
        /\ readLidar = << >> /\ pushedLidar = << >> /\ task # "classify" /\ pushedKinds = {}
        /\ samePort \in BOOLEAN
    BY DEF Init, InputInit
  <2>2. InputType
    BY <2>1 DEF InputType
  <2>3. waiting["lidar"] = << >> /\ waiting["gps"] = << >> /\ arrived = 0
    BY <2>1
  <2>4. BufferInv
    BY <2>1, <2>3 DEF BufferInv, Waiting
  <2>5. ReadInv
    BY <2>1 DEF ReadInv
  <2> QED BY <2>2, <2>4, <2>5 DEF InputInv
<1>2. [Next]_vars => [InputNext]_inputVars
  BY DEF Next, vars
<1> QED BY <1>1, <1>2, InputStep, PTL DEF Spec

(* Whatever arrives at the sockets, however it interleaves and whether or  *)
(* not they share a port, RecvTask pushes the lidar packets in the order   *)
(* in which they arrived, none twice and none left out, and pushes no GPS  *)
(* packet.                                                                 *)
THEOREM InputPushedInOrder == Spec => []LidarPushedInOrder
<1>1. InputInv => LidarPushedInOrder
  BY DEF InputInv, ReadInv, LidarPushedInOrder
<1> QED BY <1>1, InputInvariant, PTL

-----------------------------------------------------------------------------
(* The rosbag: its packets, as the topic, the subscription's callback and  *)
(* the queue hold them.                                                    *)
BagPacket == [number : Nat, stamp : Int]

(* What may be on its way to the decoder when n is the newest packet       *)
(* decoded, t the guard's time and s the number of packets played: a       *)
(* correction packet, a packet of the node's own scans, which is not newer *)
(* than n nor later than t, or a packet of the bag that has not been       *)
(* decoded.                                                                *)
Known(p, n, t, s, raw) ==
  \/ p = Correction
  \/ raw /\ p.number \in 1 .. n /\ p.stamp <= t
  \/ p.number \in n + 1 .. s

(* If p and q are both still to be decoded, p is the older one. *)
Behind(p, q, n) == p.number > n /\ q.number > n => p.number < q.number

(* A queue of such packets, the new ones of them in order. *)
Good(q, n, t, s, raw) ==
  /\ \A i \in 1 .. Len(q) : Known(q[i], n, t, s, raw)
  /\ \A i, j \in 1 .. Len(q) : i < j => Behind(q[i], q[j], n)

(* What is new in q is older than what is new in r. *)
Apart(q, r, n) == \A i \in 1 .. Len(q), j \in 1 .. Len(r) : Behind(q[i], r[j], n)

(* The queue, the scan being pushed and the scans that wait, in the order  *)
(* in which the decoder will get them.                                     *)
Pipeline(b, pu, to, n, t, s, raw) ==
  /\ Good(b, n, t, s, raw)
  /\ \A i \in 1 .. Len(b) : b[i] # Correction
  /\ Good(pu, n, t, s, raw)
  /\ Apart(b, pu, n)
  /\ \A k \in 1 .. Len(to) : Good(to[k], n, t, s, raw) /\ Apart(b, to[k], n) /\ Apart(pu, to[k], n)
  /\ \A k, l \in 1 .. Len(to) : k < l => Apart(to[k], to[l], n)

(* The packets the player has published. *)
Sent == ScanSize * played

BagType ==
  /\ bag \in Bags /\ xt \in BOOLEAN /\ publishesRaw \in BOOLEAN
  /\ played \in Nat /\ Sent \in Nat /\ Sent <= Len(bag)
  /\ topic \in Seq(Seq(BagPacket))
  /\ pushing \in Seq(BagPacket) /\ backlog \in Seq(BagPacket) /\ scan \in Seq(BagPacket)
  /\ bagGuard \in [initialized : BOOLEAN, last : Int]
  /\ bagTracker \in [initialized : BOOLEAN, lastSequence : Nat, lastObserved : Int]
  /\ newest \in Nat

(* The tracker's last number is the newest packet decoded, and the guard's *)
(* time is at most its tolerance ahead of the tracker's last observation.  *)
FilterInv ==
  /\ newest <= Sent
  /\ ~bagGuard.initialized => newest = 0
  /\ xt => IF bagTracker.initialized
             THEN /\ bagGuard.initialized
                  /\ bagTracker.lastSequence = newest
                  /\ bagGuard.last - bagTracker.lastObserved <= Tolerance
             ELSE newest = 0

(* The scan being assembled is made of packets already decoded. *)
ScanInv == \A i \in 1 .. Len(scan) : scan[i].number \in 1 .. newest /\ scan[i].stamp <= bagGuard.last

PipeInv == Pipeline(backlog, pushing, topic, newest, bagGuard.last, Sent, publishesRaw)

(* The filters tell the node's own packets only if there are numbers to    *)
(* tell them by, or none of them come back.                                *)
BagInv ==
  /\ BagType
  /\ xt \/ ~publishesRaw => FilterInv /\ ScanInv /\ PipeInv /\ ~repeated

(* A correction packet bears no number of the bag. *)
LEMMA CorrectionPacket == Correction \in BagPacket /\ Correction.number = 0
BY DEF Correction, BagPacket

(* The entries of a tail. *)
LEMMA TailEntries ==
  ASSUME NEW S, NEW q \in Seq(S), q # << >>
  PROVE  /\ Tail(q) \in Seq(S) /\ Head(q) \in S /\ Head(q) = q[1] /\ 1 \in 1 .. Len(q)
         /\ \A i \in 1 .. Len(Tail(q)) :
              Tail(q)[i] = q[i + 1] /\ i + 1 \in 1 .. Len(q) /\ 1 < i + 1
OBVIOUS

(* The entries of a sequence that has grown. *)
LEMMA AppendEntries ==
  ASSUME NEW S, NEW q \in Seq(S), NEW e \in S
  PROVE  /\ Append(q, e) \in Seq(S) /\ Len(Append(q, e)) = Len(q) + 1 /\ Len(q) \in Nat
         /\ \A i \in 1 .. Len(Append(q, e)) :
              \/ i \in 1 .. Len(q) /\ Append(q, e)[i] = q[i]
              \/ i = Len(q) + 1 /\ Append(q, e)[i] = e
OBVIOUS

(* The packet at the head of a queue is older than the new ones behind it. *)
LEMMA GoodTail ==
  ASSUME NEW q \in Seq(BagPacket), q # << >>, NEW n, NEW t, NEW s, NEW raw, Good(q, n, t, s, raw)
  PROVE  /\ Good(Tail(q), n, t, s, raw) /\ Known(Head(q), n, t, s, raw)
         /\ \A j \in 1 .. Len(Tail(q)) : Behind(Head(q), Tail(q)[j], n)
<1> DEFINE p == Tail(q)
<1>1. /\ Head(q) = q[1] /\ 1 \in 1 .. Len(q) /\ p \in Seq(BagPacket)
      /\ \A i \in 1 .. Len(p) : p[i] = q[i + 1] /\ i + 1 \in 1 .. Len(q) /\ 1 < i + 1
  BY TailEntries
<1> HIDE DEF p
<1>2. \A i \in 1 .. Len(p) : Known(p[i], n, t, s, raw) /\ Behind(q[1], p[i], n)
  BY <1>1 DEF Good
<1>3. ASSUME NEW i \in 1 .. Len(p), NEW j \in 1 .. Len(p), i < j PROVE Behind(p[i], p[j], n)
  <2>1. i + 1 < j + 1
    BY <1>1, <1>3
  <2> QED BY <1>1, <2>1 DEF Good
<1>4. Known(q[1], n, t, s, raw)
  BY <1>1 DEF Good
<1> QED BY <1>1, <1>2, <1>3, <1>4 DEF p, Good

(* Taking a packet from either of two queues leaves them apart. *)
LEMMA ApartTail ==
  ASSUME NEW q \in Seq(BagPacket), NEW r \in Seq(BagPacket), NEW n, Apart(q, r, n)
  PROVE  /\ q # << >> => Apart(Tail(q), r, n) /\ \A j \in 1 .. Len(r) : Behind(Head(q), r[j], n)
         /\ r # << >> => Apart(q, Tail(r), n) /\ \A i \in 1 .. Len(q) : Behind(q[i], Head(r), n)
<1>1. ASSUME q # << >>
      PROVE  Apart(Tail(q), r, n) /\ \A j \in 1 .. Len(r) : Behind(Head(q), r[j], n)
  BY <1>1, TailEntries DEF Apart
<1>2. ASSUME r # << >>
      PROVE  Apart(q, Tail(r), n) /\ \A i \in 1 .. Len(q) : Behind(q[i], Head(r), n)
  BY <1>2, TailEntries DEF Apart
<1> QED BY <1>1, <1>2

(* A packet may join the queue if nothing in it is newer. *)
LEMMA GoodAppend ==
  ASSUME NEW q \in Seq(BagPacket), NEW p \in BagPacket, NEW n, NEW t, NEW s, NEW raw,
         Good(q, n, t, s, raw), Known(p, n, t, s, raw),
         \A i \in 1 .. Len(q) : Behind(q[i], p, n)
  PROVE  Good(Append(q, p), n, t, s, raw)
<1> DEFINE a == Append(q, p)
<1>1. /\ Len(a) = Len(q) + 1 /\ Len(q) \in Nat
      /\ \A i \in 1 .. Len(a) : \/ i \in 1 .. Len(q) /\ a[i] = q[i]
                                \/ i = Len(q) + 1 /\ a[i] = p
  BY AppendEntries
<1> HIDE DEF a
<1>2. \A i \in 1 .. Len(a) : Known(a[i], n, t, s, raw)
  BY <1>1 DEF Good
<1>3. ASSUME NEW i \in 1 .. Len(a), NEW j \in 1 .. Len(a), i < j PROVE Behind(a[i], a[j], n)
  <2>1. i \in 1 .. Len(q) /\ a[i] = q[i]
    BY <1>1, <1>3
  <2>2. CASE j \in 1 .. Len(q) /\ a[j] = q[j]
    BY <1>3, <2>1, <2>2 DEF Good
  <2>3. CASE a[j] = p
    BY <2>1, <2>3
  <2> QED BY <1>1, <2>2, <2>3
<1> QED BY <1>2, <1>3 DEF Good, a

(* It may join the first of two queues if nothing in the second is older. *)
LEMMA ApartAppend ==
  ASSUME NEW q \in Seq(BagPacket), NEW r \in Seq(BagPacket), NEW p \in BagPacket, NEW n,
         Apart(q, r, n), \A j \in 1 .. Len(r) : Behind(p, r[j], n)
  PROVE  Apart(Append(q, p), r, n)
BY AppendEntries DEF Apart

(* More packets are played, or the guard's time advances. *)
LEMMA GoodLater ==
  ASSUME NEW q \in Seq(BagPacket), NEW n \in Nat, NEW t \in Int, NEW s \in Nat, NEW raw,
         NEW u \in Int, NEW v \in Nat, n = 0 \/ t <= u, s <= v,
         Good(q, n, t, s, raw)
  PROVE  Good(q, n, u, v, raw)
<1>1. ASSUME NEW i \in 1 .. Len(q) PROVE Known(q[i], n, u, v, raw)
  <2>1. Known(q[i], n, t, s, raw) /\ q[i] \in BagPacket
    BY DEF Good
  <2>2. q[i].number \in Nat /\ q[i].stamp \in Int
    BY <2>1 DEF BagPacket
  <2> QED BY <2>1, <2>2 DEF Known
<1> QED BY <1>1 DEF Good

(* A new packet is decoded: what waits behind it is newer. *)
LEMMA GoodDecoded ==
  ASSUME NEW q \in Seq(BagPacket), NEW n \in Nat, NEW t \in Int, NEW s \in Nat, NEW raw,
         NEW m \in Nat, NEW u \in Int, n = 0 \/ t <= u, n < m,
         NEW p \in BagPacket, p.number = m, \A j \in 1 .. Len(q) : Behind(p, q[j], n),
         Good(q, n, t, s, raw)
  PROVE  Good(q, m, u, s, raw)
<1>1. ASSUME NEW i \in 1 .. Len(q) PROVE Known(q[i], m, u, s, raw)
  <2>1. Known(q[i], n, t, s, raw) /\ q[i] \in BagPacket /\ Behind(p, q[i], n)
    BY DEF Good
  <2>2. q[i].number \in Nat /\ q[i].stamp \in Int
    BY <2>1 DEF BagPacket
  <2>3. CASE q[i] = Correction
    BY <2>3 DEF Known
  <2>4. CASE raw /\ q[i].number \in 1 .. n /\ q[i].stamp <= t
    BY <2>2, <2>4 DEF Known
  <2>5. CASE q[i].number \in n + 1 .. s
    BY <2>1, <2>2, <2>5 DEF Known, Behind
  <2> QED BY <2>1, <2>3, <2>4, <2>5 DEF Known
<1>2. ASSUME NEW i \in 1 .. Len(q), NEW j \in 1 .. Len(q), i < j PROVE Behind(q[i], q[j], m)
  <2>1. Behind(q[i], q[j], n) /\ q[i] \in BagPacket /\ q[j] \in BagPacket
    BY <1>2 DEF Good
  <2>2. q[i].number \in Nat /\ q[j].number \in Nat
    BY <2>1 DEF BagPacket
  <2> QED BY <2>1, <2>2 DEF Behind
<1> QED BY <1>1, <1>2 DEF Good

(* Two queues that are apart stay apart. *)
LEMMA ApartDecoded ==
  ASSUME NEW q \in Seq(BagPacket), NEW r \in Seq(BagPacket), NEW n \in Nat, NEW m \in Nat, n <= m,
         Apart(q, r, n)
  PROVE  Apart(q, r, m)
<1> SUFFICES ASSUME NEW i \in 1 .. Len(q), NEW j \in 1 .. Len(r) PROVE Behind(q[i], r[j], m)
  BY DEF Apart
<1>1. Behind(q[i], r[j], n) /\ q[i] \in BagPacket /\ r[j] \in BagPacket
  BY DEF Apart
<1>2. q[i].number \in Nat /\ r[j].number \in Nat
  BY <1>1 DEF BagPacket
<1> QED BY <1>1, <1>2 DEF Behind

-----------------------------------------------------------------------------
(* A full subscription loses its oldest scan. *)
LEMMA TopicTail ==
  ASSUME NEW b \in Seq(BagPacket), NEW pu \in Seq(BagPacket), NEW to \in Seq(Seq(BagPacket)),
         NEW n, NEW t, NEW s, NEW raw, Pipeline(b, pu, to, n, t, s, raw), to # << >>
  PROVE  Pipeline(b, pu, Tail(to), n, t, s, raw)
<1> DEFINE p == Tail(to)
<1>1. \A k \in 1 .. Len(p) : p[k] = to[k + 1] /\ k + 1 \in 1 .. Len(to)
  BY TailEntries
<1>2. Len(p) \in Nat
  BY TailEntries
<1> HIDE DEF p
<1>3. \A k \in 1 .. Len(p) : Good(p[k], n, t, s, raw) /\ Apart(b, p[k], n) /\ Apart(pu, p[k], n)
  BY <1>1 DEF Pipeline
<1>4. ASSUME NEW k \in 1 .. Len(p), NEW l \in 1 .. Len(p), k < l PROVE Apart(p[k], p[l], n)
  <2>1. k + 1 < l + 1
    BY <1>2, <1>4
  <2> QED BY <1>1, <2>1 DEF Pipeline
<1> QED BY <1>3, <1>4 DEF Pipeline, p

(* A scan joins the subscription if nothing before it is newer. *)
LEMMA TopicAppend ==
  ASSUME NEW b \in Seq(BagPacket), NEW pu \in Seq(BagPacket), NEW to \in Seq(Seq(BagPacket)),
         NEW n, NEW t, NEW s, NEW raw, Pipeline(b, pu, to, n, t, s, raw),
         NEW new \in Seq(BagPacket), Good(new, n, t, s, raw), Apart(b, new, n), Apart(pu, new, n),
         \A k \in 1 .. Len(to) : Apart(to[k], new, n)
  PROVE  Pipeline(b, pu, Append(to, new), n, t, s, raw)
<1> DEFINE a == Append(to, new)
<1>1. /\ Len(a) = Len(to) + 1 /\ Len(to) \in Nat
      /\ \A i \in 1 .. Len(a) : \/ i \in 1 .. Len(to) /\ a[i] = to[i]
                                \/ i = Len(to) + 1 /\ a[i] = new
  BY AppendEntries
<1> HIDE DEF a
<1>2. \A k \in 1 .. Len(a) : Good(a[k], n, t, s, raw) /\ Apart(b, a[k], n) /\ Apart(pu, a[k], n)
  BY <1>1 DEF Pipeline
<1>3. ASSUME NEW k \in 1 .. Len(a), NEW l \in 1 .. Len(a), k < l PROVE Apart(a[k], a[l], n)
  <2>1. k \in 1 .. Len(to) /\ a[k] = to[k]
    BY <1>1, <1>3
  <2>2. CASE l \in 1 .. Len(to) /\ a[l] = to[l]
    BY <1>3, <2>1, <2>2 DEF Pipeline
  <2>3. CASE a[l] = new
    BY <2>1, <2>3
  <2> QED BY <1>1, <2>2, <2>3
<1> QED BY <1>2, <1>3 DEF Pipeline, a

(* So a scan is published that nothing overtakes, whether or not that      *)
(* costs another.                                                          *)
LEMMA ScanPublished ==
  ASSUME NEW b \in Seq(BagPacket), NEW pu \in Seq(BagPacket), NEW to \in Seq(Seq(BagPacket)),
         NEW n, NEW t, NEW s, NEW raw, Pipeline(b, pu, to, n, t, s, raw),
         NEW new \in Seq(BagPacket), Good(new, n, t, s, raw), Apart(b, new, n), Apart(pu, new, n),
         \A k \in 1 .. Len(to) : Apart(to[k], new, n)
  PROVE  /\ Published(to, new) \in Seq(Seq(BagPacket))
         /\ Pipeline(b, pu, Published(to, new), n, t, s, raw)
<1>0. SubscriptionDepth \in Nat /\ SubscriptionDepth > 0
  <2>1. {ScanSize, SubscriptionDepth, MaxBacklog} \subseteq Nat \ {0}
    BY BagAssumption
  <2>2. SubscriptionDepth \in Nat \ {0}
    BY <2>1
  <2> QED BY <2>2
<1>1. CASE Len(to) < SubscriptionDepth
  <2>1. Published(to, new) = Append(to, new)
    BY <1>1 DEF Published
  <2>2. Append(to, new) \in Seq(Seq(BagPacket))
    BY AppendEntries
  <2> QED BY <2>1, <2>2, TopicAppend
<1>2. CASE ~(Len(to) < SubscriptionDepth)
  <2>1. Published(to, new) = Append(Tail(to), new)
    BY <1>2 DEF Published
  <2>2. to # << >>
    BY <1>0, <1>2
  <2>3. Tail(to) \in Seq(Seq(BagPacket))
    BY <2>2, TailEntries
  <2>4. \A k \in 1 .. Len(Tail(to)) : Apart(Tail(to)[k], new, n)
    BY <2>2, TailEntries
  <2>5. Pipeline(b, pu, Tail(to), n, t, s, raw)
    BY <2>2, TopicTail
  <2>6. Append(Tail(to), new) \in Seq(Seq(BagPacket))
    BY <2>3, AppendEntries
  <2> QED BY <2>1, <2>3, <2>4, <2>5, <2>6, TopicAppend
<1> QED BY <1>1, <1>2

(* scanCallback is given the oldest scan. *)
LEMMA ScanTaken ==
  ASSUME NEW b \in Seq(BagPacket), NEW to \in Seq(Seq(BagPacket)), to # << >>,
         NEW n, NEW t, NEW s, NEW raw, Pipeline(b, << >>, to, n, t, s, raw)
  PROVE  /\ Head(to) \in Seq(BagPacket) /\ Tail(to) \in Seq(Seq(BagPacket))
         /\ Pipeline(b, Head(to), Tail(to), n, t, s, raw)
<1>1. /\ Head(to) \in Seq(BagPacket) /\ Tail(to) \in Seq(Seq(BagPacket))
      /\ Head(to) = to[1] /\ 1 \in 1 .. Len(to)
      /\ \A k \in 1 .. Len(Tail(to)) : Tail(to)[k] = to[k + 1] /\ k + 1 \in 1 .. Len(to) /\ 1 < k + 1
  BY TailEntries
<1>2. << >> \in Seq(BagPacket)
  OBVIOUS
<1>3. Pipeline(b, << >>, Tail(to), n, t, s, raw)
  BY <1>2, TopicTail
<1>4. Good(to[1], n, t, s, raw) /\ Apart(b, to[1], n)
  BY <1>1 DEF Pipeline
<1>5. \A k \in 1 .. Len(Tail(to)) : Apart(to[1], Tail(to)[k], n)
  BY <1>1 DEF Pipeline
<1> QED BY <1>1, <1>3, <1>4, <1>5 DEF Pipeline

(* PushScanPacket hands on the next packet, or leaves it out. *)
LEMMA PacketPushed ==
  ASSUME NEW b \in Seq(BagPacket), NEW pu \in Seq(BagPacket), NEW to \in Seq(Seq(BagPacket)),
         pu # << >>,
         NEW n, NEW t, NEW s, NEW raw, Pipeline(b, pu, to, n, t, s, raw)
  PROVE  /\ Pipeline(b, Tail(pu), to, n, t, s, raw)
         /\ Head(pu) # Correction => Pipeline(Append(b, Head(pu)), Tail(pu), to, n, t, s, raw)
<1>1. Tail(pu) \in Seq(BagPacket) /\ Head(pu) \in BagPacket
  BY TailEntries
<1>2. /\ Good(Tail(pu), n, t, s, raw) /\ Known(Head(pu), n, t, s, raw)
      /\ \A j \in 1 .. Len(Tail(pu)) : Behind(Head(pu), Tail(pu)[j], n)
  BY GoodTail DEF Pipeline
<1>3. Apart(b, Tail(pu), n) /\ \A i \in 1 .. Len(b) : Behind(b[i], Head(pu), n)
  BY ApartTail DEF Pipeline
<1>4. \A k \in 1 .. Len(to) :
        /\ to[k] \in Seq(BagPacket) /\ Apart(pu, to[k], n)
        /\ Apart(Tail(pu), to[k], n) /\ \A j \in 1 .. Len(to[k]) : Behind(Head(pu), to[k][j], n)
  <2> SUFFICES ASSUME NEW k \in 1 .. Len(to)
               PROVE  /\ to[k] \in Seq(BagPacket) /\ Apart(pu, to[k], n)
                      /\ Apart(Tail(pu), to[k], n)
                      /\ \A j \in 1 .. Len(to[k]) : Behind(Head(pu), to[k][j], n)
    OBVIOUS
  <2>1. to[k] \in Seq(BagPacket) /\ Apart(pu, to[k], n)
    BY DEF Pipeline
  <2> QED BY <2>1, ApartTail
<1>5. Pipeline(b, Tail(pu), to, n, t, s, raw)
  BY <1>2, <1>3, <1>4 DEF Pipeline
<1>6. ASSUME Head(pu) # Correction
      PROVE  Pipeline(Append(b, Head(pu)), Tail(pu), to, n, t, s, raw)
  <2> DEFINE a == Append(b, Head(pu))
  <2>1. Good(a, n, t, s, raw)
    BY <1>1, <1>2, <1>3, GoodAppend DEF Pipeline
  <2>2. \A i \in 1 .. Len(a) : a[i] # Correction
    BY <1>1, <1>6, AppendEntries DEF Pipeline
  <2>3. Apart(a, Tail(pu), n)
    BY <1>1, <1>2, <1>3, ApartAppend
  <2>4. \A k \in 1 .. Len(to) : Apart(a, to[k], n)
    <3> SUFFICES ASSUME NEW k \in 1 .. Len(to) PROVE Apart(a, to[k], n)
      OBVIOUS
    <3>1. Apart(b, to[k], n)
      BY DEF Pipeline
    <3> QED BY <1>1, <1>4, <3>1, ApartAppend
  <2> HIDE DEF a
  <2>5. Pipeline(a, Tail(pu), to, n, t, s, raw)
    BY <1>5, <2>1, <2>2, <2>3, <2>4 DEF Pipeline
  <2> QED BY <2>5 DEF a
<1> QED BY <1>5, <1>6

(* The decoder takes the packet at the head of the queue. *)
LEMMA PacketTaken ==
  ASSUME NEW b \in Seq(BagPacket), NEW pu \in Seq(BagPacket), NEW to \in Seq(Seq(BagPacket)),
         b # << >>, NEW n, NEW t, NEW s, NEW raw, Pipeline(b, pu, to, n, t, s, raw)
  PROVE  /\ Tail(b) \in Seq(BagPacket) /\ Head(b) \in BagPacket /\ Head(b) # Correction
         /\ Known(Head(b), n, t, s, raw)
         /\ Pipeline(Tail(b), pu, to, n, t, s, raw)
         /\ \A j \in 1 .. Len(Tail(b)) : Behind(Head(b), Tail(b)[j], n)
         /\ \A j \in 1 .. Len(pu) : Behind(Head(b), pu[j], n)
         /\ \A k \in 1 .. Len(to) : \A j \in 1 .. Len(to[k]) : Behind(Head(b), to[k][j], n)
<1>1. /\ Tail(b) \in Seq(BagPacket) /\ Head(b) \in BagPacket /\ Head(b) # Correction
      /\ \A i \in 1 .. Len(Tail(b)) : Tail(b)[i] # Correction
  BY TailEntries DEF Pipeline
<1>2. /\ Good(Tail(b), n, t, s, raw) /\ Known(Head(b), n, t, s, raw)
      /\ \A j \in 1 .. Len(Tail(b)) : Behind(Head(b), Tail(b)[j], n)
  BY GoodTail DEF Pipeline
<1>3. Apart(Tail(b), pu, n) /\ \A j \in 1 .. Len(pu) : Behind(Head(b), pu[j], n)
  BY ApartTail DEF Pipeline
<1>4. ASSUME NEW k \in 1 .. Len(to)
      PROVE  Apart(Tail(b), to[k], n) /\ \A j \in 1 .. Len(to[k]) : Behind(Head(b), to[k][j], n)
  <2>1. to[k] \in Seq(BagPacket) /\ Apart(b, to[k], n)
    BY DEF Pipeline
  <2> QED BY <2>1, ApartTail
<1>5. Pipeline(Tail(b), pu, to, n, t, s, raw)
  BY <1>1, <1>2, <1>3, <1>4 DEF Pipeline
<1> QED BY <1>1, <1>2, <1>3, <1>4, <1>5

(* The whole pipeline when more is played or the guard's time advances. *)
LEMMA PipelineLater ==
  ASSUME NEW b \in Seq(BagPacket), NEW pu \in Seq(BagPacket), NEW to \in Seq(Seq(BagPacket)),
         NEW n \in Nat, NEW t \in Int, NEW s \in Nat, NEW raw, Pipeline(b, pu, to, n, t, s, raw),
         NEW u \in Int, NEW v \in Nat, n = 0 \/ t <= u, s <= v
  PROVE  Pipeline(b, pu, to, n, u, v, raw)
<1>1. Good(b, n, u, v, raw) /\ Good(pu, n, u, v, raw)
  BY GoodLater DEF Pipeline
<1>2. ASSUME NEW k \in 1 .. Len(to) PROVE Good(to[k], n, u, v, raw)
  <2>1. to[k] \in Seq(BagPacket) /\ Good(to[k], n, t, s, raw)
    BY DEF Pipeline
  <2> QED BY <2>1, GoodLater
<1> QED BY <1>1, <1>2 DEF Pipeline

(* The whole pipeline when a new packet has been decoded. *)
LEMMA PipelineDecoded ==
  ASSUME NEW b \in Seq(BagPacket), NEW pu \in Seq(BagPacket), NEW to \in Seq(Seq(BagPacket)),
         NEW n \in Nat, NEW t \in Int, NEW s \in Nat, NEW raw, Pipeline(b, pu, to, n, t, s, raw),
         NEW m \in Nat, NEW u \in Int, n = 0 \/ t <= u, n < m,
         NEW p \in BagPacket, p.number = m,
         \A j \in 1 .. Len(b) : Behind(p, b[j], n),
         \A j \in 1 .. Len(pu) : Behind(p, pu[j], n),
         \A k \in 1 .. Len(to) : \A j \in 1 .. Len(to[k]) : Behind(p, to[k][j], n)
  PROVE  Pipeline(b, pu, to, m, u, s, raw)
<1>0. n <= m
  OBVIOUS
<1>1. Good(b, m, u, s, raw) /\ Good(pu, m, u, s, raw)
  BY GoodDecoded DEF Pipeline
<1>2. Apart(b, pu, m)
  BY <1>0, ApartDecoded DEF Pipeline
<1>3. ASSUME NEW k \in 1 .. Len(to)
      PROVE  to[k] \in Seq(BagPacket) /\ Good(to[k], m, u, s, raw) /\ Apart(b, to[k], m) /\ Apart(pu, to[k], m)
  <2>1. to[k] \in Seq(BagPacket) /\ Good(to[k], n, t, s, raw) /\ Apart(b, to[k], n) /\ Apart(pu, to[k], n)
    BY DEF Pipeline
  <2>2. Good(to[k], m, u, s, raw)
    BY <2>1, GoodDecoded
  <2> QED BY <1>0, <2>1, <2>2, ApartDecoded
<1>4. ASSUME NEW k \in 1 .. Len(to), NEW l \in 1 .. Len(to), k < l PROVE Apart(to[k], to[l], m)
  <2>1. to[k] \in Seq(BagPacket) /\ to[l] \in Seq(BagPacket) /\ Apart(to[k], to[l], n)
    BY <1>4 DEF Pipeline
  <2> QED BY <1>0, <2>1, ApartDecoded
<1> QED BY <1>1, <1>2, <1>3, <1>4 DEF Pipeline

-----------------------------------------------------------------------------
(* The constants one by one. *)
LEMMA BagConstants ==
  /\ ScanSize \in Nat \ {0} /\ SubscriptionDepth \in Nat \ {0} /\ MaxBacklog \in Nat \ {0}
<1>1. {ScanSize, SubscriptionDepth, MaxBacklog} \subseteq Nat \ {0}
  BY BagAssumption
<1> QED BY <1>1

(* A subscription holds scans. *)
LEMMA PublishedType ==
  ASSUME NEW to \in Seq(Seq(BagPacket)), NEW new \in Seq(BagPacket)
  PROVE  Published(to, new) \in Seq(Seq(BagPacket))
<1>1. CASE Len(to) < SubscriptionDepth
  BY <1>1, AppendEntries DEF Published
<1>2. CASE ~(Len(to) < SubscriptionDepth)
  <2>1. to # << >>
    BY <1>2, BagConstants
  <2>2. Tail(to) \in Seq(Seq(BagPacket))
    BY <2>1, TailEntries
  <2> QED BY <1>2, <2>2, AppendEntries DEF Published
<1> QED BY <1>1, <1>2

(* Observe: a stamp the guard accepts is at most the tolerance behind its  *)
(* time, which does not go back.                                           *)
LEMMA GuardStep ==
  ASSUME NEW g \in [initialized : BOOLEAN, last : Int], NEW t \in Int
  PROVE  /\ GuardNext(g, t) \in [initialized : BOOLEAN, last : Int]
         /\ ~GuardAccepts(g, t) => GuardNext(g, t) = g
         /\ GuardAccepts(g, t) =>
              /\ GuardNext(g, t).initialized /\ t <= GuardNext(g, t).last
              /\ GuardNext(g, t).last - t <= Tolerance
              /\ g.initialized => g.last <= GuardNext(g, t).last
<1>1. isfinite(t) /\ Tolerance \in Nat
  BY GuardAssumption DEF isfinite
<1>2. CASE ~g.initialized
  <2>1. GuardStatus(g, t) = "first"
    BY <1>1, <1>2 DEF GuardStatus
  <2>2. GuardNext(g, t) = [initialized |-> TRUE, last |-> t]
    BY <2>1 DEF GuardNext
  <2> QED BY <1>1, <1>2, <2>1, <2>2 DEF GuardAccepts
<1>3. CASE g.initialized /\ TooOld(g.last, t)
  <2>1. GuardStatus(g, t) = "regression"
    BY <1>1, <1>3 DEF GuardStatus
  <2> QED BY <2>1 DEF GuardAccepts, GuardNext
<1>4. CASE g.initialized /\ ~TooOld(g.last, t)
  <2>1. GuardStatus(g, t) = "accepted"
    BY <1>1, <1>4 DEF GuardStatus
  <2>2. GuardNext(g, t) = [g EXCEPT !.last = Advance(g.last, t)]
    BY <2>1 DEF GuardNext
  <2>3. Advance(g.last, t) \in Int /\ g.last \in Int
    BY DEF Advance
  <2>4. GuardNext(g, t) \in [initialized : BOOLEAN, last : Int]
        /\ GuardNext(g, t).initialized = g.initialized /\ GuardNext(g, t).last = Advance(g.last, t)
    BY <2>2, <2>3
  <2>5. t <= Advance(g.last, t) /\ g.last <= Advance(g.last, t) /\ Advance(g.last, t) - t <= Tolerance
    BY <1>1, <1>4, <2>3 DEF TooOld, Advance
  <2>6. GuardAccepts(g, t)
    BY <2>1 DEF GuardAccepts
  <2> QED BY <1>4, <2>4, <2>5, <2>6
<1> QED BY <1>2, <1>3, <1>4

(* The argument's core: a packet of the node's own scans bears a number at *)
(* most the tracker's, by less than half of all numbers, and a stamp less  *)
(* than the idle period after the last one observed: it is a duplicate or  *)
(* backward.                                                               *)
LEMMA OldFiltered ==
  ASSUME Recognisable, BagType, FilterInv, xt, NEW p \in BagPacket,
         p.number \in 1 .. newest, p.stamp <= bagGuard.last
  PROVE  ~Passes(p)
<1>1. /\ p.number \in Nat /\ p.stamp \in Int /\ newest \in Nat /\ newest # 0
      /\ bagGuard.last \in Int /\ bagTracker.lastObserved \in Int
      /\ Tolerance \in Nat /\ RestartIdle \in Nat /\ SeqModulus \in Nat
  BY GuardAssumption, DefenseAssumption DEF BagType, BagPacket
<1>2. /\ bagTracker.initialized /\ bagTracker.lastSequence = newest
      /\ bagGuard.last - bagTracker.lastObserved <= Tolerance
  BY <1>1 DEF FilterInv
<1>3. ~RestartedAfterIdle(bagTracker, p.stamp)
  BY <1>1, <1>2 DEF RestartedAfterIdle, Recognisable
<1>4. 2 * newest < SeqModulus
  <2>1. Len(bag) \in Nat /\ 2 * Len(bag) < SeqModulus
    BY BagAssumption DEF BagType, Recognisable
  <2> QED BY <1>1, <2>1 DEF BagType, FilterInv
<1> DEFINE delta == Delta(p.number, newest)
<1>5. delta = 0 \/ ~Forward(delta)
  BY <1>1, <1>4 DEF Delta, Forward
<1> HIDE DEF delta
<1>6. SequenceStatus(bagTracker, p.number, p.stamp) \in {"duplicate", "backward"}
  BY <1>2, <1>3, <1>5 DEF SequenceStatus, delta
<1> QED BY <1>6 DEF Passes, SequenceAccepts

(* The node's own scan may be published at any time: it holds nothing new. *)
LEMMA EchoGood ==
  ASSUME NEW q \in Seq(BagPacket), NEW n \in Nat, NEW t, NEW s, NEW raw, raw,
         \A i \in 1 .. Len(q) : q[i] = Correction \/ (q[i].number \in 1 .. n /\ q[i].stamp <= t)
  PROVE  Good(q, n, t, s, raw) /\ \A r \in Seq(BagPacket) : Apart(r, q, n)
<1>1. \A i \in 1 .. Len(q) : Known(q[i], n, t, s, raw)
  BY DEF Known
<1>2. \A i \in 1 .. Len(q) : ~(q[i].number > n)
  BY CorrectionPacket
<1> QED BY <1>1, <1>2 DEF Good, Apart, Behind

(* What has not been played before is newer than all that was. *)
LEMMA FreshApart ==
  ASSUME NEW q \in Seq(BagPacket), NEW r \in Seq(BagPacket), NEW n \in Nat, NEW t \in Int, NEW s \in Nat,
         NEW raw, Good(r, n, t, s, raw),
         \A j \in 1 .. Len(q) : q[j] = Correction \/ q[j].number > s
  PROVE  Apart(r, q, n)
<1> SUFFICES ASSUME NEW i \in 1 .. Len(r), NEW j \in 1 .. Len(q), r[i].number > n, q[j].number > n
             PROVE  r[i].number < q[j].number
  BY DEF Apart, Behind
<1>1. Known(r[i], n, t, s, raw) /\ r[i] \in BagPacket /\ q[j] \in BagPacket
  BY DEF Good
<1>2. r[i].number \in Nat /\ q[j].number \in Nat
  BY <1>1 DEF BagPacket
<1>3. r[i] # Correction /\ q[j] # Correction
  BY CorrectionPacket
<1>4. r[i].number <= s
  BY <1>1, <1>2, <1>3 DEF Known
<1> QED BY <1>2, <1>3, <1>4

(* A function on 1 .. n is a sequence. *)
LEMMA SequenceOf ==
  ASSUME NEW S, NEW n \in Nat, NEW f, f \in [1 .. n -> S]
  PROVE  f \in Seq(S) /\ Len(f) = n
OBVIOUS

(* The bag's next scan holds the packets that follow those published. *)
LEMMA ScanRecorded ==
  ASSUME BagType, played < ScansInBag
  PROVE  LET q == RecordedScan(played + 1)
         IN  /\ q \in Seq(BagPacket)
             /\ ScanSize * (played + 1) = Sent + ScanSize
             /\ Sent + ScanSize \in Nat /\ Sent + ScanSize <= Len(bag)
             /\ \A i \in 1 .. Len(q) :
                  \/ q[i] = Correction
                  \/ q[i].number \in Sent + 1 .. Sent + ScanSize
             /\ \A i, j \in 1 .. Len(q) :
                  i < j => q[j] = Correction \/ q[i].number < q[j].number
<1>1. /\ ScanSize \in Nat /\ ScanSize > 0 /\ played \in Nat /\ Sent \in Nat /\ bag \in Seq(Int)
      /\ Len(bag) \in Nat
  BY BagConstants, BagAssumption DEF BagType
<1>2. ScanSize * (played + 1) = Sent + ScanSize
  BY <1>1 DEF Sent
<1>3. Sent + ScanSize <= Len(bag)
  <2> DEFINE d == Len(bag) \div ScanSize
  <2>1. d \in Nat /\ ScanSize * d <= Len(bag) /\ ScanSize * d \in Nat
    BY <1>1
  <2>2. played < d
    BY DEF ScansInBag
  <2> HIDE DEF d
  <2>3. PICK e \in Nat : d = (played + 1) + e
    <3>1. d - (played + 1) \in Nat /\ d = (played + 1) + (d - (played + 1))
      BY <1>1, <2>1, <2>2
    <3> QED BY <3>1
  <2>4. ScanSize * d = ScanSize * (played + 1) + ScanSize * e /\ ScanSize * e \in Nat
    BY <1>1, <2>3
  <2> QED BY <1>1, <1>2, <2>1, <2>4
<1> DEFINE f == [i \in 1 .. ScanSize |-> [number |-> Sent + i, stamp |-> bag[Sent + i]]]
           q == RecordedScan(played + 1)
<1>4. q = Append(f, Correction)
  <2>1. (played + 1) - 1 = played
    BY <1>1
  <2> QED BY <2>1 DEF RecordedScan, Sent
<1>5. \A i \in 1 .. ScanSize : Sent + i \in 1 .. Len(bag) /\ bag[Sent + i] \in Int
  BY <1>1, <1>3
<1>6. f \in Seq(BagPacket) /\ Len(f) = ScanSize
  <2>1. \A i \in 1 .. ScanSize : [number |-> Sent + i, stamp |-> bag[Sent + i]] \in BagPacket
    BY <1>1, <1>5 DEF BagPacket
  <2>2. f \in [1 .. ScanSize -> BagPacket]
    BY <2>1
  <2> QED BY <1>1, <2>2, SequenceOf
<1>7. \A i \in 1 .. ScanSize : f[i].number = Sent + i
  OBVIOUS
<1> HIDE DEF f, q
<1>8. /\ q \in Seq(BagPacket) /\ Len(q) = ScanSize + 1
      /\ \A i \in 1 .. Len(q) : \/ i \in 1 .. ScanSize /\ q[i] = f[i]
                                \/ i = ScanSize + 1 /\ q[i] = Correction
  BY <1>4, <1>6, CorrectionPacket, AppendEntries
<1>9. \A i \in 1 .. Len(q) : q[i] = Correction \/ q[i].number \in Sent + 1 .. Sent + ScanSize
  BY <1>1, <1>7, <1>8
<1>10. \A i, j \in 1 .. Len(q) : i < j => q[j] = Correction \/ q[i].number < q[j].number
  <2> SUFFICES ASSUME NEW i \in 1 .. Len(q), NEW j \in 1 .. Len(q), i < j, q[j] # Correction
               PROVE  q[i].number < q[j].number
    OBVIOUS
  <2>1. j \in 1 .. ScanSize /\ q[j] = f[j]
    BY <1>8
  <2>2. i \in 1 .. ScanSize /\ i # ScanSize + 1
    BY <1>1, <2>1
  <2>3. q[i] = f[i]
    BY <1>8, <2>2
  <2>4. q[i].number = Sent + i /\ q[j].number = Sent + j
    BY <1>7, <2>1, <2>2, <2>3
  <2> QED BY <1>1, <2>4
<1> QED BY <1>1, <1>2, <1>3, <1>8, <1>9, <1>10 DEF q

-----------------------------------------------------------------------------
(* The player publishes a scan. *)
LEMMA PlayStep ==
  ASSUME Recognisable, BagInv, Play
  PROVE  BagInv'
<1> DEFINE q == RecordedScan(played + 1)
<1>1. BagType /\ newest \in Nat /\ bagGuard.last \in Int /\ Sent \in Nat
      /\ backlog \in Seq(BagPacket) /\ pushing \in Seq(BagPacket) /\ topic \in Seq(Seq(BagPacket))
  BY DEF BagInv, BagType
<1>2. /\ played' = played + 1 /\ topic' = Published(topic, q)
      /\ UNCHANGED <<bag, xt, publishesRaw, pushing, backlog, bagGuard, bagTracker, scan, newest, repeated>>
  BY DEF Play, readerVars, decoderVars
<1>3. /\ q \in Seq(BagPacket)
      /\ ScanSize * (played + 1) = Sent + ScanSize
      /\ Sent + ScanSize \in Nat /\ Sent + ScanSize <= Len(bag)
      /\ \A i \in 1 .. Len(q) :
           \/ q[i] = Correction
           \/ q[i].number \in Sent + 1 .. Sent + ScanSize
      /\ \A i, j \in 1 .. Len(q) :
           i < j => q[j] = Correction \/ q[i].number < q[j].number
  BY <1>1, ScanRecorded DEF Play
<1>4. Sent' = Sent + ScanSize /\ Sent <= Sent + ScanSize
  BY <1>1, <1>2, <1>3, BagConstants DEF Sent
<1> HIDE DEF q
<1>5. BagType'
  <2>1. topic' \in Seq(Seq(BagPacket))
    BY <1>1, <1>2, <1>3, PublishedType
  <2> QED BY <1>1, <1>2, <1>3, <1>4, <2>1 DEF BagType
<1>6. ASSUME xt \/ ~publishesRaw
      PROVE  FilterInv' /\ ScanInv' /\ PipeInv' /\ ~repeated'
  <2>1. FilterInv /\ ScanInv /\ PipeInv /\ ~repeated
    BY <1>6 DEF BagInv
  <2>2. FilterInv' /\ ScanInv' /\ ~repeated'
    <3>1. newest <= Sent'
      BY <1>1, <1>3, <1>4, <2>1 DEF FilterInv
    <3> QED BY <1>2, <2>1, <3>1 DEF FilterInv, ScanInv
  <2> DEFINE n == newest
             t == bagGuard.last
             s == Sent + ScanSize
             raw == publishesRaw
  <2>3. Pipeline(backlog, pushing, topic, n, t, Sent, raw)
    BY <2>1 DEF PipeInv
  <2>4. Pipeline(backlog, pushing, topic, n, t, s, raw)
    BY <1>1, <1>3, <1>4, <2>3, PipelineLater
  <2>5. Good(q, n, t, s, raw)
    <3>1. newest <= Sent
      BY <2>1 DEF FilterInv
    <3>2. ASSUME NEW i \in 1 .. Len(q) PROVE Known(q[i], n, t, s, raw)
      <4>1. CASE q[i] = Correction
        BY <4>1 DEF Known
      <4>2. CASE q[i].number \in Sent + 1 .. Sent + ScanSize
        BY <1>1, <1>3, <3>1, <4>2 DEF Known
      <4> QED BY <1>3, <4>1, <4>2
    <3>3. ASSUME NEW i \in 1 .. Len(q), NEW j \in 1 .. Len(q), i < j PROVE Behind(q[i], q[j], n)
      <4>1. CASE q[j] = Correction
        BY <1>1, <4>1, CorrectionPacket DEF Behind
      <4>2. CASE q[i].number < q[j].number
        BY <4>2 DEF Behind
      <4> QED BY <1>3, <3>3, <4>1, <4>2
    <3> QED BY <3>2, <3>3 DEF Good
  <2>6. \A j \in 1 .. Len(q) : q[j] = Correction \/ q[j].number > Sent
    <3> SUFFICES ASSUME NEW j \in 1 .. Len(q), q[j] # Correction PROVE q[j].number > Sent
      OBVIOUS
    <3>1. q[j].number \in Sent + 1 .. Sent + ScanSize
      BY <1>3
    <3> QED BY <1>1, <1>3, <3>1
  <2>7. Apart(backlog, q, n) /\ Apart(pushing, q, n)
    BY <1>1, <1>3, <2>3, <2>6, FreshApart DEF Pipeline
  <2>8. ASSUME NEW k \in 1 .. Len(topic) PROVE Apart(topic[k], q, n)
    <3>1. topic[k] \in Seq(BagPacket) /\ Good(topic[k], n, t, Sent, raw)
      BY <1>1, <2>3 DEF Pipeline
    <3> QED BY <1>1, <1>3, <2>6, <3>1, FreshApart
  <2> HIDE DEF n, t, s, raw
  <2>9. Pipeline(backlog, pushing, topic', n, t, s, raw)
    BY <1>1, <1>2, <1>3, <2>4, <2>5, <2>7, <2>8, ScanPublished
  <2>10. PipeInv'
    BY <1>2, <1>4, <2>9 DEF PipeInv, n, t, s, raw
  <2> QED BY <2>2, <2>10
<1> QED BY <1>2, <1>5, <1>6 DEF BagInv

(* scanCallback takes a scan. *)
LEMMA CallbackStep ==
  ASSUME BagInv, ScanCallback
  PROVE  BagInv'
<1>1. BagType /\ backlog \in Seq(BagPacket) /\ topic \in Seq(Seq(BagPacket)) /\ topic # << >>
      /\ pushing = << >>
  BY DEF BagInv, BagType, ScanCallback
<1>2. /\ pushing' = Head(topic) /\ topic' = Tail(topic)
      /\ UNCHANGED <<bag, xt, publishesRaw, played, backlog, bagGuard, bagTracker, scan, newest, repeated>>
  BY DEF ScanCallback, decoderVars
<1>3. Sent' = Sent
  BY <1>2 DEF Sent
<1>4. BagType'
  <2>1. pushing' \in Seq(BagPacket) /\ topic' \in Seq(Seq(BagPacket))
    BY <1>1, <1>2, TailEntries
  <2> QED BY <1>1, <1>2, <1>3, <2>1 DEF BagType
<1>5. ASSUME xt \/ ~publishesRaw
      PROVE  FilterInv' /\ ScanInv' /\ PipeInv' /\ ~repeated'
  <2>1. FilterInv /\ ScanInv /\ PipeInv /\ ~repeated
    BY <1>5 DEF BagInv
  <2>2. FilterInv' /\ ScanInv' /\ ~repeated'
    BY <1>2, <1>3, <2>1 DEF FilterInv, ScanInv
  <2>3. Pipeline(backlog, Head(topic), Tail(topic), newest, bagGuard.last, Sent, publishesRaw)
    BY <1>1, <2>1, ScanTaken DEF PipeInv
  <2>4. PipeInv'
    BY <1>2, <1>3, <2>3 DEF PipeInv
  <2> QED BY <2>2, <2>4
<1> QED BY <1>2, <1>4, <1>5 DEF BagInv

(* PushScanPacket's loop takes a packet. *)
LEMMA PushStep ==
  ASSUME BagInv, PushPacket
  PROVE  BagInv'
<1>1. BagType /\ backlog \in Seq(BagPacket) /\ topic \in Seq(Seq(BagPacket))
      /\ pushing \in Seq(BagPacket) /\ pushing # << >>
  BY DEF BagInv, BagType, PushPacket
<1>2. /\ pushing' = Tail(pushing)
      /\ \/ backlog' = backlog
         \/ Head(pushing) # Correction /\ backlog' = Append(backlog, Head(pushing))
      /\ UNCHANGED <<bag, xt, publishesRaw, played, topic, bagGuard, bagTracker, scan, newest, repeated>>
  BY DEF PushPacket, decoderVars
<1>3. Sent' = Sent
  BY <1>2 DEF Sent
<1>4. BagType'
  <2>1. pushing' \in Seq(BagPacket) /\ Head(pushing) \in BagPacket
    BY <1>1, <1>2, TailEntries
  <2>2. backlog' \in Seq(BagPacket)
    <3>1. Append(backlog, Head(pushing)) \in Seq(BagPacket)
      BY <1>1, <2>1, AppendEntries
    <3> QED BY <1>1, <1>2, <3>1
  <2> QED BY <1>1, <1>2, <1>3, <2>1, <2>2 DEF BagType
<1>5. ASSUME xt \/ ~publishesRaw
      PROVE  FilterInv' /\ ScanInv' /\ PipeInv' /\ ~repeated'
  <2>1. FilterInv /\ ScanInv /\ PipeInv /\ ~repeated
    BY <1>5 DEF BagInv
  <2>2. FilterInv' /\ ScanInv' /\ ~repeated'
    BY <1>2, <1>3, <2>1 DEF FilterInv, ScanInv
  <2>3. Pipeline(backlog', pushing', topic, newest, bagGuard.last, Sent, publishesRaw)
    BY <1>1, <1>2, <2>1, PacketPushed DEF PipeInv
  <2>4. PipeInv'
    BY <1>2, <1>3, <2>3 DEF PipeInv
  <2> QED BY <2>2, <2>4
<1> QED BY <1>2, <1>4, <1>5 DEF BagInv

(* ObserveSequence: a number that is accepted becomes the last one, and    *)
(* the first of all is accepted.                                           *)
LEMMA TrackerStep ==
  ASSUME NEW r \in [initialized : BOOLEAN, lastSequence : Nat, lastObserved : Int],
         NEW m \in Nat, NEW t \in Int
  PROVE  /\ TrackerNext(r, m, t) \in [initialized : BOOLEAN, lastSequence : Nat, lastObserved : Int]
         /\ TrackerNext(r, m, t).initialized /\ TrackerNext(r, m, t).lastObserved = t
         /\ SequenceAccepts(r, m, t) => TrackerNext(r, m, t).lastSequence = m
         /\ ~SequenceAccepts(r, m, t) =>
              r.initialized /\ TrackerNext(r, m, t).lastSequence = r.lastSequence
<1>1. ~r.initialized => SequenceAccepts(r, m, t)
  <2>1. ~r.initialized => SequenceStatus(r, m, t) = "first"
    BY DEF SequenceStatus
  <2> QED BY <2>1 DEF SequenceAccepts
<1>2. (IF SequenceAccepts(r, m, t) THEN m ELSE r.lastSequence) \in Nat
  OBVIOUS
<1> QED BY <1>1, <1>2 DEF TrackerNext

(* A filter drops the packet. *)
LEMMA DropStep ==
  ASSUME BagInv, backlog # << >>, backlog' = Tail(backlog), Drop(Head(backlog)),
         UNCHANGED <<bag, xt, publishesRaw, played, pushing>>
  PROVE  BagInv'
<1> DEFINE p == Head(backlog)
           g == GuardNext(bagGuard, p.stamp)
<1>1. /\ BagType /\ newest \in Nat /\ bagGuard.last \in Int /\ Sent \in Nat /\ xt \in BOOLEAN
      /\ backlog \in Seq(BagPacket) /\ pushing \in Seq(BagPacket) /\ topic \in Seq(Seq(BagPacket))
      /\ bagGuard \in [initialized : BOOLEAN, last : Int]
      /\ bagTracker \in [initialized : BOOLEAN, lastSequence : Nat, lastObserved : Int]
  BY DEF BagInv, BagType
<1>2. /\ ~Passes(p) /\ bagGuard' = g
      /\ bagTracker' = IF xt /\ GuardAccepts(bagGuard, p.stamp)
                         THEN TrackerNext(bagTracker, p.number, p.stamp) ELSE bagTracker
      /\ UNCHANGED <<topic, scan, newest, repeated>>
  BY DEF Drop
<1>3. p \in BagPacket /\ Tail(backlog) \in Seq(BagPacket) /\ p.number \in Nat /\ p.stamp \in Int
  <2>1. p \in BagPacket /\ Tail(backlog) \in Seq(BagPacket)
    BY <1>1, TailEntries
  <2> HIDE DEF p
  <2> QED BY <2>1 DEF BagPacket
<1>4. Sent' = Sent
  BY DEF Sent
<1> HIDE DEF p
<1>5. /\ g \in [initialized : BOOLEAN, last : Int]
      /\ ~GuardAccepts(bagGuard, p.stamp) => g = bagGuard
      /\ GuardAccepts(bagGuard, p.stamp) =>
           /\ g.initialized /\ p.stamp <= g.last
           /\ g.last - p.stamp <= Tolerance
           /\ bagGuard.initialized => bagGuard.last <= g.last
  BY <1>1, <1>3, GuardStep
<1> HIDE DEF g
<1>6. /\ bagTracker' \in [initialized : BOOLEAN, lastSequence : Nat, lastObserved : Int]
  BY <1>1, <1>2, <1>3, TrackerStep
<1>7. BagType'
  BY <1>1, <1>2, <1>3, <1>4, <1>5, <1>6 DEF BagType
<1>8. ASSUME xt \/ ~publishesRaw
      PROVE  FilterInv' /\ ScanInv' /\ PipeInv' /\ ~repeated'
  <2>1. FilterInv /\ ScanInv /\ PipeInv /\ ~repeated
    BY <1>8 DEF BagInv
  <2>2. Pipeline(Tail(backlog), pushing, topic, newest, bagGuard.last, Sent, publishesRaw)
    BY <1>1, <2>1, PacketTaken DEF PipeInv
  <2>3. CASE ~GuardAccepts(bagGuard, p.stamp)
    <3>1. bagGuard' = bagGuard /\ bagTracker' = bagTracker
      BY <1>2, <1>5, <2>3
    <3> QED BY <1>2, <1>4, <2>1, <2>2, <3>1 DEF FilterInv, ScanInv, PipeInv
  <2>4. CASE GuardAccepts(bagGuard, p.stamp)
    <3>1. xt /\ ~SequenceAccepts(bagTracker, p.number, p.stamp)
      BY <1>2, <2>4 DEF Passes
    <3>2. /\ bagTracker.initialized /\ bagTracker'.initialized
          /\ bagTracker'.lastSequence = bagTracker.lastSequence
          /\ bagTracker'.lastObserved = p.stamp
      <4> DEFINE r == TrackerNext(bagTracker, p.number, p.stamp)
      <4>1. /\ bagTracker.initialized /\ r.initialized /\ r.lastObserved = p.stamp
            /\ r.lastSequence = bagTracker.lastSequence
        <5>1. /\ bagTracker \in [initialized : BOOLEAN, lastSequence : Nat, lastObserved : Int]
              /\ p.number \in Nat /\ p.stamp \in Int
          BY <1>1, <1>3
        <5> QED BY <3>1, <5>1, TrackerStep, Zenon
      <4>2. bagTracker' = r
        BY <1>2, <2>4, <3>1
      <4> HIDE DEF r
      <4> QED BY <4>1, <4>2
    <3>3. bagGuard.initialized /\ bagTracker.lastSequence = newest
      BY <2>1, <3>1, <3>2 DEF FilterInv
    <3>4. /\ bagGuard.last <= g.last /\ g.last \in Int /\ g.initialized
          /\ g.last - p.stamp <= Tolerance
      BY <1>5, <2>4, <3>3
    <3>5. FilterInv'
      BY <1>2, <1>4, <2>1, <3>1, <3>2, <3>3, <3>4 DEF FilterInv
    <3>6. ScanInv'
      <4>1. \A i \in 1 .. Len(scan) : scan[i].stamp \in Int
        <5>1. \A i \in 1 .. Len(scan) : scan[i] \in BagPacket
          BY <1>1 DEF BagType
        <5> QED BY <5>1 DEF BagPacket
      <4> QED BY <1>1, <1>2, <2>1, <3>4, <4>1 DEF ScanInv
    <3>7. Pipeline(Tail(backlog), pushing, topic, newest, g.last, Sent, publishesRaw)
      <4>1. (newest = 0 \/ bagGuard.last <= g.last) /\ Sent <= Sent
        BY <1>1, <3>4
      <4> QED BY <1>1, <1>3, <2>2, <3>4, <4>1, PipelineLater
    <3>8. PipeInv'
      BY <1>2, <1>4, <3>7 DEF PipeInv
    <3> QED BY <1>2, <2>1, <3>5, <3>6, <3>8
  <2> QED BY <2>3, <2>4
<1> QED BY <1>7, <1>8 DEF BagInv

(* The entries of a concatenation. *)
LEMMA ConcatEntries ==
  ASSUME NEW S, NEW q \in Seq(S), NEW r \in Seq(S)
  PROVE  /\ q \o r \in Seq(S) /\ Len(q) \in Nat /\ Len(r) \in Nat
         /\ Len(q \o r) = Len(q) + Len(r)
         /\ \A i \in 1 .. Len(q) + Len(r) :
              (q \o r)[i] = IF i <= Len(q) THEN q[i] ELSE r[i - Len(q)]
OBVIOUS

(* The packets of the scan the node publishes. *)
LEMMA EchoedScan ==
  ASSUME NEW q \in Seq(BagPacket), NEW p \in BagPacket
  PROVE  /\ q \o <<p, Correction>> \in Seq(BagPacket)
         /\ \A i \in 1 .. Len(q \o <<p, Correction>>) :
              LET e == (q \o <<p, Correction>>)[i]
              IN  e = Correction \/ e = p \/ \E j \in 1 .. Len(q) : e = q[j]
<1>1. <<p, Correction>> \in Seq(BagPacket) /\ Len(<<p, Correction>>) = 2
      /\ <<p, Correction>>[1] = p /\ <<p, Correction>>[2] = Correction
  BY CorrectionPacket
<1>2. PICK r \in Seq(BagPacket) : r = <<p, Correction>> /\ Len(r) = 2 /\ r[1] = p /\ r[2] = Correction
  BY <1>1
<1>3. q \o r \in Seq(BagPacket) /\ Len(q \o r) = Len(q) + Len(r) /\ Len(q) \in Nat /\ Len(r) \in Nat
      /\ \A i \in 1 .. Len(q) + Len(r) :
           (q \o r)[i] = IF i <= Len(q) THEN q[i] ELSE r[i - Len(q)]
  BY ConcatEntries
<1>4. ASSUME NEW i \in 1 .. Len(q \o r)
      PROVE  (q \o r)[i] = Correction \/ (q \o r)[i] = p \/ \E j \in 1 .. Len(q) : (q \o r)[i] = q[j]
  <2>0. i \in 1 .. Len(q) + 2
    BY <1>2, <1>3
  <2>1. CASE i <= Len(q)
    BY <1>2, <1>3, <2>0, <2>1
  <2>2. CASE ~(i <= Len(q))
    <3>1. i - Len(q) = 1 \/ i - Len(q) = 2
      BY <1>3, <2>0, <2>2
    <3>2. (q \o r)[i] = r[i - Len(q)]
      BY <1>2, <1>3, <2>0, <2>2
    <3> QED BY <1>2, <3>1, <3>2
  <2> QED BY <2>1, <2>2
<1> QED BY <1>2, <1>3, <1>4

(* The packet passes both filters: it is new, and joins the scan. *)
LEMMA DecodeStep ==
  ASSUME Recognisable, BagInv, backlog # << >>, backlog' = Tail(backlog),
         NEW start \in BOOLEAN, Decode(Head(backlog), start),
         UNCHANGED <<bag, xt, publishesRaw, played, pushing>>
  PROVE  BagInv'
<1> DEFINE p == Head(backlog)
           g == GuardNext(bagGuard, p.stamp)
           echo == scan \o <<p, Correction>>
<1>1. /\ BagType /\ newest \in Nat /\ bagGuard.last \in Int /\ Sent \in Nat
      /\ xt \in BOOLEAN /\ publishesRaw \in BOOLEAN
      /\ backlog \in Seq(BagPacket) /\ pushing \in Seq(BagPacket) /\ topic \in Seq(Seq(BagPacket))
      /\ scan \in Seq(BagPacket)
      /\ bagGuard \in [initialized : BOOLEAN, last : Int]
      /\ bagTracker \in [initialized : BOOLEAN, lastSequence : Nat, lastObserved : Int]
  BY DEF BagInv, BagType
<1>2. /\ Passes(p) /\ bagGuard' = g
      /\ bagTracker' = IF xt THEN TrackerNext(bagTracker, p.number, p.stamp) ELSE bagTracker
      /\ scan' = IF start THEN << >> ELSE Append(scan, p)
      /\ topic' = IF start /\ publishesRaw THEN Published(topic, echo) ELSE topic
      /\ newest' = IF p.number > newest THEN p.number ELSE newest
      /\ repeated' = (repeated \/ p.number <= newest)
  BY DEF Decode
<1>3. p \in BagPacket /\ Tail(backlog) \in Seq(BagPacket) /\ p.number \in Nat /\ p.stamp \in Int
  <2>1. p \in BagPacket /\ Tail(backlog) \in Seq(BagPacket)
    BY <1>1, TailEntries
  <2> HIDE DEF p
  <2> QED BY <2>1 DEF BagPacket
<1>4. Sent' = Sent
  BY DEF Sent
<1>5. /\ p # Correction \/ ~PipeInv
      /\ PipeInv =>
           /\ Known(p, newest, bagGuard.last, Sent, publishesRaw)
           /\ Pipeline(Tail(backlog), pushing, topic, newest, bagGuard.last, Sent, publishesRaw)
           /\ \A j \in 1 .. Len(Tail(backlog)) : Behind(p, Tail(backlog)[j], newest)
           /\ \A j \in 1 .. Len(pushing) : Behind(p, pushing[j], newest)
           /\ \A k \in 1 .. Len(topic) : \A j \in 1 .. Len(topic[k]) : Behind(p, topic[k][j], newest)
  BY <1>1, PacketTaken DEF PipeInv
<1> HIDE DEF p
<1>6. /\ g \in [initialized : BOOLEAN, last : Int]
      /\ g.initialized /\ p.stamp <= g.last
      /\ g.last - p.stamp <= Tolerance
      /\ bagGuard.initialized => bagGuard.last <= g.last
  <2>1. GuardAccepts(bagGuard, p.stamp)
    BY <1>2 DEF Passes
  <2> QED BY <1>1, <1>3, <2>1, GuardStep
<1>7. /\ echo \in Seq(BagPacket)
      /\ \A i \in 1 .. Len(echo) :
           echo[i] = Correction \/ echo[i] = p \/ \E j \in 1 .. Len(scan) : echo[i] = scan[j]
  BY <1>1, <1>3, EchoedScan
<1> HIDE DEF g, echo
<1>8. BagType'
  <2>1. bagTracker' \in [initialized : BOOLEAN, lastSequence : Nat, lastObserved : Int]
    <3>1. CASE xt
      BY <1>1, <1>2, <1>3, <3>1, TrackerStep
    <3>2. CASE ~xt
      BY <1>1, <1>2, <3>2
    <3> QED BY <3>1, <3>2
  <2>2. scan' \in Seq(BagPacket)
    <3>1. Append(scan, p) \in Seq(BagPacket)
      BY <1>1, <1>3, AppendEntries
    <3> QED BY <1>2, <3>1
  <2>3. topic' \in Seq(Seq(BagPacket))
    <3>1. Published(topic, echo) \in Seq(Seq(BagPacket))
      BY <1>1, <1>7, PublishedType
    <3> QED BY <1>1, <1>2, <3>1
  <2>4. newest' \in Nat
    BY <1>1, <1>2, <1>3
  <2> QED BY <1>1, <1>2, <1>3, <1>4, <1>6, <2>1, <2>2, <2>3, <2>4 DEF BagType
<1>9. ASSUME xt \/ ~publishesRaw
      PROVE  FilterInv' /\ ScanInv' /\ PipeInv' /\ ~repeated'
  <2>1. FilterInv /\ ScanInv /\ PipeInv /\ ~repeated
    BY <1>9 DEF BagInv
  <2>2. p.number \in newest + 1 .. Sent
    <3>1. CASE publishesRaw /\ p.number \in 1 .. newest /\ p.stamp <= bagGuard.last
      BY <1>1, <1>2, <1>3, <1>9, <2>1, <3>1, OldFiltered
    <3> QED BY <1>5, <2>1, <3>1 DEF Known
  <2>3. newest' = p.number /\ ~repeated' /\ newest < p.number /\ p.number <= Sent
    <3>1. newest < p.number /\ p.number <= Sent /\ p.number > newest /\ ~(p.number <= newest)
      BY <1>1, <1>3, <2>2
    <3> QED BY <1>2, <2>1, <3>1
  <2>4. newest = 0 \/ bagGuard.last <= g.last
    BY <1>6, <2>1 DEF FilterInv
  <2>5. FilterInv'
    <3>1. CASE xt
      <4> DEFINE r == TrackerNext(bagTracker, p.number, p.stamp)
      <4>1. SequenceAccepts(bagTracker, p.number, p.stamp)
        BY <1>2, <3>1 DEF Passes
      <4>2. r.initialized /\ r.lastSequence = p.number /\ r.lastObserved = p.stamp
        <5>1. /\ bagTracker \in [initialized : BOOLEAN, lastSequence : Nat, lastObserved : Int]
              /\ p.number \in Nat /\ p.stamp \in Int
          BY <1>1, <1>3
        <5> QED BY <4>1, <5>1, TrackerStep, Zenon
      <4>3. bagTracker' = r
        BY <1>2, <3>1
      <4> HIDE DEF r
      <4> QED BY <1>2, <1>4, <1>6, <2>3, <3>1, <4>2, <4>3 DEF FilterInv
    <3>2. CASE ~xt
      BY <1>2, <1>4, <1>6, <2>3, <3>2 DEF FilterInv
    <3> QED BY <3>1, <3>2
  <2>6. \A j \in 1 .. Len(scan) : scan[j].number \in 1 .. p.number /\ scan[j].stamp <= g.last
    <3> SUFFICES ASSUME NEW j \in 1 .. Len(scan)
                 PROVE  scan[j].number \in 1 .. p.number /\ scan[j].stamp <= g.last
      OBVIOUS
    <3>1. scan[j].number \in 1 .. newest /\ scan[j].stamp <= bagGuard.last /\ scan[j] \in BagPacket
      BY <1>1, <2>1 DEF ScanInv
    <3>2. scan[j].stamp \in Int /\ scan[j].number \in Nat
      BY <3>1 DEF BagPacket
    <3>3. g.last \in Int
      BY <1>6
    <3>4. scan[j].number \in 1 .. p.number
      <4>1. newest < p.number /\ newest \in Nat /\ p.number \in Nat
        BY <1>1, <1>3, <2>3, Zenon
      <4> QED BY <3>1, <3>2, <4>1
    <3>5. bagGuard.last <= g.last
      BY <1>1, <2>4, <3>1, <3>2
    <3> QED BY <1>1, <3>1, <3>2, <3>3, <3>4, <3>5
  <2>7. p.number \in 1 .. p.number /\ p.stamp <= g.last
    BY <1>1, <1>3, <1>6, <2>3
  <2>8. ScanInv'
    <3>1. CASE start
      BY <1>2, <3>1 DEF ScanInv
    <3>2. CASE ~start
      <4>1. scan' = Append(scan, p)
        BY <1>2, <3>2
      <4>2. \A i \in 1 .. Len(scan') : scan'[i] = p \/ \E j \in 1 .. Len(scan) : scan'[i] = scan[j]
        BY <1>1, <1>3, <4>1, AppendEntries
      <4> QED BY <1>2, <2>3, <2>6, <2>7, <4>2 DEF ScanInv
    <3> QED BY <3>1, <3>2
  <2>9. Pipeline(Tail(backlog), pushing, topic, p.number, g.last, Sent, publishesRaw)
    <3>1. g.last \in Int
      BY <1>6
    <3> QED BY <1>1, <1>3, <1>5, <2>1, <2>3, <2>4, <3>1, PipelineDecoded
  <2>10. Pipeline(Tail(backlog), pushing, topic', p.number, g.last, Sent, publishesRaw)
    <3>1. CASE start /\ publishesRaw
      <4>1. \A i \in 1 .. Len(echo) :
              echo[i] = Correction \/ (echo[i].number \in 1 .. p.number /\ echo[i].stamp <= g.last)
        BY <1>7, <2>6, <2>7
      <4>2. /\ Good(echo, p.number, g.last, Sent, publishesRaw)
            /\ \A r \in Seq(BagPacket) : Apart(r, echo, p.number)
        BY <1>3, <1>7, <3>1, <4>1, EchoGood
      <4>3. \A k \in 1 .. Len(topic) : Apart(topic[k], echo, p.number)
        BY <1>1, <4>2
      <4>4. topic' = Published(topic, echo)
        BY <1>2, <3>1
      <4> QED BY <1>1, <1>3, <1>7, <2>9, <4>2, <4>3, <4>4, ScanPublished
    <3>2. CASE ~(start /\ publishesRaw)
      BY <1>2, <2>9, <3>2
    <3> QED BY <3>1, <3>2
  <2>11. PipeInv'
    BY <1>2, <1>4, <2>3, <2>10 DEF PipeInv
  <2> QED BY <2>3, <2>5, <2>8, <2>11
<1> QED BY <1>8, <1>9 DEF BagInv

(* Every step of the player, the executor and the decoder. *)
LEMMA BagStep ==
  ASSUME Recognisable, BagInv, [BagNext]_bagVars
  PROVE  BagInv'
<1>1. CASE ProcessPacket
  <2>1. /\ backlog # << >> /\ backlog' = Tail(backlog)
        /\ UNCHANGED <<bag, xt, publishesRaw, played, pushing>>
        /\ Drop(Head(backlog)) \/ \E start \in BOOLEAN : Decode(Head(backlog), start)
    BY <1>1 DEF ProcessPacket
  <2> QED BY <2>1, DropStep, DecodeStep
<1>2. CASE UNCHANGED bagVars
  BY <1>2 DEF bagVars, readerVars, decoderVars, BagInv, BagType, FilterInv, ScanInv, PipeInv, Sent
<1> QED BY <1>1, <1>2, PlayStep, CallbackStep, PushStep DEF BagNext, WaitForScans

(* BagInv holds throughout. *)
LEMMA BagInvariant ==
  ASSUME Recognisable
  PROVE  Spec => []BagInv
<1>0. Recognisable
  OBVIOUS
<1>1. Init => BagInv
  <2> SUFFICES ASSUME Init PROVE BagInv
    OBVIOUS
  <2>1. /\ bag \in Bags /\ xt \in BOOLEAN /\ publishesRaw \in BOOLEAN
        /\ played = 0 /\ topic = << >> /\ pushing = << >> /\ backlog = << >> /\ scan = << >>
        /\ bagGuard = NewGuard /\ bagTracker = NewTracker /\ newest = 0 /\ repeated = FALSE
    BY DEF Init, BagInit
  <2>2. Sent = 0 /\ Len(bag) \in Nat
    BY <2>1, BagConstants, BagAssumption DEF Sent
  <2>3. /\ bagGuard \in [initialized : BOOLEAN, last : Int] /\ ~bagGuard.initialized
        /\ bagTracker \in [initialized : BOOLEAN, lastSequence : Nat, lastObserved : Int]
        /\ ~bagTracker.initialized
    BY <2>1 DEF NewGuard, NewTracker
  <2>4. BagType
    BY <2>1, <2>2, <2>3 DEF BagType
  <2>5. FilterInv /\ ScanInv
    BY <2>1, <2>2, <2>3 DEF FilterInv, ScanInv
  <2>6. PipeInv
    BY <2>1 DEF PipeInv, Pipeline, Good, Apart
  <2> QED BY <2>1, <2>4, <2>5, <2>6 DEF BagInv
<1>2. [Next]_vars => [BagNext]_bagVars
  BY DEF Next, vars
<1>3. BagInv /\ [BagNext]_bagVars => BagInv'
  BY <1>0, BagStep
<1> QED BY <1>1, <1>2, <1>3, PTL DEF Spec

(* For every bag of fewer packets than half of all sequence numbers, with  *)
(* the guard's tolerance below the tracker's idle period: the node of an   *)
(* XT sensor, which is given its own scans again, decodes every packet at  *)
(* most once and in order, whatever a full subscription or a full queue    *)
(* loses and however the bag's clock runs.  So does any node that          *)
(* publishes no scans.                                                     *)
THEOREM EchoFiltered ==
  ASSUME Recognisable
  PROVE  Spec => []EchoNotDecoded
<1>1. Recognisable
  OBVIOUS
<1>2. Spec => []BagInv
  BY <1>1, BagInvariant
<1>3. BagInv => EchoNotDecoded
  BY DEF BagInv, EchoNotDecoded
<1> QED BY <1>2, <1>3, PTL
=============================================================================

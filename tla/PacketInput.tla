----------------------------- MODULE PacketInput -----------------------------
(***************************************************************************)
(* The sockets of Input and the thread that reads them, RecvTask: poll,    *)
(* recvfrom, and what becomes of the datagram.  Sensor and GPS send to two *)
(* ports, or to one, for as long as they like.  The network may lose a     *)
(* datagram before it arrives, and one that arrived may fail its checksum: *)
(* poll then reports a socket readable from which nothing can be read.     *)
(* What the decoder makes of the packets pushed is not modelled here; of   *)
(* one with the size -1 it would copy 4294967295 bytes.                    *)
(***************************************************************************)
EXTENDS Integers, Sequences

CONSTANTS
  MaxDatagrams,  \* bound: datagrams of the sensor
  MaxWaiting,    \* datagrams a socket's receive buffer holds
  SocketNumbers  \* values of a socketNumber that was never set

ASSUME InputAssumption ==
  /\ MaxDatagrams \in Nat
  /\ MaxWaiting \in Nat
  /\ 0 \in SocketNumbers /\ SocketNumbers \subseteq Int

VARIABLES
  samePort,      \* lidar_recv_port = gps_port
  number,        \* socketNumber
  waiting,       \* the sockets' receive buffers
  arrived,       \* the sensor's datagrams that arrived
  enabled,       \* enable_lidar_recv_thr_
  task,          \* where RecvTask is, or "none"
  packet,        \* what it left in the packet
  readLidar,     \* history: lidar datagrams read
  pushedLidar,   \* history: lidar datagrams given to PushLiDARData
  pushedKinds    \* history: what PushLiDARData was given

inputVars == <<samePort, number, waiting, arrived, enabled, task, packet,
               readLidar, pushedLidar, pushedKinds>>

pushedVars == <<pushedLidar, pushedKinds>>

Nothing == [kind |-> "none", id |-> 0]

(* The order of fds: GPS first if it has a socket of its own. *)
Polled_GpsOnly == IF number = 2 THEN <<"gps">> ELSE <<"lidar">>

Polled == CASE number = 2 -> <<"gps", "lidar">>
            [] number = 1 -> <<"lidar">>
            [] OTHER -> <<>>

SocketOf(kind) == IF samePort \/ kind # "gps" THEN "lidar" ELSE "gps"

-----------------------------------------------------------------------------
(* A datagram arrives: of the sensor, of the GPS, or one that is damaged.  *)
(* There is no end to the latter two.  What finds the buffer full is lost. *)
Arrive(kind) ==
  /\ task # "none"
  /\ Len(waiting[SocketOf(kind)]) < MaxWaiting
  /\ kind = "lidar" => arrived < MaxDatagrams
  /\ arrived' = IF kind = "lidar" THEN arrived + 1 ELSE arrived
  /\ waiting' = [waiting EXCEPT ![SocketOf(kind)] =
                   Append(@, [kind |-> kind, id |-> arrived'])]
  /\ UNCHANGED <<samePort, number, enabled, task, packet, readLidar, pushedVars>>

(* Stop clears the flag. *)
Disable ==
  /\ task # "none"
  /\ enabled
  /\ enabled' = FALSE
  /\ UNCHANGED <<samePort, number, waiting, arrived, task, packet,
                 readLidar, pushedVars>>

(* The loop of RecvTask. *)
LoopTest ==
  /\ task = "test"
  /\ task' = IF enabled THEN "poll" ELSE "exited"
  /\ UNCHANGED <<samePort, number, waiting, arrived, enabled, packet,
                 readLidar, pushedVars>>

(* poll fails, is interrupted, or a second passes; or it reports an error  *)
(* of the first socket.                                                    *)
PollFails ==
  /\ task = "poll"
  /\ task' = "test"
  /\ UNCHANGED <<samePort, number, waiting, arrived, enabled, packet, readLidar,
                 pushedVars>>

Readable == {i \in 1..Len(Polled) : waiting[Polled[i]] # <<>>}

(* The first readable socket is read, once.  Of a damaged datagram there   *)
(* is nothing to read: EWOULDBLOCK, which is not an error here.            *)
ReceiveFrom(socket) ==
  /\ task = "poll"
  /\ \E i \in Readable : Polled[i] = socket /\ \A j \in Readable : i <= j
  /\ LET datagram == Head(waiting[socket])
     IN  /\ waiting' = [waiting EXCEPT ![socket] = Tail(@)]
         /\ packet' = datagram
         /\ readLidar' = IF datagram.kind = "lidar" THEN Append(readLidar, datagram.id)
                                                    ELSE readLidar
  /\ task' = "classify"
  /\ UNCHANGED <<samePort, number, arrived, enabled, pushedVars>>

(* poll reports an error of the second socket only, or looked at entries   *)
(* of fds nobody filled.  Nothing is read then, and nbytes is what the     *)
(* stack held: if it is not negative, a packet nobody filled is returned,  *)
(* with any size, that of a GPS packet too.                                *)
ReadNothing ==
  /\ task = "poll"
  /\ number \notin {0, 1}
  /\ Readable = {}
  /\ \E kind \in {"unfilled", "gps"} : packet' = [kind |-> kind, id |-> 0]
  /\ task' = "classify"
  /\ UNCHANGED <<samePort, number, waiting, arrived, enabled, readLidar, pushedVars>>

IsGps_BySocket == packet.kind = "gps" /\ ~samePort

(* A GPS packet is known by its size of 512 bytes, not by its socket. *)
IsGps == packet.kind = "gps"

(* What ParseGPS and ProcessGps do goes into gps_callback_ only. *)
Classify ==
  /\ task = "classify"
  /\ task' = "test"
  /\ IF IsGps
       THEN UNCHANGED pushedVars
       ELSE /\ pushedLidar' = IF packet.kind = "lidar" THEN Append(pushedLidar, packet.id)
                                                       ELSE pushedLidar
            /\ pushedKinds' = pushedKinds \cup {packet.kind}
  /\ UNCHANGED <<samePort, number, waiting, arrived, enabled, packet, readLidar>>

Exited ==
  /\ task = "exited"
  /\ UNCHANGED inputVars

-----------------------------------------------------------------------------
(* Input's constructor leaves socketNumber unset if a socket cannot be     *)
(* opened or bound.                                                        *)
Opened(same, n) == n = IF same THEN 1 ELSE 2

InputInit ==
  /\ samePort \in BOOLEAN
  /\ number \in SocketNumbers \cup {n \in 1..2 : Opened(samePort, n)}
  /\ waiting = [s \in {"lidar", "gps"} |-> <<>>]
  /\ arrived = 0
  /\ enabled = TRUE
  /\ task \in {"none", "test"}
  /\ packet = Nothing
  /\ readLidar = <<>>
  /\ pushedLidar = <<>>
  /\ pushedKinds = {}

Task == LoopTest \/ ReceiveFrom("gps") \/ ReceiveFrom("lidar") \/ Classify

InputNext ==
  \/ \E kind \in {"lidar", "gps", "damaged"} : Arrive(kind)
  \/ Disable \/ Task \/ PollFails \/ ReadNothing \/ Exited

(* The thread is scheduled, and a poll with something to report does not   *)
(* fail every time.                                                        *)
InputFairness ==
  /\ WF_inputVars(LoopTest \/ Classify \/ PollFails)
  /\ \A socket \in {"gps", "lidar"} : SF_inputVars(ReceiveFrom(socket))

-----------------------------------------------------------------------------
(* Whatever else is on its socket, each lidar datagram that is read is     *)
(* pushed, in the order of arrival, before the thread looks for another;   *)
(* and GPS packets never reach the decoder, also when they share its port. *)
LidarPushedInOrder ==
  /\ \A i \in 1..Len(readLidar) : readLidar[i] = i
  /\ task \in {"test", "exited"} => pushedLidar = readLidar
  /\ "gps" \notin pushedKinds

(* With its sockets set up, the thread gets to every datagram of the       *)
(* sensor, or is stopped, if time and again it comes to poll when no GPS   *)
(* datagram waits at a port of its own: whatever else arrives then, for    *)
(* ever, does not keep it away.  Without that condition it would: the GPS  *)
(* socket is looked at first, and one datagram is read each time.          *)
LidarServed ==
  []<>(task = "poll" /\ waiting["gps"] = <<>>) =>
    \A n \in 1..MaxDatagrams :
      (Opened(samePort, number) /\ arrived >= n) ~> (Len(readLidar) >= n \/ ~enabled)
=============================================================================

--------------------------- MODULE DriverPipeline ---------------------------
(***************************************************************************)
(* A packet's whole way to a published cloud: the packet TimestampGuard    *)
(* and the XtSequenceTracker of ProcessLiarPacket, the frame its points    *)
(* join, EmitBackMessege and the cloud TimestampGuard of lidarCallback.    *)
(* Both guards live as long as the node, which starts the driver once.     *)
(*                                                                         *)
(* A cloud is stamped with its first point, which carries the host's       *)
(* reception time (timestamp_type "realtime") or the sensor's own time.    *)
(* The sensor's clock starts again with the sensor; the host's may be      *)
(* stepped.  Azimuths are left to FrameAssembly: here a packet says where  *)
(* it has points and whether the start angle lies between them.            *)
(***************************************************************************)
EXTENDS PacketDefenses, Sequences

CONSTANTS
  TimestampTypes, \* values of timestamp_type: "realtime" or "" (sensor time)
  SensorUptime,   \* the sensor's clock when the driver starts
  Reordering,     \* how many newer packets may overtake one in the network
  MaxSent,        \* bound: packets the sensor sends after each boot
  MaxTime,        \* bound: both clocks
  MaxSteps,       \* bound: steps of the host's clock
  MaxBoots,       \* bound: reboots of the sensor
  MaxArrivals     \* bound: packets delivered to the host

ASSUME PipelineAssumption ==
  /\ TimestampTypes \subseteq {"realtime", ""}
  /\ SensorUptime \in 0 .. MaxTime
  /\ {Reordering, MaxSent, MaxTime, MaxSteps, MaxBoots, MaxArrivals} \subseteq Nat
  /\ MaxSent < SeqModulus
  /\ 2 * Reordering < SeqModulus

VARIABLES
  timestampType, \* m_sTimestampType
  xt,            \* an XT sensor: its packets pass the sequence tracker
  sent,          \* the sensor's times at which it sent packets since it booted
  boots,         \* reboots of the sensor
  sensorClock,   \* the sensor's clock
  clock,         \* the host's clock
  steps,         \* times the host's clock was stepped
  arrivals,      \* packets delivered to the host
  packetGuard,   \* m_packetTimestampGuard
  tracker,       \* m_xtSequenceTracker
  restarts,      \* m_sequenceRestarts
  frame,         \* first point of the frame under construction
  cloudGuard,    \* cloudTimestampGuard
  recovered,     \* history: the tracker took up a rebooted sensor after silence
  clouds         \* history: what lidarCallback has done with clouds

sensorVars == <<sent, boots, sensorClock>>
hostVars == <<clock, steps>>
filterVars == <<packetGuard, tracker, restarts>>
cloudVars == <<frame, cloudGuard, recovered, clouds>>
vars == <<timestampType, xt, sensorVars, hostVars, arrivals, filterVars, cloudVars>>

NoPoints == [stamp |-> 0, recovered |-> FALSE, empty |-> TRUE]

-----------------------------------------------------------------------------
(* The sensor and the two clocks. *)

Send ==
  /\ Len(sent) < MaxSent
  /\ sent' = Append(sent, sensorClock)
  /\ UNCHANGED <<timestampType, xt, boots, sensorClock, hostVars, arrivals,
                 filterVars, cloudVars>>

Reboot ==
  /\ boots < MaxBoots
  /\ boots' = boots + 1
  /\ sent' = << >>
  /\ sensorClock' = 0
  /\ recovered' = FALSE
  /\ UNCHANGED <<timestampType, xt, hostVars, arrivals, filterVars, frame,
                 cloudGuard, clouds>>

Tick ==
  /\ clock < MaxTime
  /\ sensorClock < MaxTime
  /\ clock' = clock + 1
  /\ sensorClock' = sensorClock + 1
  /\ UNCHANGED <<timestampType, xt, sent, boots, steps, arrivals, filterVars,
                 cloudVars>>

ClockStep ==
  /\ steps < MaxSteps
  /\ steps' = steps + 1
  /\ \E t \in 0 .. MaxTime : clock' = t
  /\ UNCHANGED <<timestampType, xt, sensorVars, arrivals, filterVars, cloudVars>>

-----------------------------------------------------------------------------
(* The driver. *)

InFlight == {n \in 1 .. Len(sent) : n + Reordering >= Len(sent)}

(* The timestamp of a point of packet n, which arrives now. *)
PointStamp(n) == IF timestampType = "realtime" THEN clock ELSE sent[n]

AddPoints(points, some, n) ==
  IF some /\ points.empty
    THEN [stamp |-> PointStamp(n), recovered |-> recovered', empty |-> FALSE]
    ELSE points

(* Where a packet's points lie relative to the start angle. *)
Shapes == {s \in [before : BOOLEAN, start : BOOLEAN, after : BOOLEAN] :
             s.after => s.start}

Stale ==
  /\ ~GuardAccepts(packetGuard, clock)
  /\ UNCHANGED <<filterVars, cloudVars>>

(* The parser rejects the packet, or no parser takes a packet of its size. *)
Malformed ==
  /\ GuardAccepts(packetGuard, clock)
  /\ packetGuard' = GuardNext(packetGuard, clock)
  /\ UNCHANGED <<tracker, restarts, cloudVars>>

OutOfSequence(n) ==
  /\ xt
  /\ GuardAccepts(packetGuard, clock)
  /\ ~SequenceAccepts(tracker, n, clock)
  /\ packetGuard' = GuardNext(packetGuard, clock)
  /\ tracker' = TrackerNext(tracker, n, clock)
  /\ UNCHANGED <<restarts, cloudVars>>

(* EmitBackMessege and lidarCallback, which publishes points. *)
HandOver(points) ==
  /\ cloudGuard' = GuardNext(cloudGuard, points.stamp)
  /\ clouds' = clouds \cup {[published |-> GuardAccepts(cloudGuard, points.stamp),
                             recovered |-> points.recovered]}

(* The block loop: points before the start angle, the split, points after. *)
AssembleBlocks(n, shape) ==
  LET full == AddPoints(frame, shape.before, n)
      split == shape.start /\ ~full.empty
  IN  /\ frame' = AddPoints(IF split THEN NoPoints ELSE full, shape.after, n)
      /\ IF split THEN HandOver(full) ELSE UNCHANGED <<cloudGuard, clouds>>

Decoded(n, shape) ==
  LET restart == xt /\ SequenceStatus(tracker, n, clock) = "restartAfterIdle"
  IN  /\ GuardAccepts(packetGuard, clock)
      /\ xt => SequenceAccepts(tracker, n, clock)
      /\ packetGuard' = GuardNext(packetGuard, clock)
      /\ tracker' = IF xt THEN TrackerNext(tracker, n, clock) ELSE tracker
      /\ restarts' = IF restart THEN restarts + 1 ELSE restarts
      /\ recovered' = (recovered \/ (restart /\ boots > 0))
      /\ AssembleBlocks(n, shape)

Arrive ==
  /\ arrivals < MaxArrivals
  /\ arrivals' = arrivals + 1
  /\ \E n \in InFlight :
       \/ Stale
       \/ Malformed
       \/ OutOfSequence(n)
       \/ \E shape \in Shapes : Decoded(n, shape)
  /\ UNCHANGED <<timestampType, xt, sensorVars, hostVars>>

-----------------------------------------------------------------------------
Init ==
  /\ timestampType \in TimestampTypes
  /\ xt \in BOOLEAN
  /\ sent = << >>
  /\ boots = 0
  /\ sensorClock = SensorUptime
  /\ clock = 0
  /\ steps = 0
  /\ arrivals = 0
  /\ packetGuard = NewGuard
  /\ tracker = NewTracker
  /\ restarts = 0
  /\ frame = NoPoints
  /\ cloudGuard = NewGuard
  /\ recovered = FALSE
  /\ clouds = {}

Next == Send \/ Reboot \/ Tick \/ ClockStep \/ Arrive

Spec == Init /\ [][Next]_vars

-----------------------------------------------------------------------------
Times == 0 .. MaxTime

Clouds == [published : BOOLEAN, recovered : BOOLEAN]

(* Every variable stays in its range. *)
TypeOK ==
  /\ timestampType \in TimestampTypes
  /\ xt \in BOOLEAN
  /\ sent \in Seq(Times)
  /\ Len(sent) <= MaxSent
  /\ boots \in 0 .. MaxBoots
  /\ sensorClock \in Times
  /\ clock \in Times
  /\ steps \in 0 .. MaxSteps
  /\ arrivals \in 0 .. MaxArrivals
  /\ packetGuard \in [initialized : BOOLEAN, last : Times]
  /\ tracker \in [initialized : BOOLEAN, lastSequence : SeqNumbers, lastObserved : Times]
  /\ restarts \in Nat
  /\ frame \in [stamp : Times, recovered : BOOLEAN, empty : BOOLEAN]
  /\ cloudGuard \in [initialized : BOOLEAN, last : Times]
  /\ recovered \in BOOLEAN
  /\ clouds \subseteq Clouds

(* In host time the second filter is never the one that drops: whatever    *)
(* the clock did, the first points of the frames that the packet filter    *)
(* let through satisfy the cloud filter as well, although the two observe  *)
(* different times and the second sees a frame only when the next begins.  *)
CloudFilterRedundant ==
  timestampType = "realtime" => \A c \in clouds : c.published

(* In sensor time a network that repeats and reorders an XT sensor's       *)
(* packets costs no cloud: the tracker removes what would let the cloud's  *)
(* time go back.  Only a reboot, or a baseline given up after silence,     *)
(* can make the cloud filter drop one.                                     *)
ReorderingCostsNoCloud ==
  xt /\ boots = 0 /\ restarts = 0 /\ timestampType = "" =>
    \A c \in clouds : c.published

(* What a rebooted sensor sends is published again once the idle period    *)
(* has made the tracker take it up: "A receive idle period of 2 seconds    *)
(* resets the sequence baseline so a sensor reboot can recover"            *)
(* (README.md:77).                                                         *)
RebootRecovers == \A c \in clouds : c.recovered => c.published
=============================================================================

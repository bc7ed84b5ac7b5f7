---------------------------- MODULE FrameAssembly ----------------------------
(***************************************************************************)
(* The block loop of ProcessLiarPacket, written out once per packet        *)
(* family: where the stream of blocks is cut into frames, which points a   *)
(* cloud holds and which raw packets a scan holds.  The families differ in *)
(* one thing that matters here: CalcQTPointXYZIT counts its points in both *)
(* layouts.  The sensor turns by one of Steps between two firings and      *)
(* sends a block for each of the returns of a firing; whole packets may be *)
(* lost on the way.                                                        *)
(*                                                                         *)
(* A point is abstracted to the revolution it was fired in.  A revolution  *)
(* begins when the sensor's head reaches startAngle.                       *)
(***************************************************************************)
EXTENDS Integers, Sequences, FiniteSets

CONSTANTS
  Circle,       \* azimuth units in a circle (36000)
  MaxRate,      \* azimuth units per unit of time no sensor turns faster than
  Slack,        \* what the code adds to a difference of timestamps (0.001 s)
  Steps,        \* how far the head may turn from one firing to the next
  MinTurn,      \* no sensor turns by less from one firing to the next
  Blocks,       \* blocks in a packet
  Returns,      \* blocks per firing: single, dual or triple return
  MaxPoints,    \* entries of m_vPointCloud (MAX_POINT_CLOUD_NUM)
  Lasers,       \* channels of the sensor, 0 among them
  StartAngles,  \* values of the parameter start_angle
  PclTypes,     \* values of pcl_type_
  MaxLost,      \* bound: packets lost in a row
  MaxPackets,   \* bound: packets decoded after each Start
  MaxRestarts   \* bound: times the driver is stopped and started

ASSUME FrameAssumption ==
  /\ Circle \in Nat \ {0}
  /\ MaxRate \in Nat \ {0}
  /\ Slack \in Nat \ {0}
  /\ Steps \subseteq Nat
  /\ MinTurn \in Nat \ {0}
  /\ Blocks \in Nat \ {0}
  /\ Returns \subseteq Nat \ {0}
  /\ MaxPoints \in Nat
  /\ 0 \in Lasers /\ IsFiniteSet(Lasers)
  /\ StartAngles \subseteq 0 .. Circle - 1
  /\ PclTypes \subseteq BOOLEAN
  /\ MaxLost \in Nat
  /\ MaxPackets \in Nat
  /\ MaxRestarts \in Nat

Azimuths == 0 .. Circle - 1

VARIABLES
  startAngle,     \* start_angle_
  pclType,        \* pcl_type_: points are kept per channel
  qt,             \* the packets are those of a QT sensor
  returns,        \* the sensor: blocks per firing
  head,           \* the sensor: azimuth of the last block it fired
  sensorTime,     \* the sensor: time of the last packet it sent
  revolution,     \* the sensor: revolutions begun so far
  decoder,        \* "running" or "exited"
  blocks,         \* blocks of the current packet still to be decoded
  lastAzimuth,    \* last_azimuth_
  lastTimestamp,  \* last_timestamp_
  points,         \* m_vPointCloudList, or m_vPointCloud by channel
  index,          \* m_iPointCloudIndex
  scan,           \* scan->packets
  decoded,        \* history: packets decoded since Start
  published,      \* history: the packets of the scans handed over since Start
  restarts        \* Stop and Start calls so far

settings == <<startAngle, pclType, qt, returns>>
sensorVars == <<head, sensorTime, revolution>>
frameVars == <<lastAzimuth, lastTimestamp, points, index, scan>>
vars == <<settings, sensorVars, decoder, blocks, frameVars, decoded,
          published, restarts>>

-----------------------------------------------------------------------------
(* Azimuth arithmetic. *)

(* azimuthGap *)
AzimuthGap_Unsigned(last, azimuth) ==
  IF last > azimuth THEN last - azimuth ELSE azimuth - last

AzimuthGap(last, azimuth) ==
  IF last > azimuth THEN azimuth + (Circle - last) ELSE azimuth - last

(* azimuthGap / timestampGap < limit, in the arithmetic of doubles: a gap  *)
(* of time that is zero makes the quotient infinite, a negative one makes  *)
(* it negative.                                                            *)
Plausible(gap, time) == time < 0 \/ gap < MaxRate * time

(* The code's test for the start angle. *)
ReachesStart(last, azimuth) ==
  \/ last > azimuth /\ startAngle <= azimuth
  \/ last < startAngle /\ startAngle <= azimuth

(* The test the loop makes for every block. *)
Splits(block) ==
  /\ block.azimuth # lastAzimuth
  /\ Plausible(AzimuthGap(lastAzimuth, block.azimuth),
               block.time - lastTimestamp + Slack)
  /\ ReachesStart(lastAzimuth, block.azimuth)

(* pcl_callback_ && (m_iPointCloudIndex > 0 || m_vPointCloudList[0].size() > 0) *)
HasPoints == index > 0 \/ (pclType /\ points[0] # {})

-----------------------------------------------------------------------------
(* The sensor (external). *)

Turned(from, by) == (from + by) % Circle

(* How often a head that turns from `from' by `by' reaches startAngle. *)
StartsPassed(from, by) ==
  LET ahead == IF startAngle > from THEN startAngle - from
                                    ELSE startAngle - from + Circle
  IN  IF by < ahead THEN 0 ELSE (by - ahead) \div Circle + 1

(* Firings in a packet. *)
Firings == Blocks \div returns

(* How far the head has turned at block i of a packet, and which of the    *)
(* returns of its firing the block holds.                                  *)
Travel(gap, turn, i) == gap + turn * ((i - 1) \div returns)
Echo(i) == ((i - 1) % returns) + 1

(* The head turns, slower than MaxRate, and from one firing that arrives   *)
(* to the next by less than a circle; so little that it does not pass both *)
(* startAngle and the zero of the azimuth.                                 *)
Turning ==
  \A turn \in Steps, lost \in 0 .. MaxLost, r \in Returns :
    LET firings == Blocks \div r
        gap == turn * (lost * firings + 1)
    IN  /\ MinTurn <= turn /\ turn < MaxRate * Slack
        /\ gap < Circle /\ gap < MaxRate * ((lost + 1) * firings + Slack)
        /\ \A start \in StartAngles : gap <= Circle - start

(* The slowest sensor fires so often in a circle that its points fit into  *)
(* m_vPointCloud.                                                          *)
Roomy ==
  \A r \in Returns :
    Cardinality(Lasers) * (r * (Circle - 1 + MinTurn)) <= MinTurn * MaxPoints

-----------------------------------------------------------------------------
(* A packet of a sensor turning by turn per firing arrives after the loss   *)
(* of `lost' others and is accepted; it joins the scan before its blocks   *)
(* are looked at.                                                          *)
ReceivePacket ==
  /\ decoder = "running"
  /\ blocks = << >>
  /\ decoded < MaxPackets
  /\ \E turn \in Steps, lost \in 0 .. MaxLost :
       LET gap == turn * (lost * Firings + 1)
           time == sensorTime + (lost + 1) * Firings
       IN  /\ blocks' = [i \in 1 .. Blocks |->
                [azimuth    |-> Turned(head, Travel(gap, turn, i)),
                 revolution |-> revolution
                                  + StartsPassed(head, Travel(gap, turn, i)),
                 time       |-> time,
                 echo       |-> Echo(i)]]
           /\ sensorTime' = time
  /\ head' = blocks'[Blocks].azimuth
  /\ revolution' = blocks'[Blocks].revolution
  /\ decoded' = decoded + 1
  /\ scan' = Append(scan, decoded + 1)
  /\ UNCHANGED <<settings, decoder, lastAzimuth, lastTimestamp, points, index,
                 published, restarts>>

(* computeTransformToFixed fails, or computeTransformToTarget before the   *)
(* loop: the decoder returns.                                              *)
TransformFails ==
  /\ decoder = "running"
  /\ blocks = << >>
  /\ decoder' = "exited"
  /\ UNCHANGED <<settings, sensorVars, blocks, frameVars, decoded,
                 published, restarts>>

NoPoints == [l \in Lasers |-> {}]

(* The Calc...PointXYZIT functions: a point for every channel whose        *)
(* distance is in range.                                                   *)
CalcPoints(before, block, hits) ==
  [l \in Lasers |-> IF l \in hits THEN before[l] \cup {block.revolution}
                                  ELSE before[l]]

(* ... and what they make of m_iPointCloudIndex: it counts the entries of  *)
(* m_vPointCloud, and in CalcQTPointXYZIT those of m_vPointCloudList too.  *)
CalcIndex(before, hits) ==
  IF pclType /\ ~qt THEN before ELSE before + Cardinality(hits)

(* EmitBackMessege: a cloud without points goes to nobody.  The packet of  *)
(* SaveCorrectionFile that every scan ends with is no packet of the sensor *)
(* and is left out.                                                        *)
CloudEmpty == IF pclType THEN points = NoPoints ELSE index = 0
HandedOver == IF CloudEmpty THEN << >> ELSE scan

(* ... and only the layout it counts for has its count set back. *)
EmittedIndex == IF pclType THEN index ELSE 0

NextBlock(block) ==
  /\ lastAzimuth' = block.azimuth
  /\ lastTimestamp' = block.time
  /\ blocks' = Tail(blocks)

AddBlock ==
  /\ blocks # << >>
  /\ ~(Splits(Head(blocks)) /\ HasPoints)
  /\ \E hits \in SUBSET Lasers :
       /\ points' = CalcPoints(points, Head(blocks), hits)
       /\ index' = CalcIndex(index, hits)
  /\ NextBlock(Head(blocks))
  /\ UNCHANGED <<settings, sensorVars, decoder, scan, decoded,
                 published, restarts>>

(* EmitBackMessege: the callback is given the cloud and the scan, which    *)
(* already holds the packet being decoded, and both are emptied.           *)
EmitFrame_KeepsScan ==
  /\ blocks # << >>
  /\ Splits(Head(blocks))
  /\ HasPoints
  /\ published' = published \o HandedOver
  /\ \E hits \in SUBSET Lasers :
       /\ points' = CalcPoints(NoPoints, Head(blocks), hits)
       /\ index' = CalcIndex(EmittedIndex, hits)
  /\ NextBlock(Head(blocks))
  /\ UNCHANGED <<settings, sensorVars, decoder, decoded, scan, restarts>>

EmitFrame ==
  /\ blocks # << >>
  /\ Splits(Head(blocks))
  /\ HasPoints
  /\ published' = published \o HandedOver
  /\ scan' = << >>
  /\ \E hits \in SUBSET Lasers :
       /\ points' = CalcPoints(NoPoints, Head(blocks), hits)
       /\ index' = CalcIndex(EmittedIndex, hits)
  /\ NextBlock(Head(blocks))
  /\ UNCHANGED <<settings, sensorVars, decoder, decoded, restarts>>

(* The frame is handed over, but computeTransformToTarget fails: the       *)
(* decoder returns in the middle of the packet.                            *)
EmitLastFrame ==
  /\ blocks # << >>
  /\ Splits(Head(blocks))
  /\ HasPoints
  /\ published' = published \o HandedOver
  /\ scan' = << >>
  /\ points' = NoPoints
  /\ index' = EmittedIndex
  /\ decoder' = "exited"
  /\ blocks' = << >>
  /\ UNCHANGED <<settings, sensorVars, lastAzimuth, lastTimestamp,
                 decoded, restarts>>

(* Start() on a stopped driver: the scan is a local of the new thread, the *)
(* frame state is reset by hand.                                           *)
Restart_KeepsPoints ==
  /\ blocks = << >>
  /\ decoded > 0
  /\ restarts < MaxRestarts
  /\ restarts' = restarts + 1
  /\ decoder' = "running"
  /\ lastAzimuth' = 0
  /\ lastTimestamp' = 0
  /\ scan' = << >>
  /\ decoded' = 0
  /\ published' = << >>
  /\ UNCHANGED <<settings, sensorVars, blocks, points, index>>

Restart ==
  /\ blocks = << >>
  /\ decoded > 0
  /\ restarts < MaxRestarts
  /\ restarts' = restarts + 1
  /\ decoder' = "running"
  /\ lastAzimuth' = 0
  /\ lastTimestamp' = 0
  /\ points' = NoPoints
  /\ index' = 0
  /\ scan' = << >>
  /\ decoded' = 0
  /\ published' = << >>
  /\ UNCHANGED <<settings, sensorVars, blocks>>

-----------------------------------------------------------------------------
Init ==
  /\ startAngle \in StartAngles
  /\ pclType \in PclTypes
  /\ qt \in BOOLEAN
  /\ returns \in Returns
  /\ head \in Azimuths
  /\ sensorTime = 0
  /\ revolution = 0
  /\ decoder = "running"
  /\ blocks = << >>
  /\ lastAzimuth = 0
  /\ lastTimestamp = 0
  /\ points = NoPoints
  /\ index = 0
  /\ scan = << >>
  /\ decoded = 0
  /\ published = << >>
  /\ restarts = 0

Next == ReceivePacket \/ AddBlock \/ EmitFrame \/ EmitLastFrame
        \/ TransformFails \/ Restart

Spec == Init /\ [][Next]_vars

-----------------------------------------------------------------------------
(* Every variable stays in its range; a scan never holds more packets than *)
(* were decoded.                                                           *)
TypeOK ==
  /\ startAngle \in StartAngles
  /\ pclType \in PclTypes
  /\ qt \in BOOLEAN
  /\ returns \in Returns
  /\ head \in Azimuths
  /\ sensorTime \in Nat
  /\ revolution \in Nat
  /\ decoder \in {"running", "exited"}
  /\ blocks \in Seq([azimuth : Azimuths, revolution : Nat, time : Nat,
                    echo : Nat])
  /\ lastAzimuth \in Azimuths
  /\ lastTimestamp \in Nat
  /\ points \in [Lasers -> SUBSET Nat]
  /\ index \in Nat
  /\ decoded \in 0 .. MaxPackets
  /\ scan \in Seq(1 .. decoded)
  /\ published \in Seq(1 .. decoded)
  /\ Len(published) + Len(scan) <= decoded
  /\ restarts \in 0 .. MaxRestarts

OneRevolution == \A l, m \in Lasers : \A r \in points[l], q \in points[m] : r = q

(* No cloud mixes points of two revolutions, nor points from before and    *)
(* after a Stop, whatever packets are lost within a revolution and         *)
(* whichever channels see nothing.                                         *)
FramesPure == ~pclType => OneRevolution

(* The scans published since Start, and the one under way, never hold a    *)
(* packet twice or out of order; and replaying them replays every packet   *)
(* decoded, a packet whose blocks belong to two frames in one scan only.   *)
(* A QT sensor with pcl_type is left out of the second half: its count is  *)
(* never set back, so that a revolution without a point is taken for a     *)
(* frame, nobody is given its empty cloud, and its packets are dropped.    *)
ScansExact ==
  LET kept == published \o scan
  IN  /\ \A i, j \in DOMAIN kept : i < j => kept[i] < kept[j]
      /\ ~(qt /\ pclType) => kept = [i \in 1 .. decoded |-> i]

(* m_vPointCloud, one array for all channels that is written without a     *)
(* check, is set back before it is full: a detected start angle empties it *)
(* at least once in a circle, in single, dual and triple return and after  *)
(* any losses that Turning allows.                                         *)
FrameBounded == ~pclType => index <= MaxPoints
=============================================================================

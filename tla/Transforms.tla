----------------------------- MODULE Transforms -----------------------------
(***************************************************************************)
(* The coordinate frames of PandarGeneral_Internal: which transforms the   *)
(* decoder asks tf2 for, when it gives up, and the frame its points end up *)
(* in.  The points arrive in the sensor's frame (frame_id); fixed_frame    *)
(* asks for ego motion compensation packet by packet, target_frame for a   *)
(* transform per cloud.  A frame that is not set is "".                    *)
(***************************************************************************)
EXTENDS Integers, FiniteSets

CONSTANTS
  Frames,      \* names of frames
  Settings,    \* records of the parameters sensor, fixed and target
  MaxPackets,  \* bound: packets decoded
  MaxStarts    \* bound: calls of Start

ASSUME TransformAssumption ==
  /\ "" \notin Frames
  /\ Settings \subseteq [sensor : Frames \cup {""}, fixed : Frames \cup {""},
                         target : Frames \cup {""}]
  /\ MaxPackets \in Nat
  /\ MaxStarts \in Nat

VARIABLES
  setting,     \* the constructor's parameters
  frameId,     \* m_sFrameId
  target,      \* m_sTargetFrame, which manage_tf_buffer may clear
  buffer,      \* m_tf_buffer exists
  toFixed,     \* m_tf_matrix_to_fixed
  toTarget,    \* m_tf_matrix_to_target
  thread,      \* the decoding thread
  starts,      \* calls of Start
  packets,     \* packets decoded; packet n is stamped n
  points,      \* the points of the frame under construction
  clouds       \* history: the points handed over

transformVars == <<setting, frameId, target, buffer, toFixed, toTarget, thread, starts,
          packets, points, clouds>>

(* A matrix that no lookup has filled: Eigen leaves it uninitialised. *)
NoMatrix == [from |-> "", to |-> "", at |-> 0]

NoFrame == "undefined coordinates"

FrameIdOf_SensorFirst(s) == IF s.sensor # "" THEN s.sensor ELSE s.target

FrameIdOf(s) == IF s.target # "" THEN s.target
                ELSE IF s.fixed # "" THEN s.fixed
                ELSE s.sensor

-----------------------------------------------------------------------------
(* manage_tf_buffer *)

SameFrames == setting.fixed = "" /\ setting.sensor = target

ManagedTarget == IF setting.sensor # "" /\ SameFrames THEN "" ELSE target

ManagedBuffer ==
  IF setting.sensor = "" \/ SameFrames THEN buffer
                                       ELSE setting.fixed # "" \/ target # ""

(* calculateTransformMatrix: no buffer, no transform; tf2 may not know the *)
(* frames, may not reach the time, or may find them in different trees, in *)
(* which case the exception is not caught.                                 *)
Lookup(hasBuffer, to, from) ==
  IF ~hasBuffer THEN {"unavailable"}
  ELSE IF to = from THEN {"found"}
  ELSE {"found", "unavailable", "disconnected"}

(* What the frame becomes for a caller that returns on a failed lookup. *)
AfterLookup(outcome, going) ==
  CASE outcome = "found" -> going
    [] outcome = "unavailable" -> "returned"
    [] outcome = "disconnected" -> "terminated"

TargetSource == IF setting.fixed = "" THEN setting.sensor ELSE setting.fixed

(* computeTransformToTarget at time t. *)
ComputeToTarget(hasBuffer, wanted, t, outcome) ==
  IF wanted = ""
    THEN outcome = "found" /\ toTarget' = toTarget
    ELSE /\ outcome \in Lookup(hasBuffer, wanted, TargetSource)
         /\ toTarget' = IF outcome = "found"
                          THEN [from |-> TargetSource, to |-> wanted, at |-> t]
                          ELSE toTarget

(* computeTransformToFixed at time t. *)
ComputeToFixed_Once(hasBuffer, t, outcome) ==
  IF setting.fixed = "" \/ toFixed # NoMatrix
    THEN outcome = "found" /\ toFixed' = toFixed
    ELSE /\ outcome \in Lookup(hasBuffer, setting.fixed, setting.sensor)
         /\ toFixed' = [from |-> setting.sensor, to |-> setting.fixed, at |-> t]

ComputeToFixed(hasBuffer, t, outcome) ==
  IF setting.fixed = ""
    THEN outcome = "found" /\ toFixed' = toFixed
    ELSE /\ outcome \in Lookup(hasBuffer, setting.fixed, setting.sensor)
         /\ toFixed' = IF outcome = "found"
                         THEN [from |-> setting.sensor, to |-> setting.fixed, at |-> t]
                         ELSE toFixed

(* transformPoint *)
Through(matrix, frame) == IF matrix.from = frame THEN matrix.to ELSE NoFrame

Transformed(wanted, fixedMatrix, targetMatrix) ==
  LET fixed == IF setting.fixed = "" THEN setting.sensor
                                     ELSE Through(fixedMatrix, setting.sensor)
  IN  IF wanted = "" THEN fixed ELSE Through(targetMatrix, fixed)

-----------------------------------------------------------------------------
Start ==
  /\ thread \in {"stopped", "returned"}
  /\ starts < MaxStarts
  /\ starts' = starts + 1
  /\ points' = {}
  /\ thread' = "starting"
  /\ UNCHANGED <<setting, frameId, target, buffer, toFixed, toTarget, packets, clouds>>

Stop ==
  /\ thread \in {"decoding", "returned"}
  /\ thread' = "stopped"
  /\ UNCHANGED <<setting, frameId, target, buffer, toFixed, toTarget, starts,
                 packets, points, clouds>>

(* The head of ProcessLiarPacket, before the first packet. *)
DecoderStarts ==
  /\ thread = "starting"
  /\ \E outcome \in {"found", "unavailable", "disconnected"} :
       /\ ComputeToTarget(buffer, target, packets, outcome)
       /\ thread' = AfterLookup(outcome, "decoding")
  /\ UNCHANGED <<setting, frameId, target, buffer, toFixed, starts, packets,
                 points, clouds>>

(* The points of packet n, transformed with the matrices as they are. *)
PointsOf(n, wanted, fixedMatrix, targetMatrix) ==
  {[frame |-> Transformed(wanted, fixedMatrix, targetMatrix),
    lag   |-> IF setting.fixed = "" THEN 0 ELSE n - fixedMatrix.at]}

PacketFails(n) ==
  /\ target' = ManagedTarget
  /\ buffer' = ManagedBuffer
  /\ \E outcome \in {"unavailable", "disconnected"} :
       /\ ComputeToFixed(buffer', n, outcome)
       /\ thread' = AfterLookup(outcome, "decoding")
  /\ UNCHANGED <<toTarget, points, clouds>>

PacketDecoded(n) ==
  /\ target' = ManagedTarget
  /\ buffer' = ManagedBuffer
  /\ ComputeToFixed(buffer', n, "found")
  /\ points' = points \cup PointsOf(n, target', toFixed', toTarget)
  /\ UNCHANGED <<toTarget, thread, clouds>>

(* The packet passes the start angle at one of its blocks: the points of   *)
(* the blocks before it, if there are any, join the cloud, which is handed *)
(* over, and the others open the next one.                                 *)
PacketSplits(n) ==
  /\ target' = ManagedTarget
  /\ buffer' = ManagedBuffer
  /\ ComputeToFixed(buffer', n, "found")
  /\ \E before \in {{}, PointsOf(n, target', toFixed', toTarget)} :
       /\ points \cup before # {}
       /\ clouds' = clouds \cup points \cup before
  /\ \E outcome \in {"found", "unavailable", "disconnected"} :
       /\ ComputeToTarget(buffer', target', n, outcome)
       /\ thread' = AfterLookup(outcome, "decoding")
       /\ points' = IF outcome = "found"
                      THEN PointsOf(n, target', toFixed', toTarget') ELSE {}

ProcessPacket ==
  /\ thread = "decoding"
  /\ packets < MaxPackets
  /\ packets' = packets + 1
  /\ \/ PacketFails(packets + 1)
     \/ PacketDecoded(packets + 1)
     \/ PacketSplits(packets + 1)
  /\ UNCHANGED <<setting, frameId, starts>>

-----------------------------------------------------------------------------
TransformInit ==
  /\ setting \in Settings
  /\ frameId = FrameIdOf(setting)
  /\ target = setting.target
  /\ buffer = FALSE
  /\ toFixed = NoMatrix
  /\ toTarget = NoMatrix
  /\ thread = "stopped"
  /\ starts = 0
  /\ packets = 0
  /\ points = {}
  /\ clouds = {}

TransformNext == Start \/ Stop \/ DecoderStarts \/ ProcessPacket

TransformSpec == TransformInit /\ [][TransformNext]_transformVars

-----------------------------------------------------------------------------
(* The points handed over are expressed in the frame the cloud is labelled *)
(* with, whichever frames are set and although manage_tf_buffer may change *)
(* the target frame after m_sFrameId was chosen.                           *)
PointsInFrameId ==
  \A p \in points \cup clouds : p.frame = frameId

(* With a fixed frame every point is moved by the matrix looked up for its *)
(* own packet, never by that of an earlier packet or by an unset one.      *)
PointsCompensated == \A p \in points \cup clouds : p.lag = 0

(* "avoid doing transformation when m_sSensorFrame equals target frame and *)
(* no ego motion compensation is perfomed"                                 *)
(* (pandarGeneral_internal.cc:2181): such a setting needs no transform, so *)
(* no missing transform ends the decoder.                                  *)
SensorTargetNeedsNoTransform ==
  setting.fixed = "" /\ setting.sensor = setting.target => thread # "returned"
=============================================================================

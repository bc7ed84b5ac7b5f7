-------------------------- MODULE CalibrationProofs --------------------------
(***************************************************************************)
(* Proofs about Calibration, for every set of modes and any number of      *)
(* calls of Start.                                                         *)
(***************************************************************************)
EXTENDS Calibration, TLAPS

(* While the owner is past the join the thread is not there; while it only *)
(* looks at the file no table has come from the sensor.                    *)
CalibrationInv ==
  /\ TypeOK
  /\ Active => owner \in {"idle", "stopping", "joining"}
  /\ internal = "deleted" => owner = "gone"
  /\ calibration = "loadingFile" => ~fromDevice
  /\ ~HasClient => calibration \in {"none", "begin", "exited"} /\ ~fromDevice
  /\ table = "file" => ~fromDevice
  /\ fromDevice => corrected

(* CalibrationInv is inductive. *)
THEOREM CalibrationInvariant == Spec => []CalibrationInv
<1>1. Init => CalibrationInv
  <2> SUFFICES ASSUME Init PROVE CalibrationInv
    OBVIOUS
  <2>1. corrected \in BOOLEAN /\ fromDevice \in BOOLEAN /\ ~fromDevice
    BY Zenon DEF Init
  <2> QED BY <2>1, CalibrationAssumption
          DEF Init, CalibrationInv, TypeOK, Active, HasClient
<1>2. CalibrationInv /\ [Next]_vars => CalibrationInv'
  <2> SUFFICES ASSUME CalibrationInv, [Next]_vars PROVE CalibrationInv'
    OBVIOUS
  <2> USE CalibrationAssumption
      DEF CalibrationInv, TypeOK, Active, HasClient, inputVars, ownerVars, tableVars
  <2>1. CASE LoadsFileFirst
    BY <2>1 DEF LoadsFileFirst
  <2>2. CASE CallsStart
    BY <2>2 DEF CallsStart, Calls
  <2>3. CASE CallsStop \/ CallsDestructor
    BY <2>3 DEF CallsStop, CallsDestructor, Calls
  <2>4. CASE StopInternal
    BY <2>4 DEF StopInternal
  <2>5. CASE JoinCalibration
    BY <2>5 DEF JoinCalibration
  <2>6. CASE StartInternal
    BY <2>6 DEF StartInternal
  <2>7. CASE SpawnCalibration
    BY <2>7 DEF SpawnCalibration
  <2>8. CASE DeleteInternal
    BY <2>8 DEF DeleteInternal
  <2>9. CASE ScanCorrection
    <3>1. /\ table' \in {"bag", "file", table}
          /\ corrected' \in BOOLEAN
          /\ corrected'
      BY <2>9, Zenon DEF ScanCorrection
    <3>2. /\ mode = "rosbag"
          /\ UNCHANGED <<mode, fileReadable, owner, afterStop, internal, starts,
                         calibration, fromDevice>>
      BY <2>9 DEF ScanCorrection
    <3> QED BY <3>1, <3>2
  <2>10. CASE NoClient \/ Connects \/ ReadReturns
    BY <2>10 DEF NoClient, Connects, ReadReturns
  <2>11. CASE LoadBegins
    BY <2>11 DEF LoadBegins
  <2>12. CASE LoadEnds
    <3>1. corrected' \in BOOLEAN /\ corrected' /\ fromDevice' \in BOOLEAN
      BY <2>12, Zenon DEF LoadEnds
    <3> QED BY <2>12, <3>1 DEF LoadEnds
  <2>13. CASE CheckFlag
    BY <2>13 DEF CheckFlag
  <2>14. CASE LoadFileEnds
    <3>1. corrected' \in BOOLEAN /\ corrected'
      BY <2>14, Zenon DEF LoadFileEnds
    <3> QED BY <2>14, <3>1 DEF LoadFileEnds
  <2>15. CASE Gone \/ UNCHANGED vars
    BY <2>15 DEF Gone, vars
  <2> QED BY <2>1, <2>2, <2>3, <2>4, <2>5, <2>6, <2>7, <2>8, <2>9, <2>10,
             <2>11, <2>13, <2>14, <2>15, <2>12 DEF Next, Owner, CalibrationThread
<1> QED BY <1>1, <1>2, PTL DEF Spec

(* Every variable of the SDK's life cycle stays in its range, and the      *)
(* correction arrays are incomplete only while they are being loaded.      *)
THEOREM CalibrationTypeCorrect == Spec => []TypeOK
<1>1. CalibrationInv => TypeOK
  BY DEF CalibrationInv
<1> QED BY <1>1, CalibrationInvariant, PTL

(* GetCalibrationFromDevice never runs beside a second calibration thread, *)
(* nor after the SDK object's parts are deleted.                           *)
THEOREM CalibrationThreadInsideLifetime == Spec => []ThreadInsideLifetime
<1>1. CalibrationInv => ThreadInsideLifetime
  BY DEF CalibrationInv, ThreadInsideLifetime
<1> QED BY <1>1, CalibrationInvariant, PTL

(* However often the driver is started, the file never replaces a table    *)
(* that came from the sensor.                                              *)
THEOREM CalibrationSensorTableKept == Spec => []SensorTableKept
<1>1. CalibrationInv => SensorTableKept
  BY DEF CalibrationInv, SensorTableKept
<1> QED BY <1>1, CalibrationInvariant, PTL
=============================================================================

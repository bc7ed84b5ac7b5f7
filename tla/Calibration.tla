----------------------------- MODULE Calibration -----------------------------
(***************************************************************************)
(* PandarGeneralSDK: Start, Stop and the destructor, called by one owner   *)
(* thread, and the calibration thread that Start creates, which asks the   *)
(* sensor for its correction table over TCP and falls back to a file.      *)
(* Replaying a pcap or a rosbag there is no TCP client: the table comes    *)
(* from the file, or from the bag.                                         *)
(*                                                                         *)
(* What happens inside PandarGeneral_Internal::Start and Stop is in module *)
(* BoundedSpscQueue; here each is one step.                                *)
(***************************************************************************)
EXTENDS Naturals

CONSTANTS
  Modes,     \* how the SDK object is constructed
  MaxStarts  \* bound: calls of Start

ASSUME CalibrationAssumption ==
  /\ Modes \subseteq {"live", "pcap", "rosbag"}
  /\ MaxStarts \in Nat

VARIABLES
  mode,         \* the constructor used, and data_type
  fileReadable, \* lidar_correction_file can be opened
  owner,        \* where the owner is
  afterStop,    \* what the owner's call does once Stop has returned
  internal,     \* pandarGeneral_: "stopped", "running" or "deleted"
  calibration,  \* where GetCalibrationFromDevice is
  table,        \* General_elev_angle_map_ and the arrays beside it
  corrected,    \* got_lidar_correction_flag
  fromDevice,   \* history: a table was loaded from the sensor
  starts        \* calls of Start so far

inputVars == <<mode, fileReadable>>
ownerVars == <<owner, afterStop, internal, starts>>
tableVars == <<table, corrected, fromDevice>>
vars == <<inputVars, ownerVars, calibration, tableVars>>

(* tcp_command_client_ *)
HasClient == mode = "live"

-----------------------------------------------------------------------------
(* The owner. *)

(* In pcap mode the node loads the file before it calls Start. *)
LoadsFileFirst ==
  /\ mode = "pcap"
  /\ owner = "idle"
  /\ starts = 0
  /\ table = "default"
  /\ fileReadable
  /\ table' = "file"
  /\ UNCHANGED <<inputVars, ownerVars, calibration, corrected, fromDevice>>

(* Start, Stop and the destructor all begin with Stop. *)
Calls(what) ==
  /\ owner = "idle"
  /\ owner' = "stopping"
  /\ afterStop' = what
  /\ starts' = IF what = "start" THEN starts + 1 ELSE starts
  /\ UNCHANGED <<inputVars, internal, calibration, tableVars>>

CallsStart == starts < MaxStarts /\ Calls("start")
CallsStop == internal = "running" /\ Calls("return")
CallsDestructor == Calls("delete")

StopInternal ==
  /\ owner = "stopping"
  /\ internal' = "stopped"
  /\ owner' = "joining"
  /\ UNCHANGED <<inputVars, afterStop, starts, calibration, tableVars>>

JoinCalibration_Skipped ==
  /\ owner = "joining"
  /\ owner' = IF afterStop = "return" THEN "idle" ELSE afterStop
  /\ UNCHANGED <<inputVars, afterStop, internal, starts, calibration, tableVars>>

(* get_calibration_thr_->join(), if there ever was a thread.  Nobody reads *)
(* enable_get_calibration_thr_.                                            *)
JoinCalibration ==
  /\ owner = "joining"
  /\ calibration \in {"none", "exited"}
  /\ owner' = IF afterStop = "return" THEN "idle" ELSE afterStop
  /\ UNCHANGED <<inputVars, afterStop, internal, starts, calibration, tableVars>>

StartInternal ==
  /\ owner = "start"
  /\ internal' = "running"
  /\ owner' = "spawn"
  /\ UNCHANGED <<inputVars, afterStop, starts, calibration, tableVars>>

SpawnCalibration ==
  /\ owner = "spawn"
  /\ calibration' = "begin"
  /\ owner' = "idle"
  /\ UNCHANGED <<inputVars, afterStop, internal, starts, tableVars>>

DeleteInternal ==
  /\ owner = "delete"
  /\ internal' = "deleted"
  /\ owner' = "gone"
  /\ UNCHANGED <<inputVars, afterStop, starts, calibration, tableVars>>

Gone ==
  /\ owner = "gone"
  /\ UNCHANGED vars

(* PushScanPacket meets a correction packet in a scan of the bag; only the *)
(* first counts.  Its length field may disagree with its size: then the    *)
(* file is tried, once.                                                    *)
ScanCorrection ==
  /\ mode = "rosbag"
  /\ owner = "idle"
  /\ internal = "running"
  /\ ~corrected
  /\ \/ table' = "bag"
     \/ table' = IF fileReadable THEN "file" ELSE table
  /\ corrected' = TRUE
  /\ UNCHANGED <<inputVars, ownerVars, calibration, fromDevice>>

-----------------------------------------------------------------------------
(* The calibration thread: GetCalibrationFromDevice. *)

NoClient ==
  /\ calibration = "begin"
  /\ ~HasClient
  /\ calibration' = "exited"
  /\ UNCHANGED <<inputVars, ownerVars, tableVars>>

(* tcp_open, then the command is written. *)
Connects ==
  /\ calibration = "begin"
  /\ HasClient
  /\ calibration' \in {"reading", "checking"}
  /\ UNCHANGED <<inputVars, ownerVars, tableVars>>

(* tcpCommandReadCommand returns: the whole answer has come, the sensor    *)
(* has closed the connection, the answer is garbled or carries an error.   *)
ReadReturns ==
  /\ calibration = "reading"
  /\ calibration' \in {"answered", "checking"}
  /\ UNCHANGED <<inputVars, ownerVars, tableVars>>

(* LoadCorrectionFile fills the arrays the decoder reads, one after the    *)
(* other and without a lock.                                               *)
LoadBegins ==
  /\ calibration = "answered"
  /\ table' = "partial"
  /\ calibration' = "loading"
  /\ UNCHANGED <<inputVars, ownerVars, corrected, fromDevice>>

LoadEnds ==
  /\ calibration = "loading"
  /\ table' = "device"
  /\ corrected' = TRUE
  /\ fromDevice' = TRUE
  /\ calibration' = "checking"
  /\ UNCHANGED <<inputVars, ownerVars>>

CheckFlag_IgnoresFlag ==
  /\ calibration = "checking"
  /\ IF ~fileReadable
       THEN calibration' = "exited" /\ UNCHANGED table
       ELSE calibration' = "loadingFile" /\ table' = "partial"
  /\ UNCHANGED <<inputVars, ownerVars, corrected, fromDevice>>

CheckFlag_Retries ==
  /\ calibration = "checking"
  /\ \/ corrected /\ calibration' = "exited" /\ UNCHANGED table
     \/ ~corrected /\ ~fileReadable /\ calibration' = "begin" /\ UNCHANGED table
     \/ ~corrected /\ fileReadable /\ calibration' = "loadingFile" /\ table' = "partial"
  /\ UNCHANGED <<inputVars, ownerVars, corrected, fromDevice>>

(* GetCorrectionFileFlag: without a table from the sensor, now or after an *)
(* earlier Start, the file is read.                                        *)
CheckFlag ==
  /\ calibration = "checking"
  /\ \/ corrected /\ calibration' = "exited" /\ UNCHANGED table
     \/ ~corrected /\ ~fileReadable /\ calibration' = "exited" /\ UNCHANGED table
     \/ ~corrected /\ fileReadable /\ calibration' = "loadingFile" /\ table' = "partial"
  /\ UNCHANGED <<inputVars, ownerVars, corrected, fromDevice>>

LoadFileEnds_KeepsFlag ==
  /\ calibration = "loadingFile"
  /\ table' = "file"
  /\ calibration' = "exited"
  /\ UNCHANGED <<inputVars, ownerVars, corrected, fromDevice>>

LoadFileEnds ==
  /\ calibration = "loadingFile"
  /\ table' = "file"
  /\ corrected' = TRUE
  /\ calibration' = "exited"
  /\ UNCHANGED <<inputVars, ownerVars, fromDevice>>

-----------------------------------------------------------------------------
Init ==
  /\ mode \in Modes
  /\ fileReadable \in BOOLEAN
  /\ owner = "idle"
  /\ afterStop = "return"
  /\ internal = "stopped"
  /\ calibration = "none"
  /\ table = "default"
  /\ corrected = FALSE
  /\ fromDevice = FALSE
  /\ starts = 0

Owner == LoadsFileFirst \/ CallsStart \/ CallsStop \/ CallsDestructor
         \/ StopInternal \/ JoinCalibration \/ StartInternal
         \/ SpawnCalibration \/ DeleteInternal \/ Gone \/ ScanCorrection

CalibrationThread == NoClient \/ Connects \/ ReadReturns \/ LoadBegins
                     \/ LoadEnds \/ CheckFlag \/ LoadFileEnds

Next == Owner \/ CalibrationThread

Spec == Init /\ [][Next]_vars

(* Every step that waits for nobody else is taken; connect ends because    *)
(* the kernel gives up.                                                    *)
FairSpec ==
  /\ Spec
  /\ WF_vars(NoClient \/ Connects)
  /\ WF_vars(LoadBegins \/ LoadEnds \/ CheckFlag \/ LoadFileEnds)
  /\ WF_vars(StopInternal \/ JoinCalibration \/ StartInternal
             \/ SpawnCalibration \/ DeleteInternal)

(* As well, a sensor that accepted the connection answers or closes it. *)
AnsweringSpec == FairSpec /\ WF_vars(ReadReturns)

-----------------------------------------------------------------------------
Active == calibration \notin {"none", "exited"}

(* Every variable stays in its range, and the arrays are incomplete only   *)
(* while the calibration thread is filling them.                           *)
TypeOK ==
  /\ mode \in Modes
  /\ fileReadable \in BOOLEAN
  /\ owner \in {"idle", "stopping", "joining", "start", "spawn", "delete", "gone"}
  /\ afterStop \in {"return", "start", "delete"}
  /\ internal \in {"stopped", "running", "deleted"}
  /\ calibration \in {"none", "begin", "reading", "answered", "loading",
                      "checking", "loadingFile", "exited"}
  /\ table \in {"default", "partial", "device", "file", "bag"}
  /\ corrected \in BOOLEAN
  /\ fromDevice \in BOOLEAN
  /\ starts \in 0 .. MaxStarts
  /\ table = "partial" => calibration \in {"loading", "loadingFile"}

(* The calibration thread never runs beside a second one, nor once the     *)
(* object whose arrays it fills is being deleted: it has ended whenever    *)
(* Stop has returned inside Start or the destructor.                       *)
ThreadInsideLifetime ==
  Active => internal # "deleted" /\ owner \notin {"start", "spawn", "delete", "gone"}

(* A table that came from the sensor is never replaced by the one in the   *)
(* file, not even when a later Start finds the sensor unreachable.         *)
SensorTableKept == fromDevice => corrected /\ table # "file"

(* Stop, and so the node's shutdown, returns. *)
StopReturns == (owner = "joining") ~> (owner # "joining")

(* A sensor that does not give its table cannot leave the driver without   *)
(* one when the file is there: the live driver ends up with the sensor's   *)
(* table or the file's.                                                    *)
TableArrives ==
  (calibration = "begin" /\ HasClient /\ fileReadable)
    ~> (corrected /\ table \in {"device", "file"})
=============================================================================

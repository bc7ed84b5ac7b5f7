---------------------------- MODULE PacketSources ----------------------------
(***************************************************************************)
(* The three ways packets get into the driver's queue: RecvTask reads the  *)
(* sockets, the PcapReader replays a capture, or the node is given the     *)
(* scans of a rosbag.  The constructor decides: with ports Start creates   *)
(* RecvTask, with the path of a capture it starts the PcapReader.  For a   *)
(* rosbag the path is empty, so that the PcapReader ends at once, and the  *)
(* packets come from the node's subscription.                              *)
(***************************************************************************)
EXTENDS PacketInput, PcapReplay, RosbagReplay

VARIABLE source  \* which of the three

vars == <<source, inputVars, replayVars, bagVars>>

(* The constructors; what belongs to another source does not come to life. *)
Init ==
  /\ source \in {"sockets", "capture", "rosbag"}
  /\ InputInit
  /\ ReplayInit
  /\ BagInit
  /\ (source = "sockets") <=> (task # "none")
  /\ source # "sockets" => ~samePort /\ number = 0
  /\ source # "capture" => known /\ capture = CHOOSE c \in Captures : TRUE
  /\ source # "rosbag" => xt /\ publishesRaw /\ bag = CHOOSE b \in Bags : TRUE

Next ==
  \/ source = "sockets" /\ InputNext /\ UNCHANGED <<source, replayVars, bagVars>>
  \/ source = "capture" /\ ReplayNext /\ UNCHANGED <<source, inputVars, bagVars>>
  \/ source = "rosbag" /\ BagNext /\ UNCHANGED <<source, inputVars, replayVars>>

Spec == Init /\ [][Next]_vars /\ InputFairness /\ ReplayFairness /\ BagFairness
=============================================================================

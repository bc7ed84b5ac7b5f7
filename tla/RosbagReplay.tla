---------------------------- MODULE RosbagReplay ----------------------------
(***************************************************************************)
(* data_type "rosbag": the node subscribes to pandar_packets, and its      *)
(* scanCallback gives each scan to PushScanPacket.  With publish_type raw  *)
(* or both, the default, the decoder publishes the scans it assembles on   *)
(* the same topic: the node is given its own scans again.                  *)
(*                                                                         *)
(* Packets are numbered as the bag has them, which for an XT sensor is the *)
(* order of their sequence numbers; Correction is the packet that holds a  *)
(* correction table, with which every assembled scan ends.  The stamps of  *)
(* a scan's packets are cut to nanoseconds, well below the unit used here. *)
(***************************************************************************)
EXTENDS PacketDefenses, Sequences

CONSTANTS
  Bags,               \* bags: the stamps of their packets
  ScanSize,           \* packets of a recorded scan
  SubscriptionDepth,  \* scans the subscription keeps
  MaxBacklog          \* kMaxQueueDepth: packets the queue takes

ASSUME BagAssumption ==
  /\ Bags \subseteq Seq(Int)
  /\ {ScanSize, SubscriptionDepth, MaxBacklog} \subseteq Nat \ {0}

VARIABLES
  bag,           \* the bag being played
  xt,            \* lidar_type is an XT: packets pass the sequence tracker
  publishesRaw,  \* publish_type is "raw" or "both"
  played,        \* scans the player has published
  topic,         \* scans that wait in the subscription
  pushing,       \* what PushScanPacket has left of its scan
  corrected,     \* got_lidar_correction_flag
  backlog,       \* m_PacketsBuffer
  bagGuard,      \* m_packetTimestampGuard
  bagTracker,    \* m_xtSequenceTracker
  scan,          \* the scan being assembled
  newest,        \* history: the newest packet decoded
  repeated       \* history: a packet was decoded that was not the newest

readerVars == <<pushing, corrected, backlog>>
decoderVars == <<bagGuard, bagTracker, scan, newest, repeated>>
bagVars == <<bag, xt, publishesRaw, played, topic, readerVars, decoderVars>>

Correction == [number |-> 0, stamp |-> 0]

ScansInBag == Len(bag) \div ScanSize

RecordedScan(s) ==
  Append([i \in 1..ScanSize |-> [number |-> ScanSize * (s - 1) + i,
                                 stamp  |-> bag[ScanSize * (s - 1) + i]]],
         Correction)

(* A subscription that is full loses its oldest scan. *)
Published(scans, new) ==
  IF Len(scans) < SubscriptionDepth THEN Append(scans, new)
                                    ELSE Append(Tail(scans), new)

-----------------------------------------------------------------------------
Play ==
  /\ played < ScansInBag
  /\ played' = played + 1
  /\ topic' = Published(topic, RecordedScan(played'))
  /\ UNCHANGED <<bag, xt, publishesRaw, readerVars, decoderVars>>

ScanCallback ==
  /\ topic # <<>>
  /\ pushing = <<>>
  /\ pushing' = Head(topic)
  /\ topic' = Tail(topic)
  /\ UNCHANGED <<bag, xt, publishesRaw, played, corrected, backlog, decoderVars>>

(* One packet of PushScanPacket's loop.  A table is loaded from the first  *)
(* correction packet, or else from the file: either way that was the last. *)
PushPacket ==
  /\ pushing # <<>>
  /\ pushing' = Tail(pushing)
  /\ corrected' = (corrected \/ Head(pushing) = Correction)
  /\ backlog' = IF Head(pushing) = Correction \/ Len(backlog) = MaxBacklog
                  THEN backlog ELSE Append(backlog, Head(pushing))
  /\ UNCHANGED <<bag, xt, publishesRaw, played, topic, decoderVars>>

-----------------------------------------------------------------------------
(* ProcessLiarPacket *)

Passes_GuardOnly(p) == GuardAccepts(bagGuard, p.stamp)

Passes(p) ==
  /\ GuardAccepts(bagGuard, p.stamp)
  /\ xt => SequenceAccepts(bagTracker, p.number, p.stamp)

Drop(p) ==
  /\ ~Passes(p)
  /\ bagGuard' = GuardNext(bagGuard, p.stamp)
  /\ bagTracker' = IF xt /\ GuardAccepts(bagGuard, p.stamp)
                     THEN TrackerNext(bagTracker, p.number, p.stamp) ELSE bagTracker
  /\ UNCHANGED <<topic, scan, newest, repeated>>

(* The packet joins the scan, and if the start angle is in it the scan is  *)
(* handed over and begins anew.                                            *)
Decode(p, start) ==
  /\ Passes(p)
  /\ bagGuard' = GuardNext(bagGuard, p.stamp)
  /\ bagTracker' = IF xt THEN TrackerNext(bagTracker, p.number, p.stamp) ELSE bagTracker
  /\ scan' = IF start THEN <<>> ELSE Append(scan, p)
  /\ topic' = IF start /\ publishesRaw
                THEN Published(topic, scan \o <<p, Correction>>) ELSE topic
  /\ newest' = IF p.number > newest THEN p.number ELSE newest
  /\ repeated' = (repeated \/ p.number <= newest)

ProcessPacket ==
  /\ backlog # <<>>
  /\ backlog' = Tail(backlog)
  /\ \/ Drop(Head(backlog))
     \/ \E start \in BOOLEAN : Decode(Head(backlog), start)
  /\ UNCHANGED <<bag, xt, publishesRaw, played, pushing, corrected>>

(* The executor and the decoder wait. *)
Quiet == topic = <<>> /\ pushing = <<>> /\ backlog = <<>>

WaitForScans ==
  /\ Quiet
  /\ played = ScansInBag
  /\ UNCHANGED bagVars

-----------------------------------------------------------------------------
BagInit ==
  /\ bag \in Bags
  /\ xt \in BOOLEAN
  /\ publishesRaw \in BOOLEAN
  /\ played = 0
  /\ topic = <<>>
  /\ pushing = <<>>
  /\ corrected = FALSE
  /\ backlog = <<>>
  /\ bagGuard = NewGuard
  /\ bagTracker = NewTracker
  /\ scan = <<>>
  /\ newest = 0
  /\ repeated = FALSE

BagNext == Play \/ ScanCallback \/ PushPacket \/ ProcessPacket \/ WaitForScans

(* The executor and the decoding thread are scheduled. *)
BagFairness == WF_bagVars(ScanCallback \/ PushPacket) /\ WF_bagVars(ProcessPacket)

-----------------------------------------------------------------------------
(* By what the filters know a packet again: the numbers of a bag are fewer *)
(* than half of all there are, and the idle period after which the tracker *)
(* takes any number exceeds what the guard tolerates (2 s and 0.1 s).      *)
Recognisable ==
  /\ Tolerance < RestartIdle
  /\ \A b \in Bags : 2 * Len(b) < SeqModulus

(* The filters keep the node from decoding its own scans: with an XT       *)
(* sensor every packet of the bag is decoded at most once and in order,    *)
(* whichever scans a full subscription or packets a full queue loses.      *)
(* Without sequence numbers that takes a node that publishes no scans.     *)
EchoNotDecoded == xt \/ ~publishesRaw => ~repeated

(* And then what the node publishes does not keep it busy for ever: once   *)
(* the bag has been played it comes to rest.                               *)
EchoDiesOut == <>[](xt \/ ~publishesRaw => Quiet \/ played < ScansInBag)
=============================================================================

---------------------------- MODULE PacketLayouts ----------------------------
(***************************************************************************)
(* The byte layouts of the five packet families: ProcessLiarPacket sends a *)
(* packet to a parser by its size and the configured lidar_type, and the   *)
(* parser moves a cursor over the header, the blocks and the tail.  The    *)
(* contents are abstracted to the fields that steer the cursor; what is    *)
(* kept of a field is where it was read.                                   *)
(*                                                                         *)
(* Also here, because they repeat the layouts: the offsets at which the    *)
(* pcap reader finds the time of a packet, and the firing times of blocks  *)
(* and lasers that Init tabulates and the Calc functions add to it.        *)
(***************************************************************************)
EXTENDS Integers, Sequences

CONSTANTS
  Sensors,      \* values of lidar_type
  HeaderCounts  \* what the count bytes of a stray packet's header may hold

(* The sensors the repository's README names. *)
DocumentedSensors ==
  {"PandarXT-16", "PandarXT-32", "PandarQT", "Pandar64", "Pandar40P",
   "Pandar40M", "Pandar20A", "Pandar20B", "PandarXTM"}

ASSUME LayoutAssumption ==
  /\ Sensors \subseteq DocumentedSensors
  /\ HeaderCounts \subseteq 0..255

VARIABLES
  sensor,   \* m_sLidarType
  packet,   \* the packet being parsed: size, blocks, lasers, sob, returns
  family,   \* the parser it was sent to
  status,   \* where the parser is
  index,    \* the cursor
  block,    \* blocks parsed
  tailRead, \* fields of the tail parsed
  fields    \* where the fields were read

parserVars == <<sensor, packet, family, status, index, block, tailRead, fields>>

-----------------------------------------------------------------------------
(* What each parser steps over: sizes in bytes, the arrays it fills, and   *)
(* the fields of the tail in order.                                        *)

Field(name, width) == [name |-> name, width |-> width]

FieldNames == {"reserved", "speed", "timestamp", "echo", "factory", "utc", "sequence"}

NotRead == [f \in FieldNames |-> 0]

(* The tail the parsers but ParseXTData share. *)
CommonTail(reserved) ==
  <<Field("reserved", reserved), Field("speed", 2), Field("timestamp", 4),
    Field("echo", 1), Field("factory", 1), Field("utc", 6)>>

RawData == [head |-> 0, blockHead |-> 4, unit |-> 3, blocks |-> 10, units |-> 40,
            tail |-> CommonTail(8)]

L64Data == [head |-> 8, blockHead |-> 2, unit |-> 3, blocks |-> 7, units |-> 64,
            tail |-> CommonTail(8)]

L20Data == [head |-> 8, blockHead |-> 2, unit |-> 3, blocks |-> 20, units |-> 20,
            tail |-> CommonTail(8)]

QTData == [head |-> 12, blockHead |-> 2, unit |-> 4, blocks |-> 4, units |-> 64,
           tail |-> CommonTail(10)]

XTData == [head |-> 12, blockHead |-> 2, unit |-> 4, blocks |-> 8, units |-> 32,
           tail |-> <<Field("reserved", 10), Field("echo", 1), Field("speed", 2),
                      Field("utc", 6), Field("timestamp", 4), Field("factory", 1)>>]

Parser == [raw |-> RawData, L64 |-> L64Data, L20 |-> L20Data,
           QT |-> QTData, XT |-> XTData]

BlockSize(p, lasers) == p.blockHead + lasers * p.unit

BodySize(p, blocks, lasers) == p.head + blocks * BlockSize(p, lasers)

(* The packet sizes of the headers; the tail sizes are literals there. *)
RawSizes == {BodySize(RawData, 10, 40) + 22 + seq : seq \in {0, 4}}
L64Sizes == {BodySize(L64Data, n, 64) + tail : n \in {6, 7}, tail \in {22, 26}}
L20Sizes == {BodySize(L20Data, 20, 20) + 22}
QTSizes == {BodySize(QTData, 4, 64) + tail : tail \in {24, 28}}
XTSize == BodySize(XTData, 8, 32) + 28
XT16Size == 568
XTMSize == 820

-----------------------------------------------------------------------------
(* What the sensors send: documented sizes, the counts that fit them. *)

SentBy(type, size) ==
  CASE type \in {"Pandar40P", "Pandar40M"} -> [blocks |-> 10, lasers |-> 40]
    [] type = "Pandar64" -> [blocks |-> IF size < 1300 THEN 6 ELSE 7, lasers |-> 64]
    [] type \in {"Pandar20A", "Pandar20B"} -> [blocks |-> 20, lasers |-> 20]
    [] type = "PandarQT" -> [blocks |-> 4, lasers |-> 64]
    [] type = "PandarXT-32" -> [blocks |-> 8, lasers |-> 32]
    [] type = "PandarXT-16" -> [blocks |-> 8, lasers |-> 16]
    [] type = "PandarXTM" -> [blocks |-> 6, lasers |-> 32]

SizesOf(type) ==
  CASE type \in {"Pandar40P", "Pandar40M"} -> {1262, 1266}
    [] type = "Pandar64" -> {1194, 1198, 1388, 1392}
    [] type \in {"Pandar20A", "Pandar20B"} -> {1270}
    [] type = "PandarQT" -> {1068, 1072}
    [] type = "PandarXT-32" -> {1080}
    [] type = "PandarXT-16" -> {568}
    [] type = "PandarXTM" -> {820}

IsXT(type) == type \in {"PandarXT-32", "PandarXT-16", "PandarXTM"}

(* Single and dual return; the XTM can send three. *)
ReturnsOf(type) == IF type = "PandarXTM" THEN 1..3 ELSE 1..2

SentPacket(type, size, returns) ==
  [size |-> size, blocks |-> SentBy(type, size).blocks,
   lasers |-> SentBy(type, size).lasers, sob |-> TRUE, returns |-> returns]

SentPackets(type) ==
  {SentPacket(type, size, returns) :
     size \in SizesOf(type), returns \in ReturnsOf(type)}

(* What else may arrive on the port, whatever the configured lidar_type: a *)
(* datagram of any size that has a parser, or of one that has none, with   *)
(* or without the start mark and with any counts in its header.            *)
KnownSizes ==
  RawSizes \cup L64Sizes \cup L20Sizes \cup QTSizes \cup {XTSize, XT16Size, XTMSize}

StrayPackets ==
  [size : KnownSizes \cup {100}, blocks : HeaderCounts, lasers : HeaderCounts,
   sob : BOOLEAN, returns : {1}]

-----------------------------------------------------------------------------
(* The parser. *)

Finished == {"idle", "ignored", "rejected", "parsed"}

(* The chain of sizes in ProcessLiarPacket. *)
Dispatch_AnyXT(type, size) ==
  CASE size \in RawSizes -> "raw"
    [] size \in L64Sizes -> "L64"
    [] size \in L20Sizes -> "L20"
    [] size \in QTSizes -> "QT"
    [] size \in {XTSize, XT16Size, XTMSize} -> "XT"
    [] OTHER -> "none"

Dispatch(type, size) ==
  CASE size \in RawSizes -> "raw"
    [] size \in L64Sizes -> "L64"
    [] size \in L20Sizes -> "L20"
    [] size \in QTSizes -> "QT"
    [] \/ size = XTSize /\ type \in {"XT", "PandarXT-32"}
       \/ size = XT16Size /\ type = "PandarXT-16"
       \/ size = XTMSize /\ type = "PandarXTM" -> "XT"
    [] OTHER -> "none"

Receive ==
  /\ status \in Finished
  /\ packet' \in SentPackets(sensor) \cup StrayPackets
  /\ family' = Dispatch(sensor, packet'.size)
  /\ status' = IF family' = "none" THEN "ignored" ELSE "header"
  /\ index' = 0
  /\ block' = 0
  /\ tailRead' = 0
  /\ fields' = NotRead
  /\ UNCHANGED sensor

(* The checks of ParseXTData on the counts of the header. *)
LayoutChecked_BoundsOnly(p) ==
  /\ p.blocks \in 1..XTData.blocks
  /\ p.lasers \in 1..XTData.units

LayoutChecked(p) ==
  /\ p.blocks \in 1..XTData.blocks
  /\ p.lasers \in 1..XTData.units
  /\ BodySize(XTData, p.blocks, p.lasers) + 28 = p.size

HeaderAccepted ==
  /\ family # "raw" => packet.sob
  /\ family = "XT" => LayoutChecked(packet)

ReadHeader ==
  /\ status = "header"
  /\ status' = IF HeaderAccepted THEN "blocks" ELSE "rejected"
  /\ index' = Parser[family].head
  /\ fields' = IF HeaderAccepted /\ family = "XT"
                 THEN [fields EXCEPT !["sequence"] = packet.size - 4] ELSE fields
  /\ UNCHANGED <<sensor, packet, family, block, tailRead>>

(* The bounds of the parser's loops; ParseRawData has them fixed. *)
BlockCount == IF family = "raw" THEN RawData.blocks ELSE packet.blocks
LaserCount == IF family = "raw" THEN RawData.units ELSE packet.lasers

ReadBlock ==
  /\ status = "blocks"
  /\ block < BlockCount
  /\ index' = index + BlockSize(Parser[family], LaserCount)
  /\ block' = block + 1
  /\ UNCHANGED <<sensor, packet, family, status, tailRead, fields>>

ReadTailField ==
  /\ status = "blocks"
  /\ block = BlockCount
  /\ tailRead' = tailRead + 1
  /\ LET field == Parser[family].tail[tailRead']
     IN  /\ fields' = [fields EXCEPT ![field.name] = index]
         /\ index' = index + field.width
  /\ status' = IF tailRead' = Len(Parser[family].tail) THEN "parsed" ELSE status
  /\ UNCHANGED <<sensor, packet, family, block>>

ParserInit ==
  /\ sensor \in Sensors
  /\ packet = [size |-> 0, blocks |-> 0, lasers |-> 0, sob |-> FALSE, returns |-> 1]
  /\ family = "none"
  /\ status = "idle"
  /\ index = 0
  /\ block = 0
  /\ tailRead = 0
  /\ fields = NotRead

ParserNext == Receive \/ ReadHeader \/ ReadBlock \/ ReadTailField

ParserSpec == ParserInit /\ [][ParserNext]_parserVars

-----------------------------------------------------------------------------
(* initTimeIndexMap: where the pcap reader looks for the microseconds and  *)
(* the UTC time of a packet.                                               *)
TimeIndex_Swapped(type) ==
  CASE type \in {"Pandar40P", "Pandar40M"} -> <<1250, 1256>>
    [] type = "Pandar64" -> <<1182, 1188>>
    [] type = "PandarQT" -> <<1056, 1062>>
    [] type \in {"Pandar20A", "Pandar20B"} -> <<1258, 1264>>
    [] type = "PandarXT-32" -> <<1065, 1071>>
    [] type = "PandarXT-16" -> <<553, 559>>
    [] type = "PandarXTM" -> <<805, 811>>
    [] OTHER -> <<0, 0>>

TimeIndex(type) ==
  CASE type \in {"Pandar40P", "Pandar40M"} -> <<1250, 1256>>
    [] type = "Pandar64" -> <<1182, 1188>>
    [] type = "PandarQT" -> <<1056, 1062>>
    [] type \in {"Pandar20A", "Pandar20B"} -> <<1258, 1264>>
    [] type = "PandarXT-32" -> <<1071, 1065>>
    [] type = "PandarXT-16" -> <<559, 553>>
    [] type = "PandarXTM" -> <<811, 805>>
    [] OTHER -> <<0, 0>>

(* The block offsets of Init, in nanoseconds, by returns per firing. *)
Block40(returns) == [b \in 0..9 |-> 28580 + 55560 * ((9 - b) \div returns)]
Block64(returns) == [b \in 0..5 |-> 42580 + 55560 * ((5 - b) \div returns)]
Block20(returns) == [b \in 0..19 |-> 28580 + 55560 * ((19 - b) \div returns)]

BlockQT_OneStep(returns) ==
  IF returns = 1
    THEN [b \in 0..3 |-> 25710 + <<0, 166670, 333330, 500000>>[b + 1]]
    ELSE [b \in 0..3 |-> 25710 + <<0, 166670, 166670, 333330>>[b + 1]]

BlockQT(returns) ==
  IF returns = 1
    THEN [b \in 0..3 |-> 25710 + <<0, 166670, 333330, 500000>>[b + 1]]
    ELSE [b \in 0..3 |-> 25710 + <<0, 0, 166670, 166670>>[b + 1]]

BlockXT(returns) == [b \in 0..7 |-> 5632 - 50000 * ((7 - b) \div returns)]
BlockXTM(returns) ==
  [b \in 0..7 |-> IF b > 5 THEN 5632 ELSE 5632 - 50000 * ((5 - b) \div returns)]

BlockOffset(type, returns) ==
  CASE type \in {"Pandar40P", "Pandar40M"} -> Block40(returns)
    [] type = "Pandar64" -> Block64(returns)
    [] type \in {"Pandar20A", "Pandar20B"} -> Block20(returns)
    [] type = "PandarQT" -> BlockQT(returns)
    [] type = "PandarXTM" -> BlockXTM(returns)
    [] OTHER -> BlockXT(returns)

(* The lasers whose offset Init assigns. *)
Laser40 == (0..39) \ {7}

LaserOffsets(type) ==
  CASE type \in {"Pandar40P", "Pandar40M"} -> Laser40
    [] type \in {"Pandar64", "PandarQT"} -> 0..63
    [] type \in {"Pandar20A", "Pandar20B"} -> 0..19
    [] type = "PandarXT-16" -> 0..15
    [] OTHER -> 0..31

(* The Calc functions: the older families subtract the offset from the     *)
(* packet's time, the QT and the XT add it.                                *)
FiringTime(type, returns, b) ==
  IF type = "PandarQT" \/ IsXT(type)
    THEN BlockOffset(type, returns)[b]
    ELSE - BlockOffset(type, returns)[b]

-----------------------------------------------------------------------------
(* Only ParseRawData, whose loops are fixed, and ParseXTData, which checks *)
(* the counts of the header, bound what they read of a stray packet.       *)
(* ParseL64Data, ParseL20Data and ParseQTData loop to whatever counts the  *)
(* header holds: of them nothing is claimed beyond the packets their       *)
(* sensor sends.                                                           *)
Bounded == family \in {"raw", "XT"} \/ packet \in SentPackets(sensor)

(* The cursor never leaves the packet and no block or laser falls outside  *)
(* the arrays: for the packets of every documented sensor, and in          *)
(* ParseRawData and ParseXTData for any packet they are given.             *)
ReadsInside ==
  Bounded /\ status # "ignored" =>
    /\ index <= packet.size
    /\ status \in {"blocks", "parsed"} =>
         BlockCount <= Parser[family].blocks /\ LaserCount <= Parser[family].units

(* Every packet of every documented sensor is parsed: each size has a      *)
(* parser that takes it.  What ParseXTData lets through is such a packet:  *)
(* of the configured model, with its counts.  The other parsers let        *)
(* through more, whichever sensor is configured: their sizes are           *)
(* dispatched without a look at lidar_type, the start mark is all that     *)
(* three of them check, and ParseRawData checks nothing.                   *)
ParsedAsSent ==
  /\ status = "parsed" /\ family = "XT" =>
       \E p \in SentPackets(sensor) :
         /\ <<p.size, p.sob>> = <<packet.size, packet.sob>>
         /\ <<p.blocks, p.lasers>> = <<packet.blocks, packet.lasers>>
  /\ status \in {"ignored", "rejected"} => packet \notin SentPackets(sensor)

(* A sensor's packet is used up when it is parsed: after the tail there is *)
(* the UDP sequence number or nothing, and for the XT the sequence number  *)
(* was taken from where the tail ends.  The pcap reader takes the time of  *)
(* a packet from where the parser finds it; for the Pandar64, of packets   *)
(* with six blocks.                                                        *)
FieldsWhereExpected ==
  status = "parsed" /\ packet \in SentPackets(sensor) =>
    /\ IF family = "XT" THEN fields["sequence"] = index /\ index + 4 = packet.size
                        ELSE packet.size - index \in {0, 4}
    /\ ~(sensor = "Pandar64" /\ packet.blocks = 7) =>
         TimeIndex(sensor) = <<fields["timestamp"], fields["utc"]>>

(* Every laser of every block of a sensor's packet has a firing time, but  *)
(* for one laser of the Pandar40 and the seventh block of a Pandar64       *)
(* packet: Init skips laser40Offset_[7], and the tables of the Pandar64    *)
(* have six entries.                                                       *)
FiringTimesDefined ==
  /\ \A b \in 0..(packet.blocks - 1) :
       \/ b \in DOMAIN BlockOffset(sensor, packet.returns)
       \/ sensor = "Pandar64" /\ b = 6
  /\ \A l \in 0..(packet.lasers - 1) :
       \/ l \in LaserOffsets(sensor)
       \/ sensor \in {"Pandar40P", "Pandar40M"} /\ l = 7

(* The blocks of a sensor's packet have firing times in the order they     *)
(* fired, and exactly those that are returns of one firing the same: "dual *)
(* return, block 0&1 (2&3 , 4*5 ...)'s timestamp is the same".             *)
BlocksInFiringOrder ==
  status = "parsed" /\ packet \in SentPackets(sensor) =>
    LET time(b) == FiringTime(sensor, packet.returns, b)
        firing(b) == b \div packet.returns
        last == (packet.blocks \div packet.returns) * packet.returns - 1
    IN  /\ FiringTimesDefined
        /\ \A b, c \in (0..last) \cap DOMAIN BlockOffset(sensor, packet.returns) :
             b < c => IF firing(b) = firing(c) THEN time(b) = time(c)
                                               ELSE time(b) < time(c)
=============================================================================

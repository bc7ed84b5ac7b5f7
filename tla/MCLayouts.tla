------------------------------ MODULE MCLayouts ------------------------------
(* The byte layouts at the two ends of the driver, exercised one at a      *)
(* time: PacketLayouts, for the packets it reads, with the sensors the     *)
(* repository's README names, and CompactCloud, for the messages it        *)
(* writes, with a word of four bits.                                       *)
EXTENDS PacketLayouts, CompactCloud

(* The counts the XT sensors send, the ends of the byte, and 40 blocks,    *)
(* which with 6 lasers fill a packet of the XT exactly.                    *)
MCHeaderCounts == {0, 6, 8, 16, 32, 40, 64, 255}

Parsing == conversion = "none"

Init ==
  /\ ParserInit
  /\ ConversionInit
  /\ Parsing => cloud = [points |-> 0, width |-> 0, height |-> 0]
  /\ ~Parsing => sensor = "PandarXT-16"

Next ==
  \/ Parsing /\ ParserNext /\ UNCHANGED conversionVars
  \/ ~Parsing /\ ConversionNext /\ UNCHANGED parserVars

Spec == Init /\ [][Next]_<<parserVars, conversionVars>>
=============================================================================

--------------------------- MODULE MCPacketOrder ---------------------------
(* PacketOrder with a 4-bit sequence counter that is watched from just     *)
(* before its rollover, and an idle period of three clock ticks.           *)
EXTENDS PacketOrder
=============================================================================

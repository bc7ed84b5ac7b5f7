--------------------------- MODULE MCPacketSources ---------------------------
(* PacketSources with captures whose clock is regular, stands still, jumps *)
(* ahead, and is set back.  Their times are negative, as they are when the *)
(* year byte counts from 1900.  Bags are regular, paused for longer than   *)
(* the idle period, or recorded out of order.                              *)
EXTENDS PacketSources

MCCaptures ==
  {<<-9, -8, -7, -6, -5, -4>>, <<-9, -9, -9, -5, -5, -4>>,
   <<-9, -8, -3, -2>>, <<-4, -3, -9, -8, -7, -6>>}

MCBags == {<<0, 1, 1, 2, 2, 3>>, <<0, 0, 4, 4, 3, 5>>, <<0, 3, 2, 1, 6, 7>>}

MCCounts == {-2, 0, 7}

(* The hypothesis under which EchoNotDecoded is proved. *)
ASSUME FiltersTell == Recognisable
=============================================================================

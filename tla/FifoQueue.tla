----------------------------- MODULE FifoQueue -----------------------------
(***************************************************************************)
(* What the packet queue promises its two threads: a first-in first-out    *)
(* queue of at most MaxDepth packets.  The packet the receiver offers is   *)
(* either appended or refused; the decoder takes the oldest packet; a stop *)
(* throws the backlog away.  Nothing else ever happens to a packet.        *)
(***************************************************************************)
EXTENDS Naturals, Sequences

CONSTANTS
  Packets,   \* the packets the receiver may offer
  NoPacket,  \* no packet is offered, or none was taken yet
  MaxDepth   \* the largest backlog

VARIABLES
  offered,   \* the packet the receiver is trying to push
  queue,     \* the backlog, oldest packet first
  taken      \* the last packet handed to the decoder

fifoVars == <<offered, queue, taken>>

Init ==
  /\ offered = NoPacket
  /\ queue = << >>
  /\ taken = NoPacket

Offer(p) ==
  /\ offered = NoPacket
  /\ offered' = p
  /\ UNCHANGED <<queue, taken>>

Enqueue ==
  /\ offered # NoPacket
  /\ Len(queue) < MaxDepth
  /\ queue' = Append(queue, offered)
  /\ offered' = NoPacket
  /\ UNCHANGED taken

Refuse ==
  /\ offered # NoPacket
  /\ offered' = NoPacket
  /\ UNCHANGED <<queue, taken>>

Dequeue ==
  /\ queue # << >>
  /\ taken' = Head(queue)
  /\ queue' = Tail(queue)
  /\ UNCHANGED offered

Discard ==
  /\ offered = NoPacket
  /\ queue' = << >>
  /\ UNCHANGED <<offered, taken>>

Next ==
  \/ \E p \in Packets : Offer(p)
  \/ Enqueue
  \/ Refuse
  \/ Dequeue
  \/ Discard

Spec == Init /\ [][Next]_fifoVars
=============================================================================

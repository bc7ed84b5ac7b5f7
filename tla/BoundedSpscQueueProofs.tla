----------------------- MODULE BoundedSpscQueueProofs -----------------------
(***************************************************************************)
(* The packet queue is safe for every capacity and depth the class         *)
(* template accepts.  The four indices - what the producer saw of the read *)
(* index, the read index, what the consumer saw of the write index, and    *)
(* the write index - stay in this order around the ring, and span at most  *)
(* MaxDepth slots.                                                         *)
(***************************************************************************)
EXTENDS BoundedSpscQueue, TLAPS

(* The indices in ring order; Span is the backlog as the producer sees it. *)
Span == distance(producerRead, writeIndex)

RingOrder ==
  /\ Span = distance(producerRead, readIndex) + distance(readIndex, consumerWrite)
            + distance(consumerWrite, writeIndex)
  /\ Span <= MaxDepth

(* What the producer knows between its loads and its publishing store. *)
ProducerInv ==
  /\ packet # NoPacket <=> producer \in {"pushing", "writing", "publishing"}
  /\ producer \in {"writing", "publishing"} => currentSize = Span /\ Span < MaxDepth
  /\ producer = "publishing" => storage[writeIndex] = packet

(* What the consumer knows between its loads and its releasing store. *)
ConsumerInv ==
  /\ consumer \in {"copying", "releasing"} => readIndex # consumerWrite
  /\ consumer = "releasing" => value = storage[readIndex]

(* Stop resets the queue only after both joins. *)
ControlInv ==
  /\ control \in {"joinProcess", "stopped"} => producer = "exited"
  /\ control = "stopped" => consumer = "exited"

QueueInv ==
  /\ TypeOK
  /\ RingOrder
  /\ ProducerInv
  /\ ConsumerInv
  /\ ControlInv
  /\ Backlog <= maxObserved
  /\ PacketsAccounted

-----------------------------------------------------------------------------
(* Distances between slots are smaller than the capacity. *)
LEMMA DistanceType ==
  \A a, b \in Slots : distance(a, b) \in Nat /\ distance(a, b) < StorageCapacity
BY QueueAssumption DEF distance, Slots

(* A slot is at distance zero from itself only. *)
LEMMA DistanceZero ==
  \A a, b \in Slots : distance(a, b) = 0 <=> a = b
BY QueueAssumption DEF distance, Slots

(* Storing next(write) moves the write index one slot further away. *)
LEMMA NextWrite ==
  ASSUME NEW a \in Slots, NEW w \in Slots, distance(a, w) < StorageCapacity - 1
  PROVE  next(w) \in Slots /\ distance(a, next(w)) = distance(a, w) + 1
BY QueueAssumption DEF distance, next, Slots

(* Storing next(read) brings the read index one slot nearer to any other   *)
(* slot, and one slot further from where it was seen.                      *)
LEMMA NextRead ==
  ASSUME NEW r \in Slots, NEW w \in Slots, r # w
  PROVE  next(r) \in Slots /\ distance(next(r), w) = distance(r, w) - 1
BY QueueAssumption DEF distance, next, Slots

(* A visible index splits the way from the one seen before to the newest. *)
LEMMA VisibleSplits ==
  ASSUME NEW s \in Slots, NEW n \in Slots, NEW i \in Visible(s, n)
  PROVE  i \in Slots /\ distance(s, n) = distance(s, i) + distance(i, n)
BY QueueAssumption DEF distance, Visible, Slots

(* Distances add up along the ring when they do not exceed it. *)
LEMMA DistanceAdds ==
  ASSUME NEW a \in Slots, NEW b \in Slots, NEW c \in Slots,
         distance(a, b) + distance(b, c) < StorageCapacity
  PROVE  distance(a, c) = distance(a, b) + distance(b, c)
BY QueueAssumption DEF distance, Slots

(* The backlog is what the consumer sees of it and what it does not see yet. *)
LEMMA BacklogSplits ==
  ASSUME TypeOK, RingOrder
  PROVE  /\ distance(producerRead, readIndex) \in Nat
         /\ distance(readIndex, consumerWrite) \in Nat
         /\ distance(consumerWrite, writeIndex) \in Nat
         /\ Backlog = distance(readIndex, consumerWrite) + distance(consumerWrite, writeIndex)
         /\ Backlog <= Span
<1>1. /\ distance(producerRead, readIndex) \in Nat
      /\ distance(readIndex, consumerWrite) \in Nat
      /\ distance(consumerWrite, writeIndex) \in Nat
  BY DistanceType DEF TypeOK
<1>2. Backlog = distance(readIndex, consumerWrite) + distance(consumerWrite, writeIndex)
  BY <1>1, DistanceAdds, QueueAssumption DEF TypeOK, RingOrder, Backlog
<1> QED BY <1>1, <1>2 DEF RingOrder

(* While the consumer is inside a slot, the producer cannot reach it. *)
LEMMA HeldSlotIsNotFree ==
  ASSUME TypeOK, RingOrder, readIndex # consumerWrite
  PROVE  readIndex # writeIndex
<1>1. distance(readIndex, consumerWrite) # 0
  BY DistanceZero DEF TypeOK
<1>2. Backlog # 0
  BY <1>1, BacklogSplits
<1> QED BY <1>2, DistanceZero DEF TypeOK, Backlog

-----------------------------------------------------------------------------
(* The initial state is safe. *)
LEMMA QueueInit == Init => QueueInv
<1> SUFFICES ASSUME Init PROVE QueueInv
  OBVIOUS
<1>1. 0 \in Slots /\ distance(0, 0) = 0
  BY QueueAssumption DEF Slots, distance
<1>2. TypeOK
  <2>1. storage \in [Slots -> Packets \cup {NoPacket}]
    BY DEF Init
  <2>2. recvEnabled \in BOOLEAN /\ processEnabled \in BOOLEAN
    BY DEF Init
  <2> QED BY <1>1, <2>1, <2>2, QueueAssumption DEF Init, TypeOK, NoPacket, ProducerStates, ConsumerStates
<1>3. RingOrder /\ ProducerInv /\ ConsumerInv /\ ControlInv
  BY <1>1, QueueAssumption
     DEF Init, RingOrder, ProducerInv, ConsumerInv, ControlInv, Span, NoPacket
<1>4. Backlog <= maxObserved /\ PacketsAccounted
  BY <1>1 DEF Init, Backlog, PacketsAccounted, NoPacket
<1> QED BY <1>2, <1>3, <1>4 DEF QueueInv

(* Every step of the receiving thread preserves the invariant. *)
LEMMA ReceiverStep == QueueInv /\ Receiver => QueueInv'
<1> SUFFICES ASSUME QueueInv, Receiver PROVE QueueInv'
  OBVIOUS
<1> USE QueueAssumption DEF QueueInv, receiverVars, decoderVars, ringVars,
        viewVars, flagVars, NoPacket
<1>1. CASE RecvLoopTest
  BY <1>1 DEF RecvLoopTest, TypeOK, RingOrder, ProducerInv, ConsumerInv,
       ControlInv, PacketsAccounted, Span, Backlog, ProducerStates
<1>2. CASE PcapEnds \/ RecvNothing
  BY <1>2 DEF PcapEnds, RecvNothing, TypeOK, RingOrder, ProducerInv, ConsumerInv,
       ControlInv, PacketsAccounted, Span, Backlog, ProducerStates
<1>3. CASE RecvPacket
  BY <1>3 DEF RecvPacket, TypeOK, RingOrder, ProducerInv, ConsumerInv,
       ControlInv, PacketsAccounted, Span, Backlog, ProducerStates, Packets
<1>4. CASE PushLoad
  <2>1. PICK read \in Visible(producerRead, readIndex) :
          /\ producerRead' = read
          /\ currentSize' = distance(read, writeIndex)
          /\ IF Full(distance(read, writeIndex))
               THEN /\ producer' = "loop"
                    /\ drops' = drops + 1
                    /\ packet' = NoPacket
               ELSE /\ producer' = "writing"
                    /\ UNCHANGED <<drops, packet>>
    BY <1>4 DEF PushLoad
  <2>2. /\ read \in Slots
        /\ distance(producerRead, readIndex)
             = distance(producerRead, read) + distance(read, readIndex)
    BY VisibleSplits DEF TypeOK
  <2>3. /\ distance(producerRead, read) \in Nat
        /\ distance(read, readIndex) \in Nat
        /\ distance(readIndex, consumerWrite) \in Nat
        /\ distance(consumerWrite, writeIndex) \in Nat
    BY <2>2, DistanceType DEF TypeOK
  <2>4. distance(read, consumerWrite)
          = distance(read, readIndex) + distance(readIndex, consumerWrite)
    BY <2>2, <2>3, DistanceAdds DEF TypeOK, RingOrder
  <2>5. distance(read, writeIndex)
          = distance(read, consumerWrite) + distance(consumerWrite, writeIndex)
    BY <2>2, <2>3, <2>4, DistanceAdds DEF TypeOK, RingOrder
  <2>6. distance(read, writeIndex) \in 0 .. MaxDepth
    BY <2>2, <2>3, <2>4, <2>5 DEF RingOrder
  <2>7. TypeOK'
    BY <1>4, <2>1, <2>2, <2>6 DEF PushLoad, TypeOK, ProducerStates
  <2>8. RingOrder'
    BY <1>4, <2>1, <2>4, <2>5, <2>6 DEF PushLoad, RingOrder, Span
  <2>9. ProducerInv' /\ ConsumerInv' /\ ControlInv'
    BY <1>4, <2>1, <2>6 DEF PushLoad, ProducerInv, ConsumerInv, ControlInv, Span, Full
  <2>10. (Backlog <= maxObserved)' /\ PacketsAccounted'
    BY <1>4, <2>1 DEF PushLoad, PacketsAccounted, Backlog, ProducerInv, TypeOK
  <2> QED BY <2>7, <2>8, <2>9, <2>10
<1>5. CASE PushWrite
  <2>1. TypeOK' /\ RingOrder' /\ ControlInv' /\ PacketsAccounted'
          /\ (Backlog <= maxObserved)'
    BY <1>5 DEF PushWrite, TypeOK, RingOrder, ControlInv, PacketsAccounted,
         Span, Backlog, ProducerStates
  <2>2. ProducerInv'
    BY <1>5 DEF PushWrite, ProducerInv, TypeOK, Span
  <2>3. consumer = "releasing" => readIndex # writeIndex
    BY HeldSlotIsNotFree DEF ConsumerInv
  <2>4. ConsumerInv'
    BY <1>5, <2>3 DEF PushWrite, ConsumerInv, TypeOK
  <2> QED BY <2>1, <2>2, <2>4
<1>6. CASE PushPublish
  <2>1. Span < MaxDepth /\ currentSize = Span
    BY <1>6 DEF PushPublish, ProducerInv
  <2>2. /\ distance(producerRead, readIndex) \in Nat
        /\ distance(readIndex, consumerWrite) \in Nat
        /\ distance(consumerWrite, writeIndex) \in Nat
        /\ Span \in Nat
        /\ Backlog \in Nat
    BY DistanceType DEF TypeOK, Span, Backlog
  <2>3. Backlog = distance(readIndex, consumerWrite) + distance(consumerWrite, writeIndex)
    BY BacklogSplits
  <2>4. /\ next(writeIndex) \in Slots
        /\ distance(producerRead, next(writeIndex)) = Span + 1
        /\ distance(consumerWrite, next(writeIndex))
             = distance(consumerWrite, writeIndex) + 1
        /\ distance(readIndex, next(writeIndex)) = Backlog + 1
    BY <2>1, <2>2, <2>3, NextWrite DEF TypeOK, RingOrder, Span, Backlog
  <2>5. TypeOK'
    BY <1>6, <2>1, <2>2, <2>4 DEF PushPublish, TypeOK, ProducerStates
  <2>6. RingOrder'
    BY <1>6, <2>1, <2>2, <2>4 DEF PushPublish, RingOrder, Span
  <2>7. ProducerInv' /\ ConsumerInv' /\ ControlInv'
    BY <1>6 DEF PushPublish, ProducerInv, ConsumerInv, ControlInv
  <2>8. (Backlog <= maxObserved)'
    BY <1>6, <2>1, <2>2, <2>3, <2>4 DEF PushPublish, RingOrder, Backlog, TypeOK
  <2>9. PacketsAccounted'
    BY <1>6, <2>2, <2>4 DEF PushPublish, PacketsAccounted, Backlog, ProducerInv, TypeOK
  <2> QED BY <2>5, <2>6, <2>7, <2>8, <2>9
<1> QED BY <1>1, <1>2, <1>3, <1>4, <1>5, <1>6 DEF Receiver

(* Every step of the decoding thread preserves the invariant. *)
LEMMA DecoderStep == QueueInv /\ Decoder => QueueInv'
<1> SUFFICES ASSUME QueueInv, Decoder PROVE QueueInv'
  OBVIOUS
<1> USE QueueAssumption DEF QueueInv, receiverVars, decoderVars, ringVars,
        viewVars, flagVars, NoPacket
<1>1. CASE ProcessLoopTest \/ WorkDone \/ WorkReturns
  BY <1>1 DEF ProcessLoopTest, WorkDone, WorkReturns, TypeOK, RingOrder,
       ProducerInv, ConsumerInv, ControlInv, PacketsAccounted, Span, Backlog,
       ConsumerStates
<1>2. CASE PopLoad
  <2>1. PICK write \in Visible(consumerWrite, writeIndex) :
          /\ consumerWrite' = write
          /\ consumer' = IF Empty(readIndex, write) THEN "loop" ELSE "copying"
    BY <1>2 DEF PopLoad
  <2>2. /\ write \in Slots
        /\ distance(consumerWrite, writeIndex)
             = distance(consumerWrite, write) + distance(write, writeIndex)
    BY VisibleSplits DEF TypeOK
  <2>3. /\ distance(producerRead, readIndex) \in Nat
        /\ distance(readIndex, consumerWrite) \in Nat
        /\ distance(consumerWrite, write) \in Nat
        /\ distance(write, writeIndex) \in Nat
    BY <2>2, DistanceType DEF TypeOK
  <2>4. distance(readIndex, write)
          = distance(readIndex, consumerWrite) + distance(consumerWrite, write)
    BY <2>2, <2>3, DistanceAdds DEF TypeOK, RingOrder
  <2>5. RingOrder'
    BY <1>2, <2>1, <2>2, <2>3, <2>4 DEF PopLoad, RingOrder, Span
  <2>6. ConsumerInv'
    BY <1>2, <2>1 DEF PopLoad, ConsumerInv, Empty
  <2>7. TypeOK' /\ ProducerInv' /\ ControlInv' /\ PacketsAccounted'
          /\ (Backlog <= maxObserved)'
    BY <1>2, <2>1, <2>2 DEF PopLoad, TypeOK, ProducerInv, ControlInv,
         PacketsAccounted, Span, Backlog, ConsumerStates
  <2> QED BY <2>5, <2>6, <2>7
<1>3. CASE PopCopy
  BY <1>3 DEF PopCopy, TypeOK, RingOrder, ProducerInv, ConsumerInv, ControlInv,
       PacketsAccounted, Span, Backlog, ConsumerStates
<1>4. CASE PopRelease
  <2>1. readIndex # consumerWrite
    BY <1>4 DEF PopRelease, ConsumerInv
  <2>2. /\ distance(producerRead, readIndex) \in Nat
        /\ distance(readIndex, consumerWrite) \in Nat \ {0}
        /\ distance(consumerWrite, writeIndex) \in Nat
        /\ Backlog \in Nat
    BY <2>1, DistanceType, DistanceZero DEF TypeOK, Backlog
  <2>4. readIndex # writeIndex
    BY <2>1, HeldSlotIsNotFree
  <2>5. /\ next(readIndex) \in Slots
        /\ distance(next(readIndex), consumerWrite)
             = distance(readIndex, consumerWrite) - 1
        /\ distance(next(readIndex), writeIndex) = Backlog - 1
    BY <2>1, <2>4, NextRead DEF TypeOK, Backlog
  <2>6. distance(producerRead, next(readIndex)) = distance(producerRead, readIndex) + 1
    BY <2>2, NextWrite DEF TypeOK, RingOrder
  <2>7. RingOrder'
    BY <1>4, <2>2, <2>5, <2>6 DEF PopRelease, RingOrder, Span
  <2>8. (Backlog <= maxObserved)' /\ PacketsAccounted'
    BY <1>4, <2>2, <2>5 DEF PopRelease, Backlog, PacketsAccounted, TypeOK
  <2>9. TypeOK' /\ ProducerInv' /\ ConsumerInv' /\ ControlInv'
    BY <1>4, <2>5 DEF PopRelease, TypeOK, ProducerInv, ConsumerInv, ControlInv,
         Span, ConsumerStates
  <2> QED BY <2>7, <2>8, <2>9
<1> QED BY <1>1, <1>2, <1>3, <1>4 DEF Decoder

(* Every step of a Start or Stop call preserves the invariant. *)
LEMMA ControllerStep == QueueInv /\ Controller => QueueInv'
<1> SUFFICES ASSUME QueueInv, Controller PROVE QueueInv'
  OBVIOUS
<1> USE QueueAssumption DEF QueueInv, receiverVars, decoderVars, ringVars,
        viewVars, flagVars, NoPacket
<1>1. CASE StopClearsFlags \/ StopJoinsRecv
  BY <1>1 DEF StopClearsFlags, StopJoinsRecv, TypeOK, RingOrder, ProducerInv,
       ConsumerInv, ControlInv, PacketsAccounted, Span, Backlog
<1>2. CASE StopJoinsProcess \/ Start
  <2>0. 0 \in Slots /\ distance(0, 0) = 0
    BY DEF Slots, distance
  <2>1. Backlog \in Nat /\ Backlog' = 0
    BY <1>2, <2>0, DistanceType DEF StopJoinsProcess, Start, ResetQueue, Backlog, TypeOK
  <2>2. TypeOK'
    <3>1. CASE StopJoinsProcess
      BY <2>0, <2>1, <3>1 DEF StopJoinsProcess, ResetQueue, TypeOK
    <3>2. CASE Start
      BY <2>0, <2>1, <3>2 DEF Start, ResetQueue, TypeOK, ProducerStates, ConsumerStates
    <3> QED BY <1>2, <3>1, <3>2
  <2>3. RingOrder'
    BY <1>2, <2>0 DEF StopJoinsProcess, Start, ResetQueue, RingOrder, Span
  <2>4. ProducerInv' /\ ConsumerInv' /\ ControlInv'
    BY <1>2 DEF StopJoinsProcess, Start, ResetQueue, ProducerInv, ConsumerInv,
         ControlInv
  <2>5. (Backlog <= maxObserved)' /\ PacketsAccounted'
    BY <1>2, <2>1 DEF StopJoinsProcess, Start, ResetQueue, PacketsAccounted, TypeOK
  <2> QED BY <2>2, <2>3, <2>4, <2>5
<1> QED BY <1>1, <1>2 DEF Controller

(* The invariant is inductive. *)
THEOREM QueueInvariant == Spec => []QueueInv
<1>1. QueueInv /\ UNCHANGED vars => QueueInv'
  BY DEF QueueInv, TypeOK, RingOrder, ProducerInv, ConsumerInv, ControlInv,
     PacketsAccounted, Span, Backlog, vars, ringVars, viewVars, receiverVars,
     decoderVars, flagVars
<1>2. QueueInv /\ [Next]_vars => QueueInv'
  BY <1>1, ReceiverStep, DecoderStep, ControllerStep DEF Next
<1> QED BY QueueInit, <1>2, PTL DEF Spec

(* Both indices always stay inside storage_ (bounded_spsc_queue.h:48, 63). *)
THEOREM QueueTypeCorrect == Spec => []TypeOK
<1>1. QueueInv => TypeOK
  BY DEF QueueInv
<1> QED BY <1>1, QueueInvariant, PTL

(* The live backlog never exceeds MaxDepth or the reported high watermark. *)
THEOREM QueueBacklogBounded == Spec => []BacklogBounded
<1>1. QueueInv => BacklogBounded
  BY BacklogSplits, QueueAssumption DEF QueueInv, BacklogBounded, RingOrder, TypeOK, Span
<1> QED BY <1>1, QueueInvariant, PTL

(* The slot being written is never the slot being read. *)
THEOREM QueueNoSlotRace == Spec => []NoSlotRace
<1>1. QueueInv => NoSlotRace
  BY HeldSlotIsNotFree DEF QueueInv, ConsumerInv, NoSlotRace
<1> QED BY <1>1, QueueInvariant, PTL

(* Every packet is popped, pending, discarded by a Stop or counted as a drop. *)
THEOREM QueuePacketsAccounted == Spec => []PacketsAccounted
<1>1. QueueInv => PacketsAccounted
  BY DEF QueueInv
<1> QED BY <1>1, QueueInvariant, PTL

-----------------------------------------------------------------------------
(* Refinement: the backlog, read from the ring, behaves as a FIFO queue. *)

(* The slots of the backlog are those from the read index on, and none of  *)
(* them is the slot the producer writes next.                              *)
LEMMA BacklogSlots ==
  ASSUME TypeOK, NEW i \in 1 .. Backlog
  PROVE  /\ Plus(readIndex, i - 1) \in Slots
         /\ Plus(readIndex, i - 1) # writeIndex
BY QueueAssumption DEF TypeOK, Backlog, Plus, distance, Slots

(* The slot after the last one of the backlog is the one being published. *)
LEMMA PublishedSlot ==
  ASSUME TypeOK
  PROVE  Plus(readIndex, Backlog) = writeIndex
BY QueueAssumption DEF TypeOK, Backlog, Plus, distance, Slots

(* Releasing a slot shifts the backlog by one. *)
LEMMA ReleasedSlot ==
  ASSUME TypeOK, NEW i \in 1 .. Backlog - 1
  PROVE  Plus(next(readIndex), i - 1) = Plus(readIndex, i)
BY QueueAssumption DEF TypeOK, Backlog, Plus, distance, Slots, next

(* The contents of the queue are a sequence of Backlog packets. *)
ContentsShape ==
  /\ Backlog \in Nat
  /\ Contents \in Seq(Packets \cup {NoPacket})
  /\ Len(Contents) = Backlog
  /\ \A i \in 1 .. Backlog : Contents[i] = storage[Plus(readIndex, i - 1)]

(* It follows from the types: every slot of the backlog holds a packet. *)
LEMMA ContentsType == TypeOK => ContentsShape
<1> SUFFICES ASSUME TypeOK PROVE ContentsShape
  OBVIOUS
<1>1. Backlog \in Nat
  BY DistanceType DEF TypeOK, Backlog
<1>2. \A i \in 1 .. Backlog : storage[Plus(readIndex, i - 1)] \in Packets \cup {NoPacket}
  BY BacklogSlots DEF TypeOK
<1> QED BY <1>1, <1>2 DEF Contents, ContentsShape

(* Two sequences of the same length with the same elements are equal. *)
LEMMA SameSequence ==
  ASSUME NEW S, NEW s \in Seq(S), NEW t \in Seq(S), Len(s) = Len(t),
         \A i \in 1 .. Len(s) : s[i] = t[i]
  PROVE  s = t
OBVIOUS

(* A write into the free slot leaves the backlog as it is. *)
LEMMA WriteKeepsContents ==
  ASSUME QueueInv, PushWrite
  PROVE  Contents' = Contents
<1>1. Backlog' = Backlog
  BY DEF PushWrite, Backlog
<1>2. ASSUME NEW i \in 1 .. Backlog
      PROVE  storage'[Plus(readIndex, i - 1)] = storage[Plus(readIndex, i - 1)]
  BY BacklogSlots DEF QueueInv, TypeOK, PushWrite
<1> QED BY <1>1, <1>2 DEF Contents, PushWrite

(* Publishing appends the packet that was written. *)
LEMMA PublishAppends ==
  ASSUME QueueInv, QueueInv', PushPublish
  PROVE  /\ packet # NoPacket
         /\ Len(Contents) < MaxDepth
         /\ Contents' = Append(Contents, packet)
<1>1. Span < MaxDepth /\ packet # NoPacket /\ storage[writeIndex] = packet
  BY DEF QueueInv, ProducerInv, PushPublish
<1>2. /\ Backlog <= Span
      /\ distance(readIndex, writeIndex) \in Nat
      /\ distance(producerRead, writeIndex) \in Nat
  BY BacklogSplits, DistanceType DEF QueueInv, TypeOK
<1>3. Backlog' = Backlog + 1
  BY <1>1, <1>2, NextWrite, QueueAssumption
     DEF QueueInv, TypeOK, PushPublish, Backlog, Span
<1>4. Contents \in Seq(Packets \cup {NoPacket}) /\ Len(Contents) = Backlog
        /\ \A i \in 1 .. Backlog : Contents[i] = storage[Plus(readIndex, i - 1)]
  BY ContentsType DEF QueueInv, ContentsShape
<1>5. Contents' \in Seq(Packets \cup {NoPacket}) /\ Len(Contents') = Backlog'
        /\ \A i \in 1 .. Backlog' : Contents'[i] = storage[Plus(readIndex, i - 1)]
  <2>1. TypeOK'
    BY DEF QueueInv
  <2>2. ContentsShape'
    BY <2>1, ContentsType, PTL
  <2> QED BY <2>2 DEF PushPublish, ContentsShape
<1>6. Append(Contents, packet) \in Seq(Packets \cup {NoPacket})
  BY <1>4 DEF QueueInv, TypeOK
<1>7. ASSUME NEW i \in 1 .. Backlog + 1
      PROVE  Contents'[i] = Append(Contents, packet)[i]
  BY <1>1, <1>2, <1>3, <1>4, <1>5, PublishedSlot DEF QueueInv, Backlog
<1>8. Contents' = Append(Contents, packet)
  BY <1>2, <1>3, <1>4, <1>5, <1>6, <1>7, SameSequence DEF Backlog
<1>9. Backlog < MaxDepth
  BY <1>1, <1>2, QueueAssumption DEF Backlog, Span
<1> QED BY <1>1, <1>4, <1>8, <1>9

(* Releasing hands out the oldest packet and removes it. *)
LEMMA ReleaseTakesHead ==
  ASSUME QueueInv, QueueInv', PopRelease
  PROVE  /\ Contents # << >>
         /\ taken' = Head(Contents)
         /\ Contents' = Tail(Contents)
<1>1. value = storage[readIndex] /\ readIndex # writeIndex
  BY HeldSlotIsNotFree DEF QueueInv, ConsumerInv, PopRelease
<1>2. Backlog \in Nat \ {0}
  BY <1>1, DistanceType, DistanceZero DEF QueueInv, TypeOK, Backlog
<1>3. Backlog' = Backlog - 1
  BY <1>1, NextRead DEF QueueInv, TypeOK, PopRelease, Backlog
<1>4. Contents \in Seq(Packets \cup {NoPacket}) /\ Len(Contents) = Backlog
        /\ \A i \in 1 .. Backlog : Contents[i] = storage[Plus(readIndex, i - 1)]
  BY ContentsType DEF QueueInv, ContentsShape
<1>5. Contents' \in Seq(Packets \cup {NoPacket}) /\ Len(Contents') = Backlog - 1
        /\ \A i \in 1 .. Backlog - 1 : Contents'[i] = storage[Plus(next(readIndex), i - 1)]
  <2>1. TypeOK'
    BY DEF QueueInv
  <2>2. ContentsShape'
    BY <2>1, ContentsType, PTL
  <2> QED BY <1>3, <2>2 DEF PopRelease, ContentsShape
<1>6. Plus(readIndex, 0) = readIndex
  BY QueueAssumption DEF QueueInv, TypeOK, Plus, Slots
<1>7. Contents # << >> /\ Head(Contents) = storage[readIndex]
  BY <1>2, <1>4, <1>6
<1>8. Tail(Contents) \in Seq(Packets \cup {NoPacket}) /\ Len(Tail(Contents)) = Backlog - 1
        /\ \A i \in 1 .. Backlog - 1 : Tail(Contents)[i] = Contents[i + 1]
  BY <1>2, <1>4
<1>9. ASSUME NEW i \in 1 .. Backlog - 1
      PROVE  Contents'[i] = Tail(Contents)[i]
  <2>1. Plus(next(readIndex), i - 1) = Plus(readIndex, i)
    BY ReleasedSlot DEF QueueInv
  <2>2. i + 1 \in 1 .. Backlog /\ (i + 1) - 1 = i
    BY <1>2
  <2> QED BY <1>4, <1>5, <1>8, <2>1, <2>2
<1>10. Contents' = Tail(Contents)
  BY <1>5, <1>8, <1>9, SameSequence
<1> QED BY <1>1, <1>7, <1>10 DEF PopRelease

(* A reset empties the backlog. *)
LEMMA ResetEmpties ==
  ASSUME ResetQueue
  PROVE  Contents' = << >>
<1>1. Backlog' = 0
  BY QueueAssumption DEF ResetQueue, Backlog, distance
<1> QED BY <1>1 DEF Contents

(* The packet queue with its threads implements the abstract FIFO queue.   *)
THEOREM QueueRefinesFifo == Spec => RefinesFifo
<1> USE DEF ringVars, viewVars, receiverVars, decoderVars, flagVars
<1>1. Init => Fifo!Init
  <2>1. ASSUME Init PROVE Backlog = 0
    BY <2>1 DEF Init, Backlog, distance
  <2>2. ASSUME Init PROVE Contents = << >>
    BY <2>1, <2>2 DEF Contents
  <2> QED BY <2>2 DEF Init, Fifo!Init
<1>2. ASSUME QueueInv, QueueInv', [Next]_vars
      PROVE  [Fifo!Next]_(Fifo!fifoVars)
  <2>1. CASE RecvPacket
    <3>1. packet = NoPacket /\ packet' \in Packets /\ UNCHANGED taken
      BY <1>2, <2>1, QueueAssumption DEF RecvPacket, QueueInv, ProducerInv, TypeOK, Packets
    <3>2. UNCHANGED Contents
      BY <2>1 DEF RecvPacket, Contents, Backlog
    <3> QED BY <3>1, <3>2 DEF Fifo!Next, Fifo!Offer
  <2>2. CASE PushLoad
    <3>1. UNCHANGED <<Contents, taken>>
      BY <2>2 DEF PushLoad, Contents, Backlog
    <3>2. packet # NoPacket /\ (packet' = NoPacket \/ UNCHANGED packet)
      BY <1>2, <2>2 DEF PushLoad, QueueInv, ProducerInv
    <3> QED BY <3>1, <3>2 DEF Fifo!Next, Fifo!Refuse, Fifo!fifoVars
  <2>3. CASE PushWrite
    BY <1>2, <2>3, WriteKeepsContents DEF PushWrite, Fifo!fifoVars
  <2>4. CASE PushPublish
    BY <1>2, <2>4, PublishAppends DEF PushPublish, Fifo!Next, Fifo!Enqueue
  <2>5. CASE PopRelease
    BY <1>2, <2>5, ReleaseTakesHead DEF PopRelease, Fifo!Next, Fifo!Dequeue
  <2>6. CASE StopJoinsProcess \/ Start
    <3>1. packet = NoPacket /\ UNCHANGED <<packet, taken>>
      BY <1>2, <2>6 DEF StopJoinsProcess, Start, QueueInv, ProducerInv, ControlInv
    <3>2. Contents' = << >>
      BY <2>6, ResetEmpties DEF StopJoinsProcess, Start
    <3> QED BY <3>1, <3>2 DEF Fifo!Next, Fifo!Discard
  <2>7. CASE RecvLoopTest \/ PcapEnds \/ RecvNothing \/ ProcessLoopTest
             \/ PopLoad \/ PopCopy \/ WorkDone \/ WorkReturns \/ StopClearsFlags \/ StopJoinsRecv
             \/ UNCHANGED vars
    BY <2>7 DEF RecvLoopTest, PcapEnds, RecvNothing, ProcessLoopTest, PopLoad,
         PopCopy, WorkDone, WorkReturns, StopClearsFlags, StopJoinsRecv, vars, Contents,
         Backlog, Fifo!fifoVars
  <2> QED BY <1>2, <2>1, <2>2, <2>3, <2>4, <2>5, <2>6, <2>7
          DEF Next, Receiver, Decoder, Controller
<1> QED BY QueueInvariant, <1>1, <1>2, PTL DEF Spec, RefinesFifo, Fifo!Spec
=============================================================================

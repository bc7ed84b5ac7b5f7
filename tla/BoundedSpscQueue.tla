-------------------------- MODULE BoundedSpscQueue --------------------------
(***************************************************************************)
(* The packet queue between RecvTask (or the pcap reader) and              *)
(* ProcessLiarPacket: BoundedSpscQueue<PandarPacket, 36000, 400> with the  *)
(* two threads that use it and the Start/Stop calls that create, join and  *)
(* reset them.                                                             *)
(*                                                                         *)
(* try_push and try_pop are split at every access another thread can see:  *)
(* the acquire load of the other side's index, the copy into or out of the *)
(* slot, and the release store of the own index.  An acquire load may      *)
(* return an old value of the index, but never one older than the thread   *)
(* has already seen; producerRead and consumerWrite are what each side saw *)
(* last.                                                                   *)
(***************************************************************************)
EXTENDS Naturals, Sequences

CONSTANTS
  StorageCapacity,  \* slots of storage_
  MaxDepth,         \* largest live backlog
  MaxPackets        \* bound: packets received over all runs of the threads

(* The static_asserts of the class template. *)
ASSUME QueueAssumption ==
  /\ StorageCapacity \in Nat
  /\ MaxDepth \in Nat
  /\ MaxPackets \in Nat
  /\ StorageCapacity > 1
  /\ MaxDepth > 0
  /\ MaxDepth < StorageCapacity

Slots == 0 .. StorageCapacity - 1

(* Packets are numbered in the order they are received. *)
Packets == 1 .. MaxPackets
NoPacket == 0

VARIABLES
  storage,        \* storage_: the slots
  readIndex,      \* read_index_: written by the consumer
  writeIndex,     \* write_index_: written by the producer
  producerRead,   \* the read index the producer last loaded
  consumerWrite,  \* the write index the consumer last loaded
  producer,       \* where the receiving thread is
  consumer,       \* where the decoding thread is
  packet,         \* RecvTask's pkt while it is being pushed
  value,          \* what the decoder's last copy read from a slot
  taken,          \* the packet try_pop last returned
  currentSize,    \* current_size of the try_push under way
  control,        \* how far a Start or Stop call has come
  recvEnabled,    \* enable_lidar_recv_thr_
  processEnabled, \* enable_lidar_process_thr_
  received,       \* packets getPacket has delivered
  drops,          \* m_queueOverloadDrops
  enqueued,       \* m_enqueuedPackets
  processed,      \* m_processedPackets
  maxObserved,    \* m_maxQueueDepthObserved
  discarded       \* history: packets thrown away by reset()

ringVars == <<storage, readIndex, writeIndex>>
viewVars == <<producerRead, consumerWrite>>
flagVars == <<control, recvEnabled, processEnabled>>
receiverVars == <<packet, currentSize, received, drops, enqueued, maxObserved>>
decoderVars == <<value, taken, processed>>
vars == <<ringVars, viewVars, producer, consumer, receiverVars, decoderVars,
          flagVars, discarded>>

-----------------------------------------------------------------------------
(* Index arithmetic. *)

next(index) ==
  IF index + 1 = StorageCapacity THEN 0 ELSE index + 1

distance(read, write) ==
  IF write >= read THEN write - read ELSE StorageCapacity - read + write

(* The slot n places after index. *)
Plus(index, n) ==
  IF index + n < StorageCapacity THEN index + n ELSE index + n - StorageCapacity

Backlog == distance(readIndex, writeIndex)

(* The values a load may return when `seen' was loaded before and `newest' *)
(* is the last value stored.                                               *)
Visible(seen, newest) ==
  {i \in Slots : distance(seen, i) <= distance(seen, newest)}

Full_OffByOne(size) == size > MaxDepth

Full(size) == size >= MaxDepth

Empty_KeepsOne(read, write) == distance(read, write) <= 1

Empty(read, write) == read = write

-----------------------------------------------------------------------------
(* The receiving thread: RecvTask, PushLiDARData and try_push. *)

RecvLoopTest_IgnoresFlag ==
  /\ producer = "loop"
  /\ producer' = "polling"
  /\ UNCHANGED <<ringVars, viewVars, consumer, receiverVars, decoderVars,
                 flagVars, discarded>>

RecvLoopTest ==
  /\ producer = "loop"
  /\ producer' = IF recvEnabled THEN "polling" ELSE "exited"
  /\ UNCHANGED <<ringVars, viewVars, consumer, receiverVars, decoderVars,
                 flagVars, discarded>>

(* The thread is the pcap reader's and the file has ended. *)
PcapEnds ==
  /\ producer = "loop"
  /\ producer' = "exited"
  /\ UNCHANGED <<ringVars, viewVars, consumer, receiverVars, decoderVars,
                 flagVars, discarded>>

(* getPacket timed out, or delivered a GPS packet: nothing is pushed. *)
RecvNothing ==
  /\ producer = "polling"
  /\ producer' = "loop"
  /\ UNCHANGED <<ringVars, viewVars, consumer, receiverVars, decoderVars,
                 flagVars, discarded>>

RecvPacket ==
  /\ producer = "polling"
  /\ received < MaxPackets
  /\ received' = received + 1
  /\ packet' = received + 1
  /\ producer' = "pushing"
  /\ UNCHANGED <<ringVars, viewVars, consumer, decoderVars, flagVars,
                 discarded, currentSize, drops, enqueued, maxObserved>>

(* The loads of try_push; a full queue ends the call and counts a drop. *)
PushLoad ==
  /\ producer = "pushing"
  /\ \E read \in Visible(producerRead, readIndex) :
       /\ producerRead' = read
       /\ currentSize' = distance(read, writeIndex)
       /\ IF Full(distance(read, writeIndex))
            THEN /\ producer' = "loop"
                 /\ drops' = drops + 1
                 /\ packet' = NoPacket
            ELSE /\ producer' = "writing"
                 /\ UNCHANGED <<drops, packet>>
  /\ UNCHANGED <<ringVars, consumerWrite, consumer, decoderVars, flagVars,
                 discarded, received, enqueued, maxObserved>>

PushWrite_Skipped ==
  /\ producer = "writing"
  /\ producer' = "publishing"
  /\ UNCHANGED <<ringVars, viewVars, consumer, receiverVars, decoderVars,
                 flagVars, discarded>>

PushWrite ==
  /\ producer = "writing"
  /\ storage' = [storage EXCEPT ![writeIndex] = packet]
  /\ producer' = "publishing"
  /\ UNCHANGED <<readIndex, writeIndex, viewVars, consumer, receiverVars,
                 decoderVars, flagVars, discarded>>

PushPublish ==
  /\ producer = "publishing"
  /\ writeIndex' = next(writeIndex)
  /\ enqueued' = enqueued + 1
  /\ maxObserved' = IF currentSize + 1 > maxObserved
                      THEN currentSize + 1 ELSE maxObserved
  /\ packet' = NoPacket
  /\ producer' = "loop"
  /\ UNCHANGED <<storage, readIndex, viewVars, consumer, decoderVars, flagVars,
                 discarded, currentSize, received, drops>>

-----------------------------------------------------------------------------
(* The decoding thread: the loop of ProcessLiarPacket and try_pop. *)

ProcessLoopTest ==
  /\ consumer = "loop"
  /\ consumer' = IF processEnabled THEN "popping" ELSE "exited"
  /\ UNCHANGED <<ringVars, viewVars, producer, receiverVars, decoderVars,
                 flagVars, discarded>>

(* The loads of try_pop; an empty queue ends the call. *)
PopLoad ==
  /\ consumer = "popping"
  /\ \E write \in Visible(consumerWrite, writeIndex) :
       /\ consumerWrite' = write
       /\ consumer' = IF Empty(readIndex, write) THEN "loop" ELSE "copying"
  /\ UNCHANGED <<ringVars, producerRead, producer, receiverVars, decoderVars,
                 flagVars, discarded>>

PopCopy ==
  /\ consumer = "copying"
  /\ value' = storage[readIndex]
  /\ consumer' = "releasing"
  /\ UNCHANGED <<ringVars, viewVars, producer, receiverVars, taken, processed,
                 flagVars, discarded>>

PopRelease ==
  /\ consumer = "releasing"
  /\ readIndex' = next(readIndex)
  /\ taken' = value
  /\ processed' = processed + 1
  /\ consumer' = "working"
  /\ UNCHANGED <<storage, writeIndex, viewVars, producer, receiverVars, value,
                 flagVars, discarded>>

(* The packet is decoded or rejected and the loop goes on. *)
WorkDone ==
  /\ consumer = "working"
  /\ consumer' = "loop"
  /\ UNCHANGED <<ringVars, viewVars, producer, receiverVars, decoderVars,
                 flagVars, discarded>>

(* A failed transform lookup returns from ProcessLiarPacket for good. *)
WorkReturns ==
  /\ consumer = "working"
  /\ consumer' = "exited"
  /\ UNCHANGED <<ringVars, viewVars, producer, receiverVars, decoderVars,
                 flagVars, discarded>>

-----------------------------------------------------------------------------
(* Start and Stop. *)

(* reset(): the new threads are created after it, so they see its stores. *)
ResetQueue ==
  /\ readIndex' = 0
  /\ writeIndex' = 0
  /\ producerRead' = 0
  /\ consumerWrite' = 0
  /\ discarded' = discarded + Backlog

StopClearsFlags ==
  /\ control = "running"
  /\ recvEnabled' = FALSE
  /\ processEnabled' = FALSE
  /\ control' = "joinRecv"
  /\ UNCHANGED <<ringVars, viewVars, producer, consumer, receiverVars,
                 decoderVars, discarded>>

(* lidar_recv_thr_->join(), or pcap_reader_->stop() joining its thread. *)
StopJoinsRecv ==
  /\ control = "joinRecv"
  /\ producer = "exited"
  /\ control' = "joinProcess"
  /\ UNCHANGED <<ringVars, viewVars, producer, consumer, receiverVars,
                 decoderVars, recvEnabled, processEnabled, discarded>>

StopJoinsProcess_NoJoin ==
  /\ control = "joinProcess"
  /\ ResetQueue
  /\ control' = "stopped"
  /\ UNCHANGED <<storage, producer, consumer, receiverVars, decoderVars,
                 recvEnabled, processEnabled>>

StopJoinsProcess ==
  /\ control = "joinProcess"
  /\ consumer = "exited"
  /\ ResetQueue
  /\ control' = "stopped"
  /\ UNCHANGED <<storage, producer, consumer, receiverVars, decoderVars,
                 recvEnabled, processEnabled>>

(* Start with no thread alive: the Stop it begins with only resets again.  *)
(* The decoder starts "working": its first lookup may already end it.      *)
Start ==
  /\ control = "stopped"
  /\ ResetQueue
  /\ recvEnabled' = TRUE
  /\ processEnabled' = TRUE
  /\ producer' = "loop"
  /\ consumer' = "working"
  /\ control' = "running"
  /\ UNCHANGED <<storage, receiverVars, decoderVars>>

-----------------------------------------------------------------------------
Init ==
  /\ storage = [i \in Slots |-> NoPacket]
  /\ readIndex = 0
  /\ writeIndex = 0
  /\ producerRead = 0
  /\ consumerWrite = 0
  /\ producer = "exited"
  /\ consumer = "exited"
  /\ packet = NoPacket
  /\ value = NoPacket
  /\ taken = NoPacket
  /\ currentSize = 0
  /\ control = "stopped"
  /\ recvEnabled = FALSE
  /\ processEnabled = FALSE
  /\ received = 0
  /\ drops = 0
  /\ enqueued = 0
  /\ processed = 0
  /\ maxObserved = 0
  /\ discarded = 0

Receiver == RecvLoopTest \/ PcapEnds \/ RecvNothing \/ RecvPacket
            \/ PushLoad \/ PushWrite \/ PushPublish

Decoder == ProcessLoopTest \/ PopLoad \/ PopCopy \/ PopRelease
           \/ WorkDone \/ WorkReturns

Controller == StopClearsFlags \/ StopJoinsRecv \/ StopJoinsProcess \/ Start

Next == Receiver \/ Decoder \/ Controller

Spec == Init /\ [][Next]_vars

(* Each thread keeps running, and a Stop under way proceeds as soon as the *)
(* thread it joins has exited.  An atomic store becomes visible to loads   *)
(* in finite time, so a consumer that keeps loading cannot be given stale  *)
(* values for ever: strong fairness, because it loads only now and then.   *)
(* Nothing obliges anyone to call Start or Stop, or the sensor to send.    *)
PopLoadsNewest == PopLoad /\ consumerWrite' = writeIndex

FairSpec ==
  /\ Spec
  /\ WF_vars(RecvLoopTest)
  /\ WF_vars(RecvNothing \/ RecvPacket)
  /\ WF_vars(PushLoad \/ PushWrite \/ PushPublish)
  /\ WF_vars(ProcessLoopTest)
  /\ WF_vars(PopLoad)
  /\ SF_vars(PopLoadsNewest)
  /\ WF_vars(PopCopy \/ PopRelease)
  /\ WF_vars(WorkDone \/ WorkReturns)
  /\ WF_vars(StopJoinsRecv \/ StopJoinsProcess)

-----------------------------------------------------------------------------
ProducerStates == {"loop", "polling", "pushing", "writing", "publishing", "exited"}
ConsumerStates == {"loop", "popping", "copying", "releasing", "working", "exited"}

(* Every variable stays in its range: in particular both indices stay      *)
(* inside storage_, which try_push and try_pop index without a check.      *)
TypeOK ==
  /\ storage \in [Slots -> Packets \cup {NoPacket}]
  /\ readIndex \in Slots
  /\ writeIndex \in Slots
  /\ producerRead \in Slots
  /\ consumerWrite \in Slots
  /\ producer \in ProducerStates
  /\ consumer \in ConsumerStates
  /\ packet \in Packets \cup {NoPacket}
  /\ value \in Packets \cup {NoPacket}
  /\ taken \in Packets \cup {NoPacket}
  /\ currentSize \in 0 .. MaxDepth
  /\ control \in {"running", "joinRecv", "joinProcess", "stopped"}
  /\ recvEnabled \in BOOLEAN
  /\ processEnabled \in BOOLEAN
  /\ received \in 0 .. MaxPackets
  /\ drops \in Nat
  /\ enqueued \in Nat
  /\ processed \in Nat
  /\ maxObserved \in 0 .. MaxDepth
  /\ discarded \in Nat

(* The live backlog never exceeds MaxDepth, however stale the producer's   *)
(* view of the read index is (bounded_spsc_queue.h:24-26), and the high    *)
(* watermark PushLiDARData reports is never below it.                      *)
BacklogBounded ==
  /\ Backlog <= MaxDepth
  /\ Backlog <= maxObserved

(* The producer never copies a packet into the slot the consumer is        *)
(* copying out of: the two non-atomic accesses to storage_ never race.     *)
NoSlotRace ==
  ~ /\ producer = "writing"
    /\ consumer = "copying"
    /\ writeIndex = readIndex

(* No packet is lost without being counted: every packet received was      *)
(* dropped by a full queue, is being pushed, or was enqueued, and every    *)
(* enqueued packet was popped, is in the backlog, or was discarded by a    *)
(* Stop.                                                                   *)
PacketsAccounted ==
  /\ received = drops + enqueued + (IF packet = NoPacket THEN 0 ELSE 1)
  /\ enqueued = processed + Backlog + discarded

(* The backlog as a sequence, oldest packet first. *)
Contents == [i \in 1 .. Backlog |-> storage[Plus(readIndex, i - 1)]]

(* The queue with its interleaved, stale-reading threads implements a FIFO *)
(* queue: packets come out once, in the order they went in, uncorrupted.   *)
Fifo == INSTANCE FifoQueue WITH
          Packets <- Packets, NoPacket <- NoPacket, MaxDepth <- MaxDepth,
          offered <- packet, queue <- Contents, taken <- taken

RefinesFifo == Fifo!Spec

(* A Stop in progress finishes: both loops notice their flag. *)
StopCompletes == (control = "joinRecv") ~> (control = "stopped")

(* While the threads run, every packet in the backlog is eventually taken  *)
(* by the decoder, unless the decoder has returned or Stop is called.      *)
BacklogServed ==
  \A p \in Packets :
    (\E i \in 1 .. Backlog : Contents[i] = p)
      ~> (taken = p \/ consumer = "exited" \/ control # "running")

=============================================================================

------------------------ MODULE DriverPipelineProofs ------------------------
(***************************************************************************)
(* The cloud filter drops nothing that the packet filters let through, for *)
(* every tolerance and idle period, in host time whatever the clock does   *)
(* and in sensor time whatever a network does that reorders by less than   *)
(* half the range of the sequence counter.                                 *)
(***************************************************************************)
EXTENDS DriverPipeline, TLAPS

AllPublished == \A c \in clouds : c.published

(* In host time the cloud filter lags the packet filter, and the frame's   *)
(* stamp is within the tolerance of both.                                  *)
HostInv ==
  timestampType = "realtime" =>
    /\ cloudGuard.initialized =>
         packetGuard.initialized /\ cloudGuard.last <= packetGuard.last
    /\ ~frame.empty =>
         /\ packetGuard.initialized
         /\ frame.stamp <= packetGuard.last
         /\ cloudGuard.initialized => cloudGuard.last - frame.stamp <= Tolerance
    /\ AllPublished

(* A sensor's times go on from packet to packet. *)
SentInv ==
  /\ \A i \in 1 .. Len(sent) : sent[i] <= sensorClock
  /\ \A i, j \in 1 .. Len(sent) : i <= j => sent[i] <= sent[j]

(* In sensor time, before any reboot, all that is remembered of the past   *)
(* is no later than the packet the tracker has as its baseline.            *)
Orderly == xt /\ boots = 0 /\ restarts = 0 /\ timestampType = ""

BaselineTime == sent[tracker.lastSequence]

SensorInv ==
  Orderly =>
    /\ tracker.initialized => tracker.lastSequence \in 1 .. Len(sent)
    /\ ~frame.empty => tracker.initialized /\ frame.stamp <= BaselineTime
    /\ cloudGuard.initialized => tracker.initialized /\ cloudGuard.last <= BaselineTime
    /\ ~frame.empty /\ cloudGuard.initialized => cloudGuard.last <= frame.stamp
    /\ AllPublished

PipelineInv == TypeOK /\ HostInv /\ SentInv /\ SensorInv

Guards == [initialized : BOOLEAN, last : Times]

-----------------------------------------------------------------------------
(* What a guard does with a time. *)
LEMMA GuardStep ==
  ASSUME NEW guard \in Guards, NEW t \in Times
  PROVE  /\ GuardNext(guard, t) \in Guards
         /\ GuardAccepts(guard, t) <=> ~guard.initialized \/ guard.last - t <= Tolerance
         /\ GuardAccepts(guard, t) =>
              /\ GuardNext(guard, t).initialized
              /\ t <= GuardNext(guard, t).last
              /\ ~guard.initialized => GuardNext(guard, t).last = t
              /\ guard.initialized => GuardNext(guard, t).last = Advance(guard.last, t)
         /\ ~GuardAccepts(guard, t) => GuardNext(guard, t) = guard
<1>1. isfinite(t) /\ guard.last \in Int /\ t \in Int
  BY GuardAssumption DEF isfinite, Guards, Times
<1>2. CASE ~guard.initialized
  <2>1. GuardStatus(guard, t) = "first"
    BY <1>1, <1>2 DEF GuardStatus
  <2> QED BY <1>1, <1>2, <2>1 DEF GuardAccepts, GuardNext, Guards
<1>3. CASE guard.initialized /\ guard.last - t > Tolerance
  <2>1. GuardStatus(guard, t) = "regression"
    BY <1>1, <1>3 DEF GuardStatus, TooOld
  <2> QED BY <1>1, <1>3, <2>1, GuardAssumption DEF GuardAccepts, GuardNext, Guards
<1>4. CASE guard.initialized /\ ~(guard.last - t > Tolerance)
  <2>1. GuardStatus(guard, t) = "accepted"
    BY <1>1, <1>4 DEF GuardStatus, TooOld
  <2>2. GuardNext(guard, t) = [guard EXCEPT !.last = Advance(guard.last, t)]
    BY <2>1 DEF GuardNext
  <2>3. GuardNext(guard, t) \in Guards /\ GuardNext(guard, t).initialized
        /\ GuardNext(guard, t).last = Advance(guard.last, t)
    BY <1>1, <1>4, <2>2 DEF Guards, Advance
  <2> QED BY <1>1, <1>4, <2>1, <2>3, GuardAssumption DEF GuardAccepts, Advance
<1> QED BY <1>2, <1>3, <1>4, GuardAssumption DEF Guards

(* A packet in flight has been sent. *)
LEMMA InFlightSent ==
  ASSUME TypeOK, NEW n \in InFlight
  PROVE  n \in 1 .. Len(sent) /\ sent[n] \in Times /\ PointStamp(n) \in Times
         /\ n \in SeqNumbers
<1>1. Len(sent) \in Nat /\ sent \in Seq(Times) /\ Len(sent) <= MaxSent /\ clock \in Times
  BY DEF TypeOK
<1>2. n \in 1 .. Len(sent)
  BY DEF InFlight
<1>3. sent[n] \in Times
  BY <1>1, <1>2
<1>4. MaxSent \in Nat /\ SeqModulus \in Nat /\ MaxSent < SeqModulus
  BY PipelineAssumption, DefenseAssumption
<1>5. n \in SeqNumbers
  BY <1>1, <1>2, <1>4 DEF SeqNumbers
<1> QED BY <1>1, <1>2, <1>3, <1>5 DEF PointStamp

(* A step of the block loop either adds to the frame or hands it over. *)
LEMMA FrameStep ==
  ASSUME TypeOK, NEW n \in InFlight, NEW shape \in Shapes, AssembleBlocks(n, shape),
         recovered' \in BOOLEAN
  PROVE  /\ frame' \in [stamp : Times, recovered : BOOLEAN, empty : BOOLEAN]
         /\ \/ /\ cloudGuard' = cloudGuard
               /\ clouds' = clouds
               /\ \/ frame' = frame
                  \/ frame.empty /\ ~frame'.empty /\ frame'.stamp = PointStamp(n)
            \/ \E t \in Times, r \in BOOLEAN :
                 /\ \/ ~frame.empty /\ t = frame.stamp
                    \/ frame.empty /\ t = PointStamp(n)
                 /\ cloudGuard' = GuardNext(cloudGuard, t)
                 /\ clouds' = clouds \cup {[published |-> GuardAccepts(cloudGuard, t),
                                            recovered |-> r]}
                 /\ frame'.empty \/ frame'.stamp = PointStamp(n)
<1> DEFINE Frames == [stamp : Times, recovered : BOOLEAN, empty : BOOLEAN]
           full == AddPoints(frame, shape.before, n)
           split == shape.start /\ ~full.empty
<1>1. PointStamp(n) \in Times /\ frame \in Frames
  BY InFlightSent DEF TypeOK
<1>2. full \in Frames
      /\ (full = frame \/ (frame.empty /\ ~full.empty /\ full.stamp = PointStamp(n)))
  <2>1. CASE shape.before /\ frame.empty
    BY <1>1, <2>1 DEF AddPoints
  <2>2. CASE ~(shape.before /\ frame.empty)
    BY <1>1, <2>2 DEF AddPoints
  <2> QED BY <2>1, <2>2
<1>3. NoPoints \in Frames /\ NoPoints.empty
  <2>1. 0 \in Times
    <3>1. MaxTime \in Nat
      BY PipelineAssumption
    <3> QED BY <3>1 DEF Times
  <2> QED BY <2>1 DEF NoPoints
<1>4. CASE split
  <2>1. frame' = AddPoints(NoPoints, shape.after, n) /\ HandOver(full)
    BY <1>4 DEF AssembleBlocks
  <2>2. frame' \in Frames /\ (frame'.empty \/ frame'.stamp = PointStamp(n))
    BY <1>1, <1>3, <2>1 DEF AddPoints
  <2>3. full.stamp \in Times /\ full.recovered \in BOOLEAN
        /\ ((~frame.empty /\ full.stamp = frame.stamp)
             \/ (frame.empty /\ full.stamp = PointStamp(n)))
    BY <1>1, <1>2, <1>4
  <2> QED BY <2>1, <2>2, <2>3 DEF HandOver
<1>5. CASE ~split
  <2>1. frame' = AddPoints(full, shape.after, n) /\ cloudGuard' = cloudGuard
        /\ clouds' = clouds
    BY <1>5 DEF AssembleBlocks
  <2>2. frame' \in Frames
        /\ (frame' = full
             \/ (full.empty /\ ~frame'.empty /\ frame'.stamp = PointStamp(n)))
    BY <1>1, <1>2, <2>1 DEF AddPoints
  <2> QED BY <1>1, <1>2, <2>1, <2>2
<1> QED BY <1>4, <1>5

(* A packet the tracker takes in order was sent after the baseline. *)
LEMMA AcceptedIsLater ==
  ASSUME TypeOK, NEW n \in InFlight, tracker.initialized,
         tracker.lastSequence \in 1 .. Len(sent),
         SequenceAccepts(tracker, n, clock),
         SequenceStatus(tracker, n, clock) # "restartAfterIdle"
  PROVE  n > tracker.lastSequence
<1>1. n \in 1 .. Len(sent) /\ n + Reordering >= Len(sent) /\ Len(sent) \in Nat
  BY DEF InFlight, TypeOK
<1>2. Reordering \in Nat /\ SeqModulus \in Nat /\ 2 * Reordering < SeqModulus
  BY PipelineAssumption, DefenseAssumption
<1> DEFINE delta == Delta(n, tracker.lastSequence)
<1>3. delta # 0 /\ Forward(delta)
  BY DEF SequenceAccepts, SequenceStatus
<1>4. SUFFICES ASSUME n < tracker.lastSequence PROVE FALSE
  <2>1. n # tracker.lastSequence
    BY <1>1, <1>3 DEF Delta
  <2> QED BY <1>1, <1>4, <2>1
<1>5. delta = n - tracker.lastSequence + SeqModulus
  BY <1>1, <1>4 DEF Delta
<1>6. 2 * (n - tracker.lastSequence + SeqModulus) < SeqModulus
  BY <1>3, <1>5 DEF Forward
<1> QED BY <1>1, <1>2, <1>4, <1>6

-----------------------------------------------------------------------------
(* What a packet that is decoded does to the two filters and the history. *)
LEMMA DecodedType ==
  ASSUME TypeOK, NEW n \in InFlight, NEW shape \in Shapes, Decoded(n, shape)
  PROVE  /\ recovered' \in BOOLEAN
         /\ restarts' \in Nat /\ restarts <= restarts'
         /\ tracker' \in [initialized : BOOLEAN, lastSequence : SeqNumbers,
                          lastObserved : Times]
BY InFlightSent DEF Decoded, TypeOK, TrackerNext

(* The bounds are numbers. *)
LEMMA BoundsType ==
  /\ MaxSent \in Nat /\ MaxTime \in Nat /\ MaxSteps \in Nat
  /\ MaxBoots \in Nat /\ MaxArrivals \in Nat
BY PipelineAssumption

(* Init and every step keep the variables in their ranges. *)
LEMMA TypeStep ==
  ASSUME TypeOK, [Next]_vars
  PROVE  TypeOK'
<1> USE BoundsType
<1>1. CASE Send
  <2>1. sent' \in Seq(Times) /\ Len(sent') = Len(sent) + 1 /\ Len(sent) \in Nat
    BY <1>1 DEF Send, TypeOK
  <2>2. Len(sent') <= MaxSent
    BY <1>1, <2>1 DEF Send
  <2> QED BY <1>1, <2>1, <2>2
        DEF Send, TypeOK, hostVars, filterVars, cloudVars
<1>2. CASE Reboot
  <2>1. sent' \in Seq(Times) /\ Len(sent') <= MaxSent /\ sensorClock' \in Times
        /\ boots' \in 0 .. MaxBoots
    BY <1>2 DEF Reboot, TypeOK, Times
  <2> QED BY <1>2, <2>1 DEF Reboot, TypeOK, hostVars, filterVars
<1>3. CASE Tick
  <2>1. clock' \in Times /\ sensorClock' \in Times
    BY <1>3 DEF Tick, TypeOK, Times
  <2> QED BY <1>3, <2>1 DEF Tick, TypeOK, filterVars, cloudVars
<1>4. CASE ClockStep
  <2>1. clock' \in Times /\ steps' \in 0 .. MaxSteps
    BY <1>4 DEF ClockStep, TypeOK, Times
  <2> QED BY <1>4, <2>1 DEF ClockStep, TypeOK, sensorVars, filterVars, cloudVars
<1>5. CASE Arrive
  <2>1. arrivals' \in 0 .. MaxArrivals
    BY <1>5 DEF Arrive, TypeOK
  <2>2. UNCHANGED <<timestampType, xt, sent, boots, sensorClock, clock, steps>>
    BY <1>5 DEF Arrive, sensorVars, hostVars
  <2>3. packetGuard \in Guards /\ clock \in Times /\ GuardNext(packetGuard, clock) \in Guards
    BY GuardStep DEF TypeOK, Guards
  <2>4. PICK n \in InFlight : \/ Stale \/ Malformed \/ OutOfSequence(n)
                             \/ \E shape \in Shapes : Decoded(n, shape)
    BY <1>5 DEF Arrive
  <2>5. CASE Stale
    BY <2>1, <2>2, <2>5 DEF Stale, TypeOK, filterVars, cloudVars
  <2>6. CASE Malformed
    BY <2>1, <2>2, <2>3, <2>6 DEF Malformed, TypeOK, cloudVars, Guards
  <2>7. CASE OutOfSequence(n)
    <3>1. tracker' \in [initialized : BOOLEAN, lastSequence : SeqNumbers,
                        lastObserved : Times]
      BY <2>3, <2>7, InFlightSent DEF OutOfSequence, TypeOK, TrackerNext
    <3> QED BY <2>1, <2>2, <2>3, <2>7, <3>1 DEF OutOfSequence, TypeOK, cloudVars, Guards
  <2>8. ASSUME NEW shape \in Shapes, Decoded(n, shape)
        PROVE  TypeOK'
    <3>1. /\ recovered' \in BOOLEAN
          /\ restarts' \in Nat
          /\ tracker' \in [initialized : BOOLEAN, lastSequence : SeqNumbers,
                           lastObserved : Times]
      BY <2>8, DecodedType
    <3>2. AssembleBlocks(n, shape) /\ packetGuard' \in Guards
      BY <2>3, <2>8 DEF Decoded
    <3>3. cloudGuard \in Guards /\ clouds \subseteq Clouds
      BY DEF TypeOK, Guards
    <3>4. \A t \in Times : GuardAccepts(cloudGuard, t) \in BOOLEAN
      BY DEF GuardAccepts
    <3>5. frame' \in [stamp : Times, recovered : BOOLEAN, empty : BOOLEAN]
          /\ cloudGuard' \in Guards /\ clouds' \subseteq Clouds
      BY <3>1, <3>2, <3>3, <3>4, FrameStep, GuardStep DEF Clouds
    <3> QED BY <2>1, <2>2, <3>1, <3>2, <3>5 DEF TypeOK, Guards
  <2> QED BY <2>4, <2>5, <2>6, <2>7, <2>8
<1>6. CASE UNCHANGED vars
  BY <1>6 DEF vars, TypeOK, sensorVars, hostVars, filterVars, cloudVars
<1> QED BY <1>1, <1>2, <1>3, <1>4, <1>5, <1>6 DEF Next

(* A sensor's times only go on, until it boots again. *)
LEMMA SentStep ==
  ASSUME TypeOK, SentInv, [Next]_vars
  PROVE  SentInv'
<1>1. sent \in Seq(Times) /\ Len(sent) \in Nat /\ sensorClock \in Int
  BY DEF TypeOK, Times
<1>2. \A i \in 1 .. Len(sent) : sent[i] \in Int
  <2>1. \A i \in 1 .. Len(sent) : sent[i] \in Times
    BY <1>1
  <2> QED BY <2>1 DEF Times
<1>3. CASE Send
  <2>1. Len(sent') = Len(sent) + 1 /\ sent'[Len(sent) + 1] = sensorClock
        /\ \A i \in 1 .. Len(sent) : sent'[i] = sent[i]
    BY <1>1, <1>3 DEF Send
  <2>2. sensorClock' = sensorClock
    BY <1>3 DEF Send
  <2> QED BY <1>1, <1>2, <2>1, <2>2 DEF SentInv
<1>4. CASE Reboot
  BY <1>4 DEF Reboot, SentInv
<1>5. CASE Tick
  BY <1>1, <1>2, <1>5 DEF Tick, SentInv
<1>6. CASE UNCHANGED <<sent, sensorClock>>
  BY <1>6 DEF SentInv
<1> QED BY <1>3, <1>4, <1>5, <1>6 DEF Next, ClockStep, Arrive, vars, sensorVars

(* The host's reception times: the argument for CloudFilterRedundant. *)
LEMMA HostStep ==
  ASSUME TypeOK, HostInv, [Next]_vars
  PROVE  HostInv'
<1>1. SUFFICES ASSUME timestampType = "realtime", timestampType' = "realtime"
               PROVE  HostInv'
  <2>1. timestampType' = timestampType
    BY DEF Next, Send, Reboot, Tick, ClockStep, Arrive, vars
  <2> QED BY <1>1, <2>1 DEF HostInv
<1>2. packetGuard \in Guards /\ cloudGuard \in Guards /\ clock \in Times
  BY DEF TypeOK, Guards
<1>3. CASE UNCHANGED <<packetGuard, frame, cloudGuard, clouds>>
  BY <1>1, <1>3 DEF HostInv, AllPublished
<1>4. CASE Arrive
  <2>1. PICK n \in InFlight : \/ Stale \/ Malformed \/ OutOfSequence(n)
                             \/ \E shape \in Shapes : Decoded(n, shape)
    BY <1>4 DEF Arrive
  <2>2. CASE Stale
    BY <1>3, <2>2 DEF Stale, filterVars, cloudVars
  <2> DEFINE Passed == GuardAccepts(packetGuard, clock)
                       /\ packetGuard' = GuardNext(packetGuard, clock)
  <2>3. ASSUME Passed
        PROVE  /\ packetGuard'.initialized
               /\ packetGuard'.last \in Int
               /\ clock <= packetGuard'.last
               /\ packetGuard'.last - clock <= Tolerance
               /\ packetGuard.initialized => packetGuard.last <= packetGuard'.last
    <3>1. packetGuard.last \in Int /\ clock \in Int /\ Tolerance \in Nat
      BY <1>2, GuardAssumption DEF Guards, Times
    <3> QED BY <1>2, <2>3, <3>1, GuardStep DEF Advance
  <2>4. CASE (Malformed \/ OutOfSequence(n))
    <3>1. Passed /\ UNCHANGED <<frame, cloudGuard, clouds>>
      BY <2>4 DEF Malformed, OutOfSequence, cloudVars
    <3>2. packetGuard.last \in Int /\ cloudGuard.last \in Int /\ frame.stamp \in Int
      BY DEF TypeOK, Times
    <3> QED BY <1>1, <2>3, <3>1, <3>2 DEF HostInv, AllPublished
  <2>5. ASSUME NEW shape \in Shapes, Decoded(n, shape)
        PROVE  HostInv'
    <3>1. Passed /\ AssembleBlocks(n, shape) /\ recovered' \in BOOLEAN
      BY <2>5, DecodedType DEF Decoded
    <3>2. PointStamp(n) = clock
      BY <1>1 DEF PointStamp
    <3>3. /\ packetGuard.last \in Int /\ cloudGuard.last \in Int
          /\ frame.stamp \in Int /\ clock \in Int /\ Tolerance \in Nat
      BY GuardAssumption DEF TypeOK, Times
    <3>4. CASE /\ cloudGuard' = cloudGuard
               /\ clouds' = clouds
               /\ \/ frame' = frame
                  \/ frame.empty /\ ~frame'.empty /\ frame'.stamp = PointStamp(n)
      BY <1>1, <2>3, <3>1, <3>2, <3>3, <3>4 DEF HostInv, AllPublished
    <3>5. ASSUME NEW t \in Times, NEW r \in BOOLEAN,
                 \/ ~frame.empty /\ t = frame.stamp
                 \/ frame.empty /\ t = PointStamp(n),
                 cloudGuard' = GuardNext(cloudGuard, t),
                 clouds' = clouds \cup {[published |-> GuardAccepts(cloudGuard, t),
                                         recovered |-> r]},
                 frame'.empty \/ frame'.stamp = PointStamp(n)
          PROVE  HostInv'
      <4>1. t \in Int /\ t <= packetGuard'.last
            /\ (cloudGuard.initialized => cloudGuard.last - t <= Tolerance)
        BY <1>1, <2>3, <3>1, <3>2, <3>3, <3>5 DEF HostInv, Times
      <4>2. GuardAccepts(cloudGuard, t)
        BY <1>2, <4>1, GuardStep
      <4>3. /\ cloudGuard'.initialized
            /\ cloudGuard'.last \in Int
            /\ cloudGuard'.last <= packetGuard'.last
        <5>1. CASE cloudGuard.initialized
          <6>1. cloudGuard'.initialized /\ cloudGuard'.last = Advance(cloudGuard.last, t)
            BY <1>2, <3>5, <4>2, <5>1, GuardStep
          <6>2. cloudGuard.last <= packetGuard'.last
            BY <1>1, <2>3, <3>1, <3>3, <5>1 DEF HostInv
          <6> QED BY <3>3, <4>1, <6>1, <6>2 DEF Advance
        <5>2. CASE ~cloudGuard.initialized
          BY <1>2, <3>5, <4>1, <4>2, <5>2, GuardStep
        <5> QED BY <5>1, <5>2
      <4>4. AllPublished'
        <5>1. AllPublished
          BY <1>1 DEF HostInv
        <5> QED BY <3>5, <4>2, <5>1 DEF AllPublished
      <4>5. ~frame'.empty => frame'.stamp = clock
        BY <3>2, <3>5
      <4> QED BY <2>3, <3>1, <3>3, <4>3, <4>4, <4>5 DEF HostInv
    <3> QED BY <3>1, <3>4, <3>5, FrameStep
  <2> QED BY <2>1, <2>2, <2>4, <2>5
<1> QED BY <1>3, <1>4 DEF Next, Send, Reboot, Tick, ClockStep, vars, filterVars, cloudVars

(* The sensor's times: the argument for ReorderingCostsNoCloud. *)
LEMMA SensorStep ==
  ASSUME TypeOK, SentInv, SensorInv, [Next]_vars
  PROVE  SensorInv'
<1>1. SUFFICES ASSUME Orderly, Orderly'
               PROVE  SensorInv'
  <2>1. boots \in Nat /\ restarts \in Nat
    BY BoundsType DEF TypeOK
  <2>2. ASSUME Arrive PROVE restarts' \in Nat /\ restarts <= restarts'
    <3>1. PICK n \in InFlight : \/ Stale \/ Malformed \/ OutOfSequence(n)
                               \/ \E shape \in Shapes : Decoded(n, shape)
      BY <2>2 DEF Arrive
    <3>2. CASE (Stale \/ Malformed \/ OutOfSequence(n))
      BY <2>1, <3>2 DEF Stale, Malformed, OutOfSequence, filterVars
    <3>3. CASE \E shape \in Shapes : Decoded(n, shape)
      BY <3>3, DecodedType
    <3> QED BY <3>1, <3>2, <3>3
  <2>3. Orderly' => Orderly
    <3>1. CASE Arrive
      <4>1. restarts' = 0 => restarts = 0
        BY <2>1, <2>2, <3>1
      <4>2. UNCHANGED <<timestampType, xt, boots>>
        BY <3>1 DEF Arrive, sensorVars
      <4> QED BY <4>1, <4>2 DEF Orderly
    <3>2. CASE Reboot
      <4>1. boots' # 0
        BY <2>1, <3>2 DEF Reboot
      <4> QED BY <4>1 DEF Orderly
    <3>3. CASE UNCHANGED <<timestampType, xt, boots, restarts>>
      BY <3>3 DEF Orderly
    <3> QED BY <3>1, <3>2, <3>3
          DEF Next, Send, Tick, ClockStep, vars, sensorVars, filterVars
  <2> QED BY <1>1, <2>3 DEF SensorInv
<1>2. /\ tracker.lastSequence \in Int /\ cloudGuard.last \in Int /\ frame.stamp \in Int
      /\ cloudGuard \in Guards /\ Len(sent) \in Nat /\ Tolerance \in Nat
  BY GuardAssumption DEF TypeOK, Times, Guards, SeqNumbers
<1>3. \A i \in 1 .. Len(sent) : sent[i] \in Times /\ sent[i] \in Int
  <2>1. \A i \in 1 .. Len(sent) : sent[i] \in Times
    BY DEF TypeOK
  <2> QED BY <2>1 DEF Times
<1>4. CASE UNCHANGED <<sent, tracker, frame, cloudGuard, clouds>>
  BY <1>1, <1>4 DEF SensorInv, BaselineTime, AllPublished
<1>5. CASE Send
  <2>1. Len(sent') = Len(sent) + 1 /\ \A i \in 1 .. Len(sent) : sent'[i] = sent[i]
    BY <1>5 DEF Send, TypeOK
  <2>2. UNCHANGED <<tracker, frame, cloudGuard, clouds>>
    BY <1>5 DEF Send, filterVars, cloudVars
  <2> QED BY <1>1, <1>2, <2>1, <2>2 DEF SensorInv, BaselineTime, AllPublished
<1>6. CASE Reboot
  <2>1. boots' # 0
    BY <1>6, BoundsType DEF Reboot, TypeOK
  <2> QED BY <1>1, <2>1 DEF Orderly
<1>7. CASE Arrive
  <2>1. PICK n \in InFlight : \/ Stale \/ Malformed \/ OutOfSequence(n)
                             \/ \E shape \in Shapes : Decoded(n, shape)
    BY <1>7 DEF Arrive
  <2>2. sent' = sent
    BY <1>7 DEF Arrive, sensorVars
  <2>3. CASE Stale
    BY <1>4, <2>2, <2>3 DEF Stale, filterVars, cloudVars
  <2>4. CASE Malformed
    BY <1>4, <2>2, <2>4 DEF Malformed, cloudVars
  <2>5. CASE OutOfSequence(n)
    <3>1. tracker.initialized
      BY <2>5 DEF OutOfSequence, SequenceAccepts, SequenceStatus
    <3>2. tracker'.initialized /\ tracker'.lastSequence = tracker.lastSequence
      BY <2>5 DEF OutOfSequence, TrackerNext
    <3>3. UNCHANGED <<frame, cloudGuard, clouds>>
      BY <2>5 DEF OutOfSequence, cloudVars
    <3> QED BY <1>1, <2>2, <3>1, <3>2, <3>3 DEF SensorInv, BaselineTime, AllPublished
  <2>6. ASSUME NEW shape \in Shapes, Decoded(n, shape)
        PROVE  SensorInv'
    <3> DEFINE now == sent[n]
    <3>1. /\ AssembleBlocks(n, shape) /\ recovered' \in BOOLEAN
          /\ SequenceAccepts(tracker, n, clock)
          /\ tracker' = TrackerNext(tracker, n, clock)
      BY <1>1, <2>6, DecodedType DEF Decoded, Orderly
    <3>2. SequenceStatus(tracker, n, clock) # "restartAfterIdle"
      <4>1. xt /\ restarts = 0 /\ restarts' = 0
        BY <1>1 DEF Orderly
      <4> QED BY <2>6, <4>1 DEF Decoded
    <3>3. n \in 1 .. Len(sent) /\ now \in Times /\ now \in Int /\ PointStamp(n) = now
      BY <1>1, <1>3, InFlightSent DEF PointStamp, Orderly
    <3>4. tracker'.initialized /\ tracker'.lastSequence = n
      BY <3>1 DEF TrackerNext
    <3>5. BaselineTime' = now
      BY <2>2, <3>4 DEF BaselineTime
    <3>6. tracker.initialized => BaselineTime \in Int /\ BaselineTime <= now
      <4>1. SUFFICES ASSUME tracker.initialized
                     PROVE  BaselineTime \in Int /\ BaselineTime <= now
        OBVIOUS
      <4>2. tracker.lastSequence \in 1 .. Len(sent)
        BY <1>1, <4>1 DEF SensorInv
      <4>3. n > tracker.lastSequence
        BY <3>1, <3>2, <4>1, <4>2, AcceptedIsLater
      <4> QED BY <1>2, <1>3, <3>3, <4>2, <4>3 DEF SentInv, BaselineTime
    <3>7. /\ ~frame.empty => frame.stamp <= now
          /\ cloudGuard.initialized => cloudGuard.last <= now
          /\ ~frame.empty /\ cloudGuard.initialized => cloudGuard.last <= frame.stamp
          /\ AllPublished
      BY <1>1, <1>2, <3>3, <3>6 DEF SensorInv
    <3>8. CASE /\ cloudGuard' = cloudGuard
               /\ clouds' = clouds
               /\ \/ frame' = frame
                  \/ frame.empty /\ ~frame'.empty /\ frame'.stamp = PointStamp(n)
      BY <2>2, <3>3, <3>4, <3>5, <3>7, <3>8 DEF SensorInv, AllPublished
    <3>9. ASSUME NEW t \in Times, NEW r \in BOOLEAN,
                 \/ ~frame.empty /\ t = frame.stamp
                 \/ frame.empty /\ t = PointStamp(n),
                 cloudGuard' = GuardNext(cloudGuard, t),
                 clouds' = clouds \cup {[published |-> GuardAccepts(cloudGuard, t),
                                         recovered |-> r]},
                 frame'.empty \/ frame'.stamp = PointStamp(n)
          PROVE  SensorInv'
      <4>1. t \in Int /\ t <= now /\ (cloudGuard.initialized => cloudGuard.last <= t)
        BY <1>2, <3>3, <3>7, <3>9
      <4>2. GuardAccepts(cloudGuard, t)
        BY <1>2, <4>1, GuardStep
      <4>3. cloudGuard'.initialized /\ cloudGuard'.last = t
        BY <1>2, <3>9, <4>1, <4>2, GuardStep DEF Advance
      <4>4. AllPublished'
        BY <3>7, <3>9, <4>2 DEF AllPublished
      <4>5. ~frame'.empty => frame'.stamp = now
        BY <3>3, <3>9
      <4> QED BY <2>2, <3>3, <3>4, <3>5, <4>1, <4>3, <4>4, <4>5 DEF SensorInv
    <3> QED BY <3>1, <3>8, <3>9, FrameStep
  <2> QED BY <2>1, <2>3, <2>4, <2>5, <2>6
<1> QED BY <1>4, <1>5, <1>6, <1>7
      DEF Next, Tick, ClockStep, vars, sensorVars, filterVars, cloudVars

-----------------------------------------------------------------------------
(* A freshly started driver. *)
LEMMA PipelineInitially == Init => PipelineInv
<1> SUFFICES ASSUME Init PROVE PipelineInv
  OBVIOUS
<1>1. SensorUptime \in Times /\ 0 \in Times /\ 0 \in SeqNumbers
  <2>1. SensorUptime \in Times
    BY PipelineAssumption DEF Times
  <2> QED BY <2>1, BoundsType, DefenseAssumption DEF Times, SeqNumbers
<1>2. NoPoints \in [stamp : Times, recovered : BOOLEAN, empty : BOOLEAN] /\ NoPoints.empty
  BY <1>1 DEF NoPoints
<1>3. NewGuard \in [initialized : BOOLEAN, last : Times] /\ ~NewGuard.initialized
  BY <1>1 DEF NewGuard
<1>4. NewTracker \in [initialized : BOOLEAN, lastSequence : SeqNumbers, lastObserved : Times]
      /\ ~NewTracker.initialized
  BY <1>1 DEF NewTracker
<1>5. TypeOK
  <2>1. sent \in Seq(Times) /\ Len(sent) <= MaxSent /\ clouds \subseteq Clouds
    BY BoundsType DEF Init
  <2>2. boots \in 0 .. MaxBoots /\ steps \in 0 .. MaxSteps /\ arrivals \in 0 .. MaxArrivals
        /\ restarts \in Nat
    BY BoundsType DEF Init
  <2> QED BY <1>1, <1>2, <1>3, <1>4, <2>1, <2>2 DEF Init, TypeOK
<1> QED BY <1>2, <1>3, <1>4, <1>5
      DEF Init, PipelineInv, HostInv, SentInv, SensorInv, AllPublished

LEMMA PipelineInvariant == Spec => []PipelineInv
<1>1. PipelineInv /\ [Next]_vars => PipelineInv'
  BY TypeStep, HostStep, SentStep, SensorStep DEF PipelineInv
<1> QED BY <1>1, PipelineInitially, PTL DEF Spec

(* Every variable of the way from a packet to a cloud keeps its range. *)
THEOREM PipelineTypeCorrect == Spec => []TypeOK
<1>1. PipelineInv => TypeOK
  BY DEF PipelineInv
<1> QED BY <1>1, PipelineInvariant, PTL

(* In host time the cloud filter never drops a frame of packets that the   *)
(* packet filter accepted, whatever steps the clock makes.                 *)
THEOREM PipelineCloudFilterRedundant == Spec => []CloudFilterRedundant
<1>1. PipelineInv => CloudFilterRedundant
  BY DEF PipelineInv, HostInv, AllPublished, CloudFilterRedundant
<1> QED BY <1>1, PipelineInvariant, PTL

(* In sensor time a network that repeats and reorders packets costs no     *)
(* cloud of an XT sensor that does not reboot.                             *)
THEOREM PipelineReorderingCostsNoCloud == Spec => []ReorderingCostsNoCloud
<1>1. PipelineInv => ReorderingCostsNoCloud
  BY DEF PipelineInv, SensorInv, Orderly, AllPublished, ReorderingCostsNoCloud
<1> QED BY <1>1, PipelineInvariant, PTL
=============================================================================

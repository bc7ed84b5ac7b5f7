------------------------- MODULE PacketOrderProofs -------------------------
(***************************************************************************)
(* The packet filters keep what is decoded in order, for every tolerance,  *)
(* idle period and width of the sequence counter, whatever the network and *)
(* the host's clock do.                                                    *)
(***************************************************************************)
EXTENDS PacketOrder, TLAPS

Entries == [boot : 0 .. MaxBoots, number : 1 .. MaxSent, stamp : Times]

(* What the timestamp guard remembers bounds every decoded packet's stamp. *)
GuardInv ==
  /\ log # << >> => guard.initialized
  /\ \A i \in 1 .. Len(log) : log[i].stamp <= guard.last
  /\ StampsNearMonotone

(* The tracker's baseline is the last decoded packet, and the sensor's     *)
(* boots are decoded one after the other.                                  *)
BaselineInv ==
  /\ tracker.initialized <=> log # << >>
  /\ log # << >> => epochStart \in 1 .. Len(log)
  /\ \A i, j \in 1 .. Len(log) : i <= j => log[i].boot <= log[j].boot
  /\ \A i \in 1 .. Len(log) : log[i].boot <= boots
  /\ log # << >> /\ log[Len(log)].boot = boots =>
       tracker.lastSequence = Sequence(log[Len(log)].number)

(* As long as the clock is not stepped it measures the sensor's silence.   *)
QuietInv ==
  tracker.initialized /\ ~stepped =>
    /\ clock - tracker.lastObserved >= quiet
    /\ quiet < RestartIdle => clock - tracker.lastObserved = quiet
    /\ guard.initialized
    /\ guard.last <= clock + Tolerance

OrderInv ==
  /\ TypeOK
  /\ GuardInv
  /\ BaselineInv
  /\ QuietInv
  /\ DecodedInOrder
  /\ GapsExact

-----------------------------------------------------------------------------
(* The fields of a decoded packet. *)
LEMMA LogEntry ==
  ASSUME TypeOK, NEW i \in 1 .. Len(log)
  PROVE  /\ log[i].boot \in 0 .. MaxBoots
         /\ log[i].number \in 1 .. MaxSent
         /\ log[i].stamp \in Times
         /\ log[i].boot \in Nat /\ log[i].number \in Nat /\ log[i].stamp \in Nat
<1>1. log \in Seq(Entries)
  BY DEF TypeOK, Entries
<1>2. log[i] \in Entries
  BY <1>1
<1> QED BY <1>2, NetworkAssumption DEF Entries, Times

(* Two positions in a log of len + 1 entries, neither of them the last. *)
LEMMA EarlierPositions ==
  ASSUME NEW len \in Nat, NEW start \in Nat, start >= 1,
         NEW i \in start .. len + 1, NEW j \in start .. len + 1, i <= j, j # len + 1
  PROVE  i \in start .. len /\ j \in start .. len /\ i \in 1 .. len /\ j \in 1 .. len
OBVIOUS

(* Counting keeps the counters natural numbers. *)
LEMMA CountType ==
  ASSUME TypeOK, NEW c \in Counters, NEW k \in Nat, Count(c, k)
  PROVE  counters' \in [Counters -> Nat]
<1>1. counters \in [Counters -> Nat]
  BY DEF TypeOK
<1> QED BY <1>1 DEF Count

(* A packet's sequence number is a sequence number. *)
LEMMA SequenceType ==
  ASSUME TypeOK, NEW n \in 1 .. MaxSent
  PROVE  Sequence(n) \in SeqNumbers
BY GuardAssumption, DefenseAssumption, NetworkAssumption DEF TypeOK, SeqNumbers, Sequence

(* Comparing sequence numbers modulo the counter's range compares the      *)
(* packets, because fewer than half that range are sent in one boot.       *)
LEMMA DeltaComparesPackets ==
  ASSUME TypeOK, NEW m \in 1 .. MaxSent, NEW n \in 1 .. MaxSent
  PROVE  /\ Delta(Sequence(n), Sequence(m)) = 0 <=> n = m
         /\ Delta(Sequence(n), Sequence(m)) # 0 /\ Forward(Delta(Sequence(n), Sequence(m)))
              => n > m /\ Delta(Sequence(n), Sequence(m)) = n - m
<1>1. Delta(Sequence(n), Sequence(m)) = IF n >= m THEN n - m ELSE n - m + SeqModulus
  <2>1. base \in Nat /\ base < SeqModulus
    BY GuardAssumption, DefenseAssumption DEF TypeOK, SeqNumbers
  <2>2. n \in Nat /\ m \in Nat /\ 2 * n < SeqModulus /\ 2 * m < SeqModulus
    BY NetworkAssumption, GuardAssumption, DefenseAssumption
  <2> QED BY <2>1, <2>2, GuardAssumption, DefenseAssumption DEF Sequence, Delta
<1> QED BY <1>1, GuardAssumption, DefenseAssumption, NetworkAssumption DEF Forward

(* Sequence number arithmetic stays in range. *)
LEMMA DeltaType ==
  ASSUME NEW a \in SeqNumbers, NEW b \in SeqNumbers
  PROVE  Delta(a, b) \in SeqNumbers
BY GuardAssumption, DefenseAssumption DEF SeqNumbers, Delta

(* The guard accepts a time only if it is at most Tolerance before the     *)
(* latest one it accepted, and then remembers the later of the two.        *)
LEMMA GuardWindow ==
  ASSUME TypeOK, GuardAccepts(guard, clock)
  PROVE  /\ GuardNext(guard, clock) \in [initialized : BOOLEAN, last : Times]
         /\ GuardNext(guard, clock).initialized
         /\ clock <= GuardNext(guard, clock).last
         /\ GuardNext(guard, clock).last <= clock + Tolerance
         /\ guard.initialized => /\ clock >= guard.last - Tolerance
                                 /\ guard.last <= GuardNext(guard, clock).last
<1>1. clock # NotFinite /\ clock \in Times /\ guard.last \in Times
  BY GuardAssumption, DefenseAssumption, NetworkAssumption DEF TypeOK, Times
<1>2. CASE ~guard.initialized
  <2>1. GuardNext(guard, clock) = [initialized |-> TRUE, last |-> clock]
    BY <1>1, <1>2 DEF GuardStatus, GuardNext, isfinite
  <2> QED BY <1>1, <1>2, <2>1, GuardAssumption, DefenseAssumption, NetworkAssumption DEF Times
<1>3. CASE guard.initialized
  <2>1. ~TooOld(guard.last, clock)
    BY <1>1, <1>3 DEF GuardAccepts, GuardStatus, isfinite
  <2>2. GuardNext(guard, clock) = [guard EXCEPT !.last = Advance(guard.last, clock)]
    BY <1>1, <1>3, <2>1 DEF GuardStatus, GuardNext, isfinite
  <2>3. Advance(guard.last, clock) \in Times
    BY <1>1 DEF Advance
  <2>4. GuardNext(guard, clock) \in [initialized : BOOLEAN, last : Times]
    BY <2>2, <2>3 DEF TypeOK
  <2>5. /\ GuardNext(guard, clock).initialized = guard.initialized
        /\ GuardNext(guard, clock).last = Advance(guard.last, clock)
    BY <2>2 DEF TypeOK
  <2> QED BY <1>1, <1>3, <2>1, <2>4, <2>5, GuardAssumption, DefenseAssumption, NetworkAssumption
          DEF TooOld, Advance, Times
<1> QED BY <1>2, <1>3

(* A packet accepted on the same baseline and boot is newer than the last  *)
(* one decoded, and Missing counts those in between.                       *)
LEMMA AcceptedIsNewer ==
  ASSUME OrderInv, NEW n \in InFlight, log # << >>, log[Len(log)].boot = boots,
         SequenceAccepts(tracker, Sequence(n), clock),
         ~RestartedAfterIdle(tracker, clock)
  PROVE  /\ n > log[Len(log)].number
         /\ Missing(tracker, Sequence(n), clock) = n - log[Len(log)].number - 1
<1> DEFINE m == log[Len(log)].number
           d == Delta(Sequence(n), Sequence(m))
<1>1. TypeOK /\ tracker.initialized /\ tracker.lastSequence = Sequence(m)
  BY DEF OrderInv, BaselineInv
<1>2. n \in 1 .. MaxSent
  BY <1>1, NetworkAssumption DEF InFlight, TypeOK
<1>3. Len(log) \in 1 .. Len(log)
  BY <1>1 DEF TypeOK
<1>4. m \in 1 .. MaxSent
  BY <1>1, <1>3, LogEntry
<1>5. d # 0 /\ Forward(d)
  BY <1>1 DEF SequenceAccepts, SequenceStatus
<1>6. n > m /\ d = n - m
  BY <1>1, <1>2, <1>4, <1>5, DeltaComparesPackets
<1>7. SequenceStatus(tracker, Sequence(n), clock) = IF d = 1 THEN "inOrder" ELSE "forwardGap"
  BY <1>1, <1>5 DEF SequenceStatus
<1>8. Missing(tracker, Sequence(n), clock) = d - 1
  BY <1>1, <1>6, <1>7 DEF Missing
<1> QED BY <1>2, <1>4, <1>6, <1>8

(* An observation moves the tracker's baseline only to what it accepts. *)
LEMMA TrackerMoves ==
  ASSUME TypeOK, NEW n \in InFlight
  PROVE  LET next == TrackerNext(tracker, Sequence(n), clock)
         IN  /\ next \in [initialized : BOOLEAN, lastSequence : SeqNumbers,
                          lastObserved : Times]
             /\ next.initialized
             /\ next.lastObserved = clock
             /\ SequenceAccepts(tracker, Sequence(n), clock)
                  => next.lastSequence = Sequence(n)
             /\ ~SequenceAccepts(tracker, Sequence(n), clock)
                  => next.lastSequence = tracker.lastSequence
<1>1. n \in 1 .. MaxSent
  BY NetworkAssumption DEF InFlight, TypeOK
<1>2. Sequence(n) \in SeqNumbers /\ clock \in Times /\ tracker.lastSequence \in SeqNumbers
  BY <1>1, SequenceType DEF TypeOK
<1> QED BY <1>2 DEF TrackerNext

-----------------------------------------------------------------------------
(* The initial state satisfies the invariant. *)
LEMMA OrderInit == Init => OrderInv
<1> SUFFICES ASSUME Init PROVE OrderInv
  OBVIOUS
<1>1. guard \in [initialized : BOOLEAN, last : Times] /\ ~guard.initialized
  BY NetworkAssumption DEF Init, NewGuard, Times
<1>2. tracker \in [initialized : BOOLEAN, lastSequence : SeqNumbers, lastObserved : Times]
        /\ ~tracker.initialized
  BY NetworkAssumption, GuardAssumption, DefenseAssumption DEF Init, NewTracker, Times, SeqNumbers
<1>3. counters \in [Counters -> Nat] /\ stepped \in BOOLEAN
  BY DEF Init
<1>4. log \in Seq([boot : 0 .. MaxBoots, number : 1 .. MaxSent, stamp : Times])
        /\ Len(log) = 0 /\ log = << >>
  BY DEF Init
<1>5. TypeOK
  BY <1>1, <1>2, <1>3, <1>4, NetworkAssumption, GuardAssumption, DefenseAssumption
     DEF Init, TypeOK, Times, SeqNumbers
<1>6. GuardInv /\ BaselineInv /\ QuietInv /\ DecodedInOrder /\ GapsExact
  BY <1>2, <1>4 DEF GuardInv, BaselineInv, QuietInv, DecodedInOrder, GapsExact,
     StampsNearMonotone
<1> QED BY <1>5, <1>6 DEF OrderInv

(* The sensor, the clock and a restart of the driver preserve it. *)
LEMMA EnvironmentStep ==
  OrderInv /\ (Send \/ Reboot \/ Tick \/ ClockStep \/ Restart) => OrderInv'
<1> SUFFICES ASSUME OrderInv, Send \/ Reboot \/ Tick \/ ClockStep \/ Restart
             PROVE  OrderInv'
  OBVIOUS
<1> USE GuardAssumption, DefenseAssumption, NetworkAssumption
        DEF OrderInv, sensorVars, clockVars, filterVars, historyVars
<1>1. CASE Send
  BY <1>1 DEF Send, TypeOK, GuardInv, BaselineInv, QuietInv, DecodedInOrder,
       GapsExact, StampsNearMonotone, Epoch, SameBoot, Sequence
<1>2. CASE Reboot
  <2>1. TypeOK'
    BY <1>2 DEF Reboot, TypeOK, SeqNumbers
  <2>2. BaselineInv'
    <3>1. \A i \in 1 .. Len(log) : log[i].boot # boots'
      BY <1>2 DEF Reboot, BaselineInv, TypeOK
    <3>2. log # << >> => Len(log) \in 1 .. Len(log)
      BY DEF TypeOK
    <3>3. \A i \in 1 .. Len(log) : log[i].boot <= boots'
      <4> TAKE i \in 1 .. Len(log)
      <4>1. log[i].boot \in Nat /\ log[i].boot <= boots
        BY LogEntry DEF BaselineInv
      <4> QED BY <1>2, <4>1 DEF Reboot, TypeOK
    <3> QED BY <1>2, <3>1, <3>2, <3>3 DEF Reboot, BaselineInv
  <2>3. GuardInv' /\ QuietInv' /\ DecodedInOrder' /\ GapsExact'
    BY <1>2 DEF Reboot, GuardInv, QuietInv, DecodedInOrder, GapsExact,
         StampsNearMonotone, Epoch, SameBoot
  <2> QED BY <2>1, <2>2, <2>3
<1>3. CASE Tick
  <2>1. TypeOK'
    BY <1>3 DEF Tick, TypeOK, Times
  <2>2. QuietInv'
    BY <1>3 DEF Tick, QuietInv, TypeOK, Times
  <2>3. GuardInv' /\ BaselineInv' /\ DecodedInOrder' /\ GapsExact'
    BY <1>3 DEF Tick, GuardInv, BaselineInv, DecodedInOrder, GapsExact,
         StampsNearMonotone, Epoch, SameBoot, Sequence
  <2> QED BY <2>1, <2>2, <2>3
<1>4. CASE ClockStep
  BY <1>4 DEF ClockStep, TypeOK, Times, GuardInv, BaselineInv, QuietInv,
       DecodedInOrder, GapsExact, StampsNearMonotone, Epoch, SameBoot, Sequence
<1>5. CASE Restart
  <2>1. guard' \in [initialized : BOOLEAN, last : Times] /\ ~guard'.initialized
    BY <1>5 DEF Restart, NewGuard, Times
  <2>2. tracker' \in [initialized : BOOLEAN, lastSequence : SeqNumbers, lastObserved : Times]
          /\ ~tracker'.initialized
    BY <1>5 DEF Restart, NewTracker, Times, SeqNumbers
  <2>3. log' \in Seq([boot : 0 .. MaxBoots, number : 1 .. MaxSent, stamp : Times])
          /\ Len(log') = 0 /\ log' = << >>
    BY <1>5 DEF Restart
  <2>4. stepped' \in BOOLEAN
    BY <1>5 DEF Restart
  <2>5. TypeOK'
    BY <1>5, <2>1, <2>2, <2>3, <2>4 DEF Restart, TypeOK
  <2>6. GuardInv' /\ BaselineInv' /\ QuietInv' /\ DecodedInOrder' /\ GapsExact'
    BY <2>2, <2>3 DEF GuardInv, BaselineInv, QuietInv, DecodedInOrder, GapsExact,
       StampsNearMonotone
  <2> QED BY <2>5, <2>6
<1> QED BY <1>1, <1>2, <1>3, <1>4, <1>5

(* A packet the driver does not decode preserves the invariant. *)
LEMMA UndecodedStep ==
  ASSUME OrderInv, NEW n \in InFlight, arrivals' \in 0 .. MaxArrivals,
         ArriveStale \/ ArriveMalformed \/ ArriveRejected(n)
  PROVE  OrderInv'
<1> USE GuardAssumption, DefenseAssumption, NetworkAssumption
        DEF OrderInv, sensorVars, clockVars, filterVars, historyVars
<1>1. CASE ArriveStale
  <2>1. counters' \in [Counters -> Nat]
    BY <1>1, CountType DEF ArriveStale, Counters
  <2> QED
    BY <1>1, <2>1 DEF ArriveStale, TypeOK, GuardInv, BaselineInv, QuietInv,
         DecodedInOrder, GapsExact, StampsNearMonotone, Epoch, SameBoot, Sequence
<1>2. CASE ArriveMalformed
  <2>1. /\ guard' \in [initialized : BOOLEAN, last : Times]
        /\ guard'.initialized
        /\ guard'.last <= clock + Tolerance
        /\ guard.initialized => guard.last <= guard'.last
    BY <1>2, GuardWindow DEF ArriveMalformed
  <2>2. TypeOK'
    BY <1>2, <2>1 DEF ArriveMalformed, TypeOK
  <2>3. GuardInv'
    <3>1. ASSUME NEW i \in 1 .. Len(log) PROVE log[i].stamp <= guard'.last
      <4>1. log[i].stamp <= guard.last /\ guard.initialized
        BY DEF GuardInv, TypeOK
      <4>2. log[i].stamp \in Nat /\ guard.last \in Nat /\ guard'.last \in Nat
        <5>1. guard.last \in Times /\ guard'.last \in Times
          BY <2>1 DEF TypeOK
        <5> QED BY <5>1, LogEntry DEF Times
      <4> QED BY <2>1, <4>1, <4>2
    <3> QED BY <1>2, <2>1, <3>1 DEF ArriveMalformed, GuardInv, StampsNearMonotone
  <2>4. QuietInv'
    BY <1>2, <2>1 DEF ArriveMalformed, QuietInv
  <2>5. BaselineInv' /\ DecodedInOrder' /\ GapsExact'
    BY <1>2 DEF ArriveMalformed, BaselineInv, DecodedInOrder, GapsExact, Epoch,
         SameBoot, Sequence
  <2> QED BY <2>2, <2>3, <2>4, <2>5
<1>3. CASE ArriveRejected(n)
  <2>1. /\ guard' \in [initialized : BOOLEAN, last : Times]
        /\ guard'.initialized
        /\ guard'.last <= clock + Tolerance
        /\ guard.initialized => guard.last <= guard'.last
    BY <1>3, GuardWindow DEF ArriveRejected, Observe
  <2>2. /\ tracker' \in [initialized : BOOLEAN, lastSequence : SeqNumbers,
                         lastObserved : Times]
        /\ tracker'.initialized
        /\ tracker'.lastObserved = clock
        /\ tracker'.lastSequence = tracker.lastSequence
    BY <1>3, TrackerMoves DEF ArriveRejected, Observe
  <2>3. tracker.initialized
    BY <1>3 DEF ArriveRejected, SequenceAccepts, SequenceStatus
  <2>4. counters' \in [Counters -> Nat]
    BY <1>3, CountType DEF ArriveRejected, Counters
  <2>5. TypeOK'
    <3>1. UNCHANGED <<sensorVars, clockVars, log, epochStart, epochGaps>>
            /\ quiet' = 0 /\ stepped' \in BOOLEAN
      BY <1>3 DEF ArriveRejected, Observe
    <3> QED BY <2>1, <2>2, <2>4, <3>1 DEF TypeOK
  <2>6. GuardInv'
    <3>1. ASSUME NEW i \in 1 .. Len(log) PROVE log[i].stamp <= guard'.last
      <4>1. log[i].stamp <= guard.last /\ guard.initialized
        BY DEF GuardInv, TypeOK
      <4>2. log[i].stamp \in Nat /\ guard.last \in Nat /\ guard'.last \in Nat
        <5>1. guard.last \in Times /\ guard'.last \in Times
          BY <2>1 DEF TypeOK
        <5> QED BY <5>1, LogEntry DEF Times
      <4> QED BY <2>1, <4>1, <4>2
    <3> QED BY <1>3, <2>1, <3>1 DEF ArriveRejected, GuardInv, StampsNearMonotone
  <2>7. QuietInv'
    BY <1>3, <2>1, <2>2 DEF ArriveRejected, Observe, QuietInv, TypeOK, Times
  <2>8. BaselineInv' /\ DecodedInOrder' /\ GapsExact'
    BY <1>3, <2>2, <2>3 DEF ArriveRejected, Observe, BaselineInv, DecodedInOrder,
         GapsExact, Epoch, SameBoot, Sequence
  <2> QED BY <2>5, <2>6, <2>7, <2>8
<1> QED BY <1>1, <1>2, <1>3

(* So does a decoded packet. *)
LEMMA DecodedStep ==
  ASSUME OrderInv, NEW n \in InFlight, arrivals' \in 0 .. MaxArrivals, ArriveDecoded(n)
  PROVE  OrderInv'
<1> USE GuardAssumption, DefenseAssumption, NetworkAssumption
        DEF OrderInv, sensorVars, clockVars, filterVars, historyVars
<1> DEFINE entry == [boot |-> boots, number |-> n, stamp |-> clock]
           missing == Missing(tracker, Sequence(n), clock)
           fresh == SequenceStatus(tracker, Sequence(n), clock)
                      \in {"first", "restartAfterIdle"}
<1>0. /\ Len(log) \in Nat /\ boots \in Nat /\ clock \in Nat /\ guard.last \in Nat
      /\ epochStart \in Nat /\ epochGaps \in Nat
  BY DEF TypeOK, Times
<1>1. n \in 1 .. MaxSent /\ entry \in Entries
  BY DEF InFlight, TypeOK, Entries
<1>2. /\ log \in Seq(Entries)
      /\ log' = Append(log, entry)
      /\ log' \in Seq(Entries)
      /\ Len(log') = Len(log) + 1
      /\ \A i \in 1 .. Len(log) : log'[i] = log[i]
      /\ log'[Len(log) + 1] = entry
      /\ log' # << >>
  BY <1>1 DEF ArriveDecoded, TypeOK, Entries
<1>3. /\ guard' \in [initialized : BOOLEAN, last : Times]
      /\ guard'.initialized
      /\ clock <= guard'.last
      /\ guard'.last <= clock + Tolerance
      /\ guard.initialized => clock >= guard.last - Tolerance /\ guard.last <= guard'.last
  BY GuardWindow DEF ArriveDecoded, Observe
<1>4. /\ tracker' \in [initialized : BOOLEAN, lastSequence : SeqNumbers,
                       lastObserved : Times]
      /\ tracker'.initialized
      /\ tracker'.lastObserved = clock
      /\ tracker'.lastSequence = Sequence(n)
  BY TrackerMoves DEF ArriveDecoded, Observe
<1>5. missing \in Nat
  <2>1. Sequence(n) \in SeqNumbers /\ tracker.lastSequence \in SeqNumbers
    BY <1>1, SequenceType DEF TypeOK
  <2>2. Delta(Sequence(n), tracker.lastSequence) \in SeqNumbers
    BY <2>1, DeltaType
  <2>3. SequenceStatus(tracker, Sequence(n), clock) = "forwardGap"
          => Delta(Sequence(n), tracker.lastSequence) # 0
    BY DEF SequenceStatus
  <2> QED BY <2>2, <2>3 DEF Missing, SeqNumbers
<1>6. epochStart' = (IF fresh THEN Len(log) + 1 ELSE epochStart)
        /\ epochGaps' = (IF fresh THEN 0 ELSE epochGaps + missing)
  BY DEF ArriveDecoded
<1>7. ~fresh => tracker.initialized /\ log # << >>
                  /\ ~RestartedAfterIdle(tracker, clock)
                  /\ epochStart \in 1 .. Len(log)
  BY DEF SequenceStatus, BaselineInv
<1>8. TypeOK'
  <2>1. counters' \in [Counters -> Nat]
    BY <1>5, CountType DEF ArriveDecoded, Counters
  <2>2. epochStart' \in 0 .. Len(log') /\ epochGaps' \in Nat
    BY <1>2, <1>5, <1>6 DEF TypeOK
  <2>3. UNCHANGED <<sensorVars, clockVars>> /\ quiet' = 0 /\ stepped' \in BOOLEAN
    BY DEF ArriveDecoded, Observe
  <2> QED BY <1>2, <1>3, <1>4, <2>1, <2>2, <2>3 DEF TypeOK, Entries
<1>9. GuardInv'
  <2>1. ASSUME NEW i \in 1 .. Len(log)
        PROVE  log[i].stamp <= guard'.last /\ clock >= log[i].stamp - Tolerance
    <3>1. log[i].stamp <= guard.last /\ guard.initialized
      BY <1>0 DEF GuardInv
    <3>2. log[i].stamp \in Nat /\ guard'.last \in Nat
      BY <1>3, LogEntry DEF Times
    <3> QED BY <1>0, <1>3, <3>1, <3>2
  <2>2. ASSUME NEW i \in 1 .. Len(log') PROVE log'[i].stamp <= guard'.last
    <3>1. CASE i \in 1 .. Len(log)
      BY <1>2, <2>1, <3>1
    <3>2. CASE i = Len(log) + 1
      BY <1>2, <1>3, <3>2
    <3> QED BY <1>0, <1>2, <3>1, <3>2
  <2>3. ASSUME NEW i \in 1 .. Len(log'), NEW j \in 1 .. Len(log'), i < j
        PROVE  log'[j].stamp >= log'[i].stamp - Tolerance
    <3>1. CASE j = Len(log) + 1
      <4>1. i \in 1 .. Len(log) /\ log'[i] = log[i] /\ log'[j].stamp = clock
        BY <1>0, <1>2, <2>3, <3>1
      <4> QED BY <2>1, <4>1
    <3>2. CASE j # Len(log) + 1
      <4>1. i \in 1 .. Len(log) /\ j \in 1 .. Len(log) /\ log'[i] = log[i] /\ log'[j] = log[j]
        <5>1. i \in 1 .. Len(log) /\ j \in 1 .. Len(log)
          <6>1. i \in 1 .. Len(log) + 1 /\ j \in 1 .. Len(log) + 1 /\ i <= j
            BY <1>2, <2>3
          <6> QED BY <1>0, <3>2, <6>1
        <5> QED BY <1>2, <5>1
      <4> QED BY <2>3, <4>1 DEF GuardInv, StampsNearMonotone
    <3> QED BY <3>1, <3>2
  <2> QED BY <1>3, <2>2, <2>3 DEF GuardInv, StampsNearMonotone
<1>10. BaselineInv'
  <2>1. Len(log) \in Nat /\ boots \in Nat
    BY DEF TypeOK
  <2>2. ASSUME NEW i \in 1 .. Len(log')
        PROVE  log'[i].boot \in Nat /\ log'[i].boot <= boots
    <3>1. CASE i \in 1 .. Len(log)
      BY <1>2, <3>1, LogEntry DEF BaselineInv
    <3>2. CASE i = Len(log) + 1
      BY <1>2, <2>1, <3>2
    <3> QED BY <1>2, <2>1, <3>1, <3>2
  <2>3. ASSUME NEW i \in 1 .. Len(log'), NEW j \in 1 .. Len(log'), i <= j
        PROVE  log'[i].boot <= log'[j].boot
    <3>1. CASE j = Len(log) + 1
      BY <1>2, <2>2, <3>1
    <3>2. CASE j # Len(log) + 1
      BY <1>2, <2>1, <2>3, <3>2 DEF BaselineInv
    <3> QED BY <3>1, <3>2
  <2>4. epochStart' \in 1 .. Len(log')
    BY <1>2, <1>6, <1>7, <2>1
  <2>5. Sequence(n)' = Sequence(n) /\ boots' = boots
    BY DEF ArriveDecoded, Observe, Sequence
  <2> QED BY <1>2, <1>4, <2>2, <2>3, <2>4, <2>5 DEF BaselineInv, Sequence, ArriveDecoded, Observe
<1>11. QuietInv'
  BY <1>3, <1>4 DEF ArriveDecoded, Observe, QuietInv, TypeOK, Times
<1>12. DecodedInOrder'
  <2>1. Len(log) \in Nat
    BY DEF TypeOK
  <2>2. ASSUME NEW i \in epochStart' .. Len(log'), NEW j \in epochStart' .. Len(log'),
               i < j, log'[i].boot = log'[j].boot
        PROVE  log'[i].number < log'[j].number
    <3>1. ~fresh /\ epochStart' = epochStart /\ i \in 1 .. Len(log)
      <4>1. ~fresh
        BY <1>0, <1>2, <1>6, <2>2
      <4> QED BY <1>0, <1>2, <1>6, <1>7, <2>2, <4>1
    <3>2. CASE j = Len(log) + 1
      <4>1. log'[i] = log[i] /\ log'[j] = entry
        BY <1>2, <3>1, <3>2
      <4>2. log[i].boot = boots
        BY <2>2, <4>1
      <4>3. Len(log) \in 1 .. Len(log)
        BY <2>1, <3>1
      <4>4. log[Len(log)].boot = boots
        <5>1. log[i].boot <= log[Len(log)].boot /\ log[Len(log)].boot <= boots
          BY <3>1, <4>3 DEF BaselineInv
        <5> QED BY <1>0, <4>2, <4>3, <5>1, LogEntry
      <4>5. n > log[Len(log)].number
        BY <1>7, <3>1, <4>4, AcceptedIsNewer DEF ArriveDecoded
      <4>6. log[i].number <= log[Len(log)].number
        <5>1. CASE i = Len(log)
          BY <3>1, <5>1, LogEntry
        <5>2. CASE i # Len(log)
          <6>1. i \in Epoch /\ Len(log) \in Epoch /\ i < Len(log) /\ log # << >>
            BY <1>0, <1>7, <2>2, <3>1, <5>2 DEF Epoch
          <6>2. log[i].number < log[Len(log)].number
            BY <4>2, <4>4, <6>1 DEF DecodedInOrder, SameBoot
          <6> QED BY <3>1, <4>3, <6>2, LogEntry
        <5> QED BY <5>1, <5>2
      <4> QED BY <1>1, <3>1, <4>1, <4>3, <4>5, <4>6, LogEntry
    <3>3. CASE j # Len(log) + 1
      <4>1. i \in Epoch /\ j \in Epoch /\ log'[i] = log[i] /\ log'[j] = log[j] /\ log # << >>
        <5>1. i \in Epoch /\ j \in Epoch /\ i \in 1 .. Len(log) /\ j \in 1 .. Len(log)
          <6>1. epochStart >= 1 /\ Len(log') = Len(log) + 1 /\ epochStart' = epochStart
            BY <1>2, <1>7, <3>1
          <6> QED BY <1>0, <2>2, <3>3, <6>1, EarlierPositions DEF Epoch
        <5> QED BY <1>2, <1>7, <3>1, <5>1
      <4> QED BY <2>2, <4>1 DEF DecodedInOrder, SameBoot
    <3> QED BY <3>2, <3>3
  <2> QED BY <2>2 DEF DecodedInOrder, Epoch, SameBoot
<1>13. GapsExact'
  <2>1. Len(log) \in Nat
    BY DEF TypeOK
  <2>2. CASE fresh
    BY <1>1, <1>2, <1>6, <2>1, <2>2 DEF GapsExact, SameBoot
  <2>3. CASE ~fresh
    <3>1. epochStart \in 1 .. Len(log) /\ epochStart' = epochStart
            /\ log'[epochStart'] = log[epochStart]
      BY <1>2, <1>6, <1>7, <2>3
    <3>2. ASSUME log[epochStart].boot = boots
          PROVE  n - log[epochStart].number = Len(log) + 1 - epochStart + epochGaps + missing
      <4>1. Len(log) \in 1 .. Len(log)
        BY <2>1, <3>1
      <4>2. log[Len(log)].boot = boots
        <5>1. log[epochStart].boot <= log[Len(log)].boot /\ log[Len(log)].boot <= boots
          BY <3>1, <4>1 DEF BaselineInv
        <5> QED BY <1>0, <3>2, <4>1, <5>1, LogEntry
      <4>3. missing = n - log[Len(log)].number - 1
        BY <1>7, <2>3, <4>2, AcceptedIsNewer DEF ArriveDecoded
      <4>4. log[Len(log)].number - log[epochStart].number = (Len(log) - epochStart) + epochGaps
        BY <1>7, <2>3, <3>2, <4>2 DEF GapsExact, SameBoot
      <4>5. log[Len(log)].number \in Nat /\ log[epochStart].number \in Nat /\ n \in Nat
        BY <1>1, <3>1, <4>1, LogEntry
      <4> DEFINE a == log[Len(log)].number
                 b == log[epochStart].number
                 len == Len(log)
      <4>6. /\ n \in Int /\ a \in Int /\ b \in Int /\ len \in Int
            /\ epochStart \in Int /\ epochGaps \in Int /\ missing \in Int
            /\ missing = n - a - 1
            /\ a - b = (len - epochStart) + epochGaps
        BY <1>0, <1>5, <4>3, <4>4, <4>5
      <4> HIDE DEF a, b, len, missing
      <4>7. n - b = len + 1 - epochStart + epochGaps + missing
        BY <4>6
      <4> QED BY <4>7 DEF b, len
    <3>3. epochGaps' = epochGaps + missing
      BY <1>6, <2>3
    <3>4. log'[Len(log')].number = n /\ log'[Len(log')].boot = boots
      BY <1>2
    <3>5. Len(log') - epochStart' + epochGaps'
            = Len(log) + 1 - epochStart + epochGaps + missing
      BY <1>0, <1>2, <1>5, <3>1, <3>3
    <3>6. log'[epochStart'].boot = log'[Len(log')].boot
            => log'[Len(log')].number - log'[epochStart'].number
                 = Len(log') - epochStart' + epochGaps'
      BY <3>1, <3>2, <3>4, <3>5
    <3> QED BY <3>6 DEF GapsExact, SameBoot
  <2> QED BY <2>2, <2>3
<1> QED BY <1>8, <1>9, <1>10, <1>11, <1>12, <1>13

-----------------------------------------------------------------------------
(* The invariant is inductive. *)
THEOREM OrderInvariant == Spec => []OrderInv
<1>1. ASSUME OrderInv, UNCHANGED vars PROVE OrderInv'
  <2> USE <1>1 DEF OrderInv, vars, sensorVars, clockVars, filterVars, historyVars
  <2>1. TypeOK'
    BY DEF TypeOK
  <2>2. GuardInv' /\ QuietInv'
    BY DEF GuardInv, QuietInv, StampsNearMonotone
  <2>3. BaselineInv'
    BY DEF BaselineInv, Sequence
  <2>4. DecodedInOrder' /\ GapsExact'
    BY DEF DecodedInOrder, GapsExact, Epoch, SameBoot
  <2> QED BY <2>1, <2>2, <2>3, <2>4
<1>2. ASSUME OrderInv, Arrive PROVE OrderInv'
  <2>1. arrivals' \in 0 .. MaxArrivals
    BY <1>2, NetworkAssumption DEF Arrive, OrderInv, TypeOK
  <2> QED BY <1>2, <2>1, UndecodedStep, DecodedStep DEF Arrive
<1>3. OrderInv /\ [Next]_vars => OrderInv'
  BY <1>1, <1>2, EnvironmentStep DEF Next
<1> QED BY OrderInit, <1>3, PTL DEF Spec

(* Type correctness of the packet filters. *)
THEOREM OrderTypeCorrect == Spec => []TypeOK
<1>1. OrderInv => TypeOK
  BY DEF OrderInv
<1> QED BY <1>1, OrderInvariant, PTL

(* No packet is decoded more than the tolerance before an earlier one. *)
THEOREM OrderStampsNearMonotone == Spec => []StampsNearMonotone
<1>1. OrderInv => StampsNearMonotone
  BY DEF OrderInv, GuardInv
<1> QED BY <1>1, OrderInvariant, PTL

(* On one baseline packets are decoded in the order the sensor sent them,  *)
(* across the rollover of the counter, and no packet twice.                *)
THEOREM OrderDecodedInOrder == Spec => []DecodedInOrder
<1>1. OrderInv => DecodedInOrder
  BY DEF OrderInv
<1> QED BY <1>1, OrderInvariant, PTL

(* The gap counter accounts for every packet that was not decoded. *)
THEOREM OrderGapsExact == Spec => []GapsExact
<1>1. OrderInv => GapsExact
  BY DEF OrderInv
<1> QED BY <1>1, OrderInvariant, PTL

(* A sensor heard again after a silence of RestartIdle is not rejected. *)
THEOREM OrderSilenceEndsRejection == Spec => SilenceEndsRejection
<1>1. ASSUME OrderInv, NEW n \in InFlight, tracker.initialized,
             quiet >= RestartIdle, ~stepped
      PROVE  ~ (Arrive /\ (ArriveStale \/ ArriveRejected(n)))
  <2>1. /\ clock \in Nat /\ guard.last \in Nat /\ tracker.lastObserved \in Nat
        /\ quiet \in Nat /\ clock # NotFinite /\ tracker.lastObserved # NotFinite
    BY GuardAssumption, DefenseAssumption, NetworkAssumption, <1>1 DEF OrderInv, TypeOK, Times
  <2>2. /\ clock - tracker.lastObserved >= RestartIdle
        /\ guard.initialized
        /\ guard.last <= clock + Tolerance
    BY <1>1, <2>1, GuardAssumption, DefenseAssumption DEF OrderInv, QuietInv
  <2>3. GuardAccepts(guard, clock)
    BY <2>1, <2>2, GuardAssumption, DefenseAssumption DEF GuardAccepts, GuardStatus, TooOld, isfinite
  <2>4. RestartedAfterIdle(tracker, clock)
    BY <2>1, <2>2 DEF RestartedAfterIdle, isfinite
  <2>5. SequenceAccepts(tracker, Sequence(n), clock)
    BY <1>1, <2>4 DEF SequenceAccepts, SequenceStatus
  <2> QED BY <2>3, <2>5 DEF ArriveStale, ArriveRejected
<1>2. OrderInv => SilentSensorHeard
  BY <1>1 DEF SilentSensorHeard
<1> QED BY <1>2, OrderInvariant, PTL DEF SilenceEndsRejection

(* An old or repeated packet is decoded only after a silence of            *)
(* RestartIdle or a step of the host's clock.                              *)
THEOREM OrderStaleOnlyAfterSilence == Spec => StaleOnlyAfterSilence
<1>1. ASSUME OrderInv, NEW n \in InFlight, Arrive, log # << >>,
             log' = Append(log, [boot |-> boots, number |-> n, stamp |-> clock]),
             NEW i \in Epoch, log[i].boot = boots, log[i].number >= n
      PROVE  quiet >= RestartIdle \/ stepped
  <2>1. TypeOK /\ Len(log) \in Nat /\ boots \in Nat
    BY <1>1 DEF OrderInv, TypeOK
  <2>2. epochStart \in 1 .. Len(log) /\ i \in 1 .. Len(log) /\ Len(log) \in 1 .. Len(log)
    BY <1>1, <2>1 DEF OrderInv, BaselineInv, Epoch
  <2>3. SequenceAccepts(tracker, Sequence(n), clock)
    <3>1. Len(log') = Len(log) + 1 /\ log'[Len(log) + 1].number = n
      BY <1>1, <2>1 DEF TypeOK
    <3>2. PICK k \in InFlight :
            ArriveStale \/ ArriveMalformed \/ ArriveRejected(k) \/ ArriveDecoded(k)
      BY <1>1 DEF Arrive
    <3>3. log' # log
      BY <2>1, <3>1
    <3>4. ArriveDecoded(k)
      BY <3>2, <3>3 DEF ArriveStale, ArriveMalformed, ArriveRejected, historyVars
    <3>5. log'[Len(log) + 1].number = k
      BY <2>1, <3>4 DEF ArriveDecoded, TypeOK
    <3> QED BY <3>1, <3>4, <3>5 DEF ArriveDecoded
  <2>4. log[Len(log)].boot = boots
    <3>1. log[i].boot <= log[Len(log)].boot /\ log[Len(log)].boot <= boots
      BY <1>1, <2>2 DEF OrderInv, BaselineInv
    <3> QED BY <1>1, <2>1, <2>2, <3>1, LogEntry
  <2>5. log[i].number <= log[Len(log)].number
    <3>1. CASE i = Len(log)
      BY <2>1, <2>2, <3>1, LogEntry
    <3>2. CASE i # Len(log)
      <4>1. i < Len(log) /\ Len(log) \in Epoch
        BY <1>1, <2>1, <2>2, <3>2 DEF Epoch
      <4>2. log[i].number < log[Len(log)].number
        BY <1>1, <2>4, <4>1 DEF OrderInv, DecodedInOrder, SameBoot
      <4> QED BY <2>1, <2>2, <4>2, LogEntry
    <3> QED BY <3>1, <3>2
  <2>6. n \in Nat /\ log[i].number \in Nat /\ log[Len(log)].number \in Nat
    <3>1. n \in Nat
      BY <2>1, NetworkAssumption DEF InFlight, TypeOK
    <3> QED BY <2>1, <2>2, <3>1, LogEntry
  <2>7. ~ (n > log[Len(log)].number)
    BY <1>1, <2>5, <2>6
  <2>8. RestartedAfterIdle(tracker, clock)
    BY <1>1, <2>3, <2>4, <2>7, AcceptedIsNewer
  <2>9. clock - tracker.lastObserved >= RestartIdle /\ tracker.initialized
    BY <1>1, <2>8 DEF RestartedAfterIdle, OrderInv, BaselineInv
  <2>10. clock \in Nat /\ tracker.lastObserved \in Nat /\ quiet \in Nat
    BY <2>1, NetworkAssumption, GuardAssumption, DefenseAssumption DEF TypeOK, Times
  <2> QED BY <1>1, <2>9, <2>10, GuardAssumption, DefenseAssumption DEF OrderInv, QuietInv
<1>2. OrderInv => StaleDecodeExcused
  BY <1>1 DEF StaleDecodeExcused
<1> QED BY <1>2, OrderInvariant, PTL DEF StaleOnlyAfterSilence
=============================================================================

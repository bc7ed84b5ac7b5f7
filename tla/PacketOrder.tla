---------------------------- MODULE PacketOrder ----------------------------
(***************************************************************************)
(* The head of ProcessLiarPacket for an XT sensor: which packets reach the *)
(* point cloud.  A sensor numbers its packets, a network loses, repeats    *)
(* and reorders them, the host stamps each with its own clock on reception *)
(* and the driver passes them through TimestampGuard and XtSequenceTracker.*)
(*                                                                         *)
(* The packet queue is first-in first-out (module BoundedSpscQueue), so a  *)
(* packet is received and processed in one step here.                      *)
(***************************************************************************)
EXTENDS PacketDefenses, Sequences

CONSTANTS
  Reordering,   \* how many newer packets may overtake one in the network
  Bases,        \* sequence numbers the sensor may be at when watched first
  MaxSent,      \* bound: packets the sensor sends after each boot
  MaxTime,      \* bound: the host's clock
  MaxSteps,     \* bound: steps of the host's clock by time synchronisation
  MaxBoots,     \* bound: reboots of the sensor
  MaxArrivals   \* bound: packets delivered to the host

ASSUME NetworkAssumption ==
  /\ Bases \subseteq SeqNumbers
  /\ Bases # {}
  /\ Reordering \in Nat
  /\ MaxSent \in Nat
  /\ MaxTime \in Nat
  /\ MaxSteps \in Nat
  /\ MaxBoots \in Nat
  /\ MaxArrivals \in Nat
  /\ 2 * MaxSent < SeqModulus

VARIABLES
  base,       \* the sensor's sequence number when its counter is zero
  sent,       \* packets the sensor has sent since it booted
  boots,      \* reboots of the sensor so far
  clock,      \* the host's clock
  steps,      \* times the host's clock was stepped
  arrivals,   \* packets delivered to the host
  guard,      \* m_packetTimestampGuard
  tracker,    \* m_xtSequenceTracker
  counters,   \* m_packetTimestampRegressions and the m_sequence... counters
  log,        \* history: the packets decoded since Start, in order
  epochStart, \* history: first packet decoded since the last new baseline
  epochGaps,  \* history: packets counted as missing since then
  quiet,      \* history: time since the tracker saw a packet, up to RestartIdle
  stepped     \* history: the clock was stepped since then

sensorVars == <<base, sent, boots>>
clockVars == <<clock, steps>>
filterVars == <<guard, tracker, counters>>
historyVars == <<log, epochStart, epochGaps, quiet, stepped>>
vars == <<sensorVars, clockVars, arrivals, filterVars, historyVars>>

Counters ==
  {"timestampRegressions", "gapPackets", "duplicates", "backwards", "restarts"}

Count(counter, n) == counters' = [counters EXCEPT ![counter] = @ + n]

-----------------------------------------------------------------------------
(* The sensor and the host's clock. *)

Send ==
  /\ sent < MaxSent
  /\ sent' = sent + 1
  /\ UNCHANGED <<base, boots, clockVars, arrivals, filterVars, historyVars>>

(* A reboot restarts the sequence counter; nothing sent before it is still *)
(* under way when the sensor sends again.                                  *)
Reboot ==
  /\ boots < MaxBoots
  /\ boots' = boots + 1
  /\ base' = 0
  /\ sent' = 0
  /\ UNCHANGED <<clockVars, arrivals, filterVars, historyVars>>

Tick ==
  /\ clock < MaxTime
  /\ clock' = clock + 1
  /\ quiet' = IF quiet < RestartIdle THEN quiet + 1 ELSE quiet
  /\ UNCHANGED <<sensorVars, steps, arrivals, filterVars, log, epochStart,
                 epochGaps, stepped>>

ClockStep ==
  /\ steps < MaxSteps
  /\ steps' = steps + 1
  /\ \E t \in 0 .. MaxTime : clock' = t
  /\ stepped' = TRUE
  /\ UNCHANGED <<sensorVars, arrivals, filterVars, log, epochStart, epochGaps,
                 quiet>>

-----------------------------------------------------------------------------
(* The driver. *)

(* Any of the last few packets sent may arrive, again or for the first time. *)
InFlight == {n \in 1 .. sent : n + Reordering >= sent}

(* The UDP sequence number of packet n: the sensor's counter rolls over. *)
Sequence(n) ==
  IF base + n < SeqModulus THEN base + n ELSE base + n - SeqModulus

(* The reception timestamp went back: the packet is dropped unseen. *)
ArriveStale ==
  /\ ~GuardAccepts(guard, clock)
  /\ Count("timestampRegressions", 1)
  /\ UNCHANGED <<sensorVars, clockVars, tracker, guard, historyVars>>

(* ParseXTData rejects the packet: the tracker does not see it. *)
ArriveMalformed ==
  /\ GuardAccepts(guard, clock)
  /\ guard' = GuardNext(guard, clock)
  /\ UNCHANGED <<sensorVars, clockVars, tracker, counters, historyVars>>

Observe(n) ==
  /\ GuardAccepts(guard, clock)
  /\ guard' = GuardNext(guard, clock)
  /\ tracker' = TrackerNext(tracker, Sequence(n), clock)
  /\ quiet' = 0
  /\ stepped' = FALSE
  /\ UNCHANGED <<sensorVars, clockVars>>

ArriveRejected(n) ==
  /\ Observe(n)
  /\ ~SequenceAccepts(tracker, Sequence(n), clock)
  /\ IF SequenceStatus(tracker, Sequence(n), clock) = "duplicate"
       THEN Count("duplicates", 1)
       ELSE Count("backwards", 1)
  /\ UNCHANGED <<log, epochStart, epochGaps>>

ArriveDecoded(n) ==
  LET status == SequenceStatus(tracker, Sequence(n), clock)
      missing == Missing(tracker, Sequence(n), clock)
      newBaseline == status \in {"first", "restartAfterIdle"}
  IN  /\ Observe(n)
      /\ SequenceAccepts(tracker, Sequence(n), clock)
      /\ IF status = "restartAfterIdle"
           THEN Count("restarts", 1)
           ELSE Count("gapPackets", missing)
      /\ log' = Append(log, [boot |-> boots, number |-> n, stamp |-> clock])
      /\ epochStart' = IF newBaseline THEN Len(log) + 1 ELSE epochStart
      /\ epochGaps' = IF newBaseline THEN 0 ELSE epochGaps + missing

Arrive ==
  /\ arrivals < MaxArrivals
  /\ arrivals' = arrivals + 1
  /\ \E n \in InFlight :
       ArriveStale \/ ArriveMalformed \/ ArriveRejected(n) \/ ArriveDecoded(n)

(* Start() discards what both filters know. *)
Restart ==
  /\ log # << >>
  /\ guard' = NewGuard
  /\ tracker' = NewTracker
  /\ log' = << >>
  /\ epochStart' = 0
  /\ epochGaps' = 0
  /\ quiet' = 0
  /\ stepped' = FALSE
  /\ UNCHANGED <<sensorVars, clockVars, arrivals, counters>>

-----------------------------------------------------------------------------
Init ==
  /\ base \in Bases
  /\ sent = 0
  /\ boots = 0
  /\ clock = 0
  /\ steps = 0
  /\ arrivals = 0
  /\ guard = NewGuard
  /\ tracker = NewTracker
  /\ counters = [c \in Counters |-> 0]
  /\ log = << >>
  /\ epochStart = 0
  /\ epochGaps = 0
  /\ quiet = 0
  /\ stepped = FALSE

Next == Send \/ Reboot \/ Tick \/ ClockStep \/ Arrive \/ Restart

Spec == Init /\ [][Next]_vars

-----------------------------------------------------------------------------
Times == 0 .. MaxTime

(* Every variable stays in its range. *)
TypeOK ==
  /\ base \in SeqNumbers
  /\ sent \in 0 .. MaxSent
  /\ boots \in 0 .. MaxBoots
  /\ clock \in Times
  /\ steps \in 0 .. MaxSteps
  /\ arrivals \in 0 .. MaxArrivals
  /\ guard \in [initialized : BOOLEAN, last : Times]
  /\ tracker \in [initialized : BOOLEAN, lastSequence : SeqNumbers, lastObserved : Times]
  /\ counters \in [Counters -> Nat]
  /\ log \in Seq([boot : 0 .. MaxBoots, number : 1 .. MaxSent, stamp : Times])
  /\ epochStart \in 0 .. Len(log)
  /\ epochGaps \in Nat
  /\ quiet \in 0 .. RestartIdle
  /\ stepped \in BOOLEAN

(* However the host's clock is stepped, no packet is decoded whose         *)
(* reception time lies more than the tolerance before that of any packet   *)
(* decoded earlier (README.md, "Packet-order safety").                     *)
StampsNearMonotone ==
  \A i, j \in 1 .. Len(log) :
    i < j => log[j].stamp >= log[i].stamp - Tolerance

(* The packets decoded since the driver, or its baseline, was restarted.   *)
Epoch == epochStart .. Len(log)

SameBoot(i, j) == log[i].boot = log[j].boot

(* Between two packets decoded after the same baseline nothing goes back   *)
(* or repeats, across the rollover of the counter as well.                 *)
DecodedInOrder ==
  log # << >> =>
    \A i, j \in Epoch : i < j /\ SameBoot(i, j) => log[i].number < log[j].number

(* The gap counter is exact: between the first packet of a baseline and    *)
(* the last, every packet the sensor sent was decoded or counted missing.  *)
GapsExact ==
  log # << >> /\ SameBoot(epochStart, Len(log)) =>
    log[Len(log)].number - log[epochStart].number
      = (Len(log) - epochStart) + epochGaps

StaleDecodeExcused ==
  \A n \in InFlight :
    /\ Arrive
    /\ log' = Append(log, [boot |-> boots, number |-> n, stamp |-> clock])
    /\ log # << >>
    /\ \E i \in Epoch : log[i].boot = boots /\ log[i].number >= n
    => quiet >= RestartIdle \/ stepped

SilentSensorHeard ==
  \A n \in InFlight :
    tracker.initialized /\ quiet >= RestartIdle /\ ~stepped
      => ~ (Arrive /\ (ArriveStale \/ ArriveRejected(n)))

(* A packet older than, or equal to, one decoded since the last baseline   *)
(* is decoded only when the sensor was silent for RestartIdle or the       *)
(* host's clock was stepped in between.  Repeats and late packets count as *)
(* traffic: however long they keep coming, they do not age the baseline.   *)
StaleOnlyAfterSilence == [][StaleDecodeExcused]_vars

(* A sensor that comes back after a silence of RestartIdle, rebooted or    *)
(* not, is listened to again at once, whatever its counter says: "so a     *)
(* LiDAR reboot can recover instead of being rejected forever".            *)
SilenceEndsRejection == [][SilentSensorHeard]_vars
=============================================================================

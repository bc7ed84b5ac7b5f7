----------------------------- MODULE PcapReplay -----------------------------
(***************************************************************************)
(* PcapReader: start, stop and the thread that replays a capture at the    *)
(* pace of the sensor's own clock.  Every Gap packets it compares the time *)
(* in the packet with the host's and sleeps off the difference; the two    *)
(* clocks are integers of one unit.                                        *)
(***************************************************************************)
EXTENDS Integers, Sequences

CONSTANTS
  Gap,            \* packets between two looks at the clock
  Captures,       \* captures: sequences of the sensor's time per lidar packet
  Counts,         \* values count may start with: it is not initialised
  MaxStarts,      \* bound: calls of start
  MaxDelay,       \* bound: time the thread loses outside its sleeps
  MaxInterrupts   \* bound: signals that end a select

ASSUME ReplayAssumption ==
  /\ Gap \in Nat \ {0}
  /\ Captures \subseteq Seq(Int)
  /\ Counts \subseteq Int
  /\ MaxStarts \in Nat /\ MaxDelay \in Nat /\ MaxInterrupts \in Nat

VARIABLES
  capture,      \* the file
  known,        \* m_iUTCIndex # 0: lidar_type is in m_timeIndexMap
  loop,         \* the flag of start and stop
  owner,        \* the thread that calls start and stop
  starts,       \* calls of start
  reader,       \* where parsePcap is
  position,     \* packets taken from the file
  count,        \* packets since the last look at the clock
  lastTs,       \* last_pkt_ts
  lastTime,     \* last_time
  wake,         \* when the select ends
  now,          \* the host's clock
  delay,        \* time lost so far
  interrupts,   \* selects ended by a signal
  base,         \* history: the first pair of clock readings, or NoBase
  cut           \* history: the last sleep was cut short

ownerVars == <<loop, owner, starts>>
paceVars == <<count, lastTs, lastTime, wake, base, cut>>
clockVars == <<now, delay, interrupts>>
replayVars == <<capture, known, ownerVars, reader, position, paceVars, clockVars>>

NoBase == [time |-> 0, ts |-> 0]

Running == reader \notin {"none", "exited"}

-----------------------------------------------------------------------------
(* The owner.  start begins with stop. *)

CallStop ==
  /\ owner = "idle"
  /\ loop' = FALSE
  /\ owner' = "joining to stop"
  /\ UNCHANGED <<capture, known, starts, reader, position, paceVars, clockVars>>

CallStart ==
  /\ owner = "idle"
  /\ starts < MaxStarts
  /\ starts' = starts + 1
  /\ loop' = FALSE
  /\ owner' = "joining to start"
  /\ UNCHANGED <<capture, known, reader, position, paceVars, clockVars>>

(* parse_thr_->join(), if there is a thread. *)
StopReturns ==
  /\ owner = "joining to stop"
  /\ ~Running
  /\ owner' = "idle"
  /\ reader' = "none"
  /\ UNCHANGED <<capture, known, loop, starts, position, paceVars, clockVars>>

(* parsePcap's locals begin anew; count has no initial value. *)
StartReturns ==
  /\ owner = "joining to start"
  /\ ~Running
  /\ loop' = TRUE
  /\ owner' = "idle"
  /\ reader' = "open"
  /\ position' = 0
  /\ count' \in Counts
  /\ lastTs' = 0
  /\ lastTime' = 0
  /\ wake' = 0
  /\ base' = NoBase
  /\ cut' = FALSE
  /\ UNCHANGED <<capture, known, starts, clockVars>>

-----------------------------------------------------------------------------
(* parsePcap *)

(* The path is empty, the file cannot be opened or the filter not set. *)
OpenFails ==
  /\ reader = "open"
  /\ reader' = "exited"
  /\ UNCHANGED <<capture, known, ownerVars, position, paceVars, clockVars>>

OpenSucceeds ==
  /\ reader = "open"
  /\ reader' = "next"
  /\ UNCHANGED <<capture, known, ownerVars, position, paceVars, clockVars>>

(* pcap_next_ex, then the flag.  The filter lets UDP through; captures are *)
(* taken to have Ethernet headers, so that its payload is found.  Of any   *)
(* other the code would go on with no packet, and read its time from it.   *)
NextPacket_WaitsForMore ==
  /\ reader = "next"
  /\ IF position = Len(capture)
       THEN reader' = "next" /\ position' = position
       ELSE /\ position' = position + 1
            /\ reader' = IF loop THEN "deliver" ELSE "exited"
  /\ UNCHANGED <<capture, known, ownerVars, paceVars, clockVars>>

NextPacket ==
  /\ reader = "next"
  /\ IF position = Len(capture)
       THEN reader' = "exited" /\ position' = position
       ELSE /\ position' = position + 1
            /\ reader' = IF loop THEN "deliver" ELSE "exited"
  /\ UNCHANGED <<capture, known, ownerVars, paceVars, clockVars>>

(* callback, count++ *)
Deliver ==
  /\ reader = "deliver"
  /\ count' = count + 1
  /\ reader' = IF count + 1 >= Gap /\ known THEN "pace" ELSE "next"
  /\ UNCHANGED <<capture, known, ownerVars, position, lastTs, lastTime, wake,
                 base, cut, clockVars>>

PacketTs == capture[position]

(* The first look at the clock; 0 marks that there was none. *)
PaceFirst ==
  /\ reader = "pace"
  /\ lastTs = 0
  /\ count' = 0
  /\ lastTs' = PacketTs
  /\ lastTime' = now
  /\ base' = [time |-> now, ts |-> PacketTs]
  /\ cut' = FALSE
  /\ reader' = "next"
  /\ UNCHANGED <<capture, known, ownerVars, position, wake, clockVars>>

SleepTime == (PacketTs - lastTs) - (now - lastTime)

PaceNext_FromNow ==
  /\ reader = "pace"
  /\ lastTs # 0
  /\ count' = 0
  /\ lastTs' = PacketTs
  /\ lastTime' = now
  /\ wake' = now + SleepTime
  /\ cut' = FALSE
  /\ reader' = IF SleepTime > 0 THEN "sleep" ELSE "next"
  /\ UNCHANGED <<capture, known, ownerVars, position, base, clockVars>>

PaceNext_Backwards ==
  /\ reader = "pace"
  /\ lastTs # 0
  /\ count' = 0
  /\ lastTs' = PacketTs
  /\ lastTime' = now + SleepTime
  /\ wake' = now + SleepTime
  /\ cut' = FALSE
  /\ reader' = IF SleepTime < 0 THEN "sleep" ELSE "next"
  /\ UNCHANGED <<capture, known, ownerVars, position, base, clockVars>>

(* last_time becomes the time at which the sleep was to end. *)
PaceNext ==
  /\ reader = "pace"
  /\ lastTs # 0
  /\ count' = 0
  /\ lastTs' = PacketTs
  /\ lastTime' = now + SleepTime
  /\ wake' = now + SleepTime
  /\ cut' = FALSE
  /\ reader' = IF SleepTime > 0 THEN "sleep" ELSE "next"
  /\ UNCHANGED <<capture, known, ownerVars, position, base, clockVars>>

Wake ==
  /\ reader = "sleep"
  /\ now >= wake
  /\ reader' = "next"
  /\ UNCHANGED <<capture, known, ownerVars, position, paceVars, clockVars>>

(* A signal ends the select, and EINTR ends the loop around it. *)
Interrupted ==
  /\ reader = "sleep"
  /\ now < wake
  /\ interrupts < MaxInterrupts
  /\ interrupts' = interrupts + 1
  /\ cut' = TRUE
  /\ reader' = "next"
  /\ UNCHANGED <<capture, known, ownerVars, position, count, lastTs, lastTime,
                 wake, base, now, delay>>

(* Time passes in a sleep, or is lost: the thread is not scheduled, or the *)
(* callback takes long.                                                    *)
Tick ==
  /\ Running
  /\ now' = now + 1
  /\ \/ reader = "sleep" /\ now < wake /\ delay' = delay
     \/ ~(reader = "sleep" /\ now < wake) /\ delay < MaxDelay /\ delay' = delay + 1
  /\ UNCHANGED <<capture, known, ownerVars, reader, position, paceVars, interrupts>>

-----------------------------------------------------------------------------
ReplayInit ==
  /\ capture \in Captures
  /\ known \in BOOLEAN
  /\ loop = FALSE
  /\ owner = "idle"
  /\ starts = 0
  /\ reader = "none"
  /\ position = 0
  /\ count = 0
  /\ lastTs = 0
  /\ lastTime = 0
  /\ wake = 0
  /\ now = 1
  /\ delay = 0
  /\ interrupts = 0
  /\ base = NoBase
  /\ cut = FALSE

Reader == OpenFails \/ OpenSucceeds \/ NextPacket \/ Deliver \/ PaceFirst
          \/ PaceNext \/ Wake

Owner == CallStop \/ CallStart \/ StopReturns \/ StartReturns

ReplayNext == Owner \/ Reader \/ Interrupted \/ Tick

(* The threads are scheduled and time passes. *)
ReplayFairness ==
  /\ WF_replayVars(Reader)
  /\ WF_replayVars(Tick)
  /\ WF_replayVars(StopReturns \/ StartReturns)

-----------------------------------------------------------------------------
(* The pace does not drift: however late packets were, whatever was slept  *)
(* or cut short, the reader's own clock has moved since the first packet   *)
(* it timed by exactly what the sensor's has.                              *)
NoDrift ==
  base # NoBase => lastTime - base.time = lastTs - base.ts

(* No packet is delivered before the time of the packet last timed, unless *)
(* a signal cut the sleep short.                                           *)
NeverEarly ==
  reader = "deliver" /\ base # NoBase /\ ~cut => now >= lastTime

(* stop and start return: the thread they join ends its sleep and sees the *)
(* flag.                                                                   *)
ReplayStops == owner # "idle" ~> owner = "idle"
=============================================================================

--------------------------- MODULE PacketDefenses ---------------------------
(***************************************************************************)
(* The filters of packet_defenses.h that a packet passes: TimestampGuard   *)
(* and, as operators over its state and an observation, XtSequenceTracker. *)
(***************************************************************************)
EXTENDS TimestampGuard

CONSTANTS
  RestartIdle,  \* kXtSequenceRestartIdleSec
  SeqModulus    \* 2^32: sequence numbers are uint32_t

ASSUME DefenseAssumption ==
  /\ RestartIdle \in Nat \ {0}
  /\ SeqModulus \in Nat
  /\ SeqModulus > 2

SeqNumbers == 0 .. SeqModulus - 1

-----------------------------------------------------------------------------
(* XtSequenceTracker *)

NewTracker == [initialized |-> FALSE, lastSequence |-> 0, lastObserved |-> 0]

(* Unsigned subtraction of sequence numbers. *)
Delta(sequence, previous) ==
  IF sequence >= previous THEN sequence - previous
                          ELSE sequence - previous + SeqModulus

Forward(delta) == 2 * delta < SeqModulus

RestartedAfterIdle_Never(tracker, t) == FALSE

RestartedAfterIdle(tracker, t) ==
  /\ isfinite(t)
  /\ isfinite(tracker.lastObserved)
  /\ t - tracker.lastObserved >= RestartIdle

SequenceStatus(tracker, sequence, t) ==
  LET delta == Delta(sequence, tracker.lastSequence)
  IN  IF ~tracker.initialized THEN "first"
      ELSE IF RestartedAfterIdle(tracker, t) THEN "restartAfterIdle"
      ELSE IF delta = 0 THEN "duplicate"
      ELSE IF ~Forward(delta) THEN "backward"
      ELSE IF delta = 1 THEN "inOrder"
      ELSE "forwardGap"

SequenceAccepts_Backward(tracker, sequence, t) ==
  SequenceStatus(tracker, sequence, t) # "duplicate"

SequenceAccepts(tracker, sequence, t) ==
  SequenceStatus(tracker, sequence, t) \notin {"duplicate", "backward"}

Missing_CountsArrived(tracker, sequence, t) ==
  IF SequenceStatus(tracker, sequence, t) = "forwardGap"
    THEN Delta(sequence, tracker.lastSequence) ELSE 0

Missing(tracker, sequence, t) ==
  IF SequenceStatus(tracker, sequence, t) = "forwardGap"
    THEN Delta(sequence, tracker.lastSequence) - 1 ELSE 0

(* Every observation, accepted or not, restarts the idle period. *)
TrackerNext_IdleSinceAccepted(tracker, sequence, t) ==
  IF SequenceAccepts(tracker, sequence, t)
    THEN [initialized |-> TRUE, lastSequence |-> sequence, lastObserved |-> t]
    ELSE tracker

TrackerNext(tracker, sequence, t) ==
  [initialized  |-> TRUE,
   lastSequence |-> IF SequenceAccepts(tracker, sequence, t)
                      THEN sequence ELSE tracker.lastSequence,
   lastObserved |-> t]
=============================================================================

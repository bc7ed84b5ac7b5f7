--------------------------- MODULE TimestampGuard ---------------------------
(***************************************************************************)
(* TimestampGuard of packet_defenses.h as operators: they take the guard's *)
(* state and an observed time and give the decision and the next state.    *)
(* The driver has two: one sees the reception time of every packet, the    *)
(* other the timestamp of every cloud.  Times are integers in an arbitrary *)
(* unit.                                                                   *)
(***************************************************************************)
EXTENDS Integers

CONSTANTS
  Tolerance,  \* kTimestampRegressionToleranceSec
  NotFinite   \* a timestamp std::isfinite rejects (NaN, infinity)

ASSUME GuardAssumption ==
  /\ Tolerance \in Nat
  /\ NotFinite \notin Int

isfinite(t) == t # NotFinite

NewGuard == [initialized |-> FALSE, last |-> 0]

TooOld(previous, t) == previous - t > Tolerance

Advance_FollowsLatest(last, t) == t

Advance(last, t) == IF t > last THEN t ELSE last

GuardStatus(guard, t) ==
  IF ~isfinite(t) THEN "invalid"
  ELSE IF ~guard.initialized THEN "first"
  ELSE IF TooOld(guard.last, t) THEN "regression"
  ELSE "accepted"

GuardAccepts(guard, t) == GuardStatus(guard, t) \in {"first", "accepted"}

GuardNext(guard, t) ==
  IF GuardStatus(guard, t) = "first" THEN [initialized |-> TRUE, last |-> t]
  ELSE IF GuardStatus(guard, t) = "accepted"
    THEN [guard EXCEPT !.last = Advance(guard.last, t)]
  ELSE guard
=============================================================================

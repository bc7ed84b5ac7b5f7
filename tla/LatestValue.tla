----------------------------- MODULE LatestValue -----------------------------
(***************************************************************************)
(* What a latest-value mailbox promises its reader: a value it delivers is *)
(* the newest one offered at that moment, and no value is delivered twice. *)
(* Values may be overtaken by newer ones and never delivered.              *)
(***************************************************************************)
CONSTANTS
  Values,   \* what can be offered
  NoValue   \* nothing offered or delivered so far

VARIABLES
  newest,    \* the last value offered
  delivered  \* the last value delivered

latestVars == <<newest, delivered>>

Init ==
  /\ newest = NoValue
  /\ delivered = NoValue

Put ==
  /\ newest' \in Values \ {newest}
  /\ UNCHANGED delivered

Get ==
  /\ delivered # newest
  /\ delivered' = newest
  /\ UNCHANGED newest

Next == Put \/ Get

Spec == Init /\ [][Next]_latestVars
=============================================================================

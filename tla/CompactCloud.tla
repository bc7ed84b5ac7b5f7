---------------------------- MODULE CompactCloud ----------------------------
(***************************************************************************)
(* makeCompactPointCloud2: a PCL cloud, whose width and height may         *)
(* disagree with its points, laid out as a message of Step bytes a point.  *)
(* Words of the message hold 0..MaxWord and wrap, as uint32 does; sizes in *)
(* memory do not.  The points' values are not kept, only where they go.    *)
(***************************************************************************)
EXTENDS Integers

CONSTANTS
  MaxWord,    \* std::numeric_limits<std::uint32_t>::max()
  Step,       \* kCompactPointStep
  MaxPoints   \* bound: points of a cloud

ASSUME WordAssumption ==
  /\ MaxWord \in Nat
  /\ Step \in 1..MaxWord
  /\ MaxPoints \in Nat

VARIABLES
  cloud,    \* points, width, height of the input
  message,  \* width, height, rowStep and data of the output
  conversion, \* where it is, or "none"
  written   \* points copied

conversionVars == <<cloud, message, conversion, written>>

Word == 0..MaxWord

Wrap(n) == n % (MaxWord + 1)

Dimensions_Narrow(c) ==
  IF c.height = 0 \/ Wrap(c.width * c.height) # c.points
    THEN [width |-> c.points, height |-> 1]
    ELSE [width |-> c.width, height |-> c.height]

(* The declared dimensions if they are right, else one row. *)
Dimensions(c) ==
  IF c.height = 0 \/ c.width * c.height # c.points
    THEN [width |-> c.points, height |-> 1]
    ELSE [width |-> c.width, height |-> c.height]

(* The two length_errors. *)
TooLong(c) == c.points > MaxWord \/ Dimensions(c).width > MaxWord \div Step

Sized(c) ==
  LET d == Dimensions(c)
      rowStep == Wrap(d.width * Step)
  IN  [width |-> d.width, height |-> d.height, rowStep |-> rowStep,
       data |-> rowStep * d.height]

NoMessage == [width |-> 0, height |-> 0, rowStep |-> 0, data |-> 0]

Lay ==
  /\ conversion = "called"
  /\ conversion' = IF TooLong(cloud) THEN "thrown" ELSE "copying"
  /\ message' = IF TooLong(cloud) THEN NoMessage ELSE Sized(cloud)
  /\ UNCHANGED <<cloud, written>>

CopyPoint ==
  /\ conversion = "copying"
  /\ written < cloud.points
  /\ written' = written + 1
  /\ UNCHANGED <<cloud, message, conversion>>

Return ==
  /\ conversion = "copying"
  /\ written = cloud.points
  /\ conversion' = "returned"
  /\ UNCHANGED <<cloud, message, written>>

ConversionInit ==
  /\ conversion \in {"none", "called"}
  /\ cloud \in [points : 0..MaxPoints, width : Word, height : Word]
  /\ message = NoMessage
  /\ written = 0

ConversionNext == Lay \/ CopyPoint \/ Return

ConversionSpec == ConversionInit /\ [][ConversionNext]_conversionVars

-----------------------------------------------------------------------------
(* Also when width, height or their product are at the limits of a word,   *)
(* every point is copied into data allocated for it; a message that is     *)
(* returned describes itself, as rows of width points, all of them points  *)
(* of the cloud, in exactly the bytes that takes; and whatever its header  *)
(* declares, only a cloud that no row could hold is refused.               *)
MessageConsistent ==
  /\ written * Step <= message.data
  /\ conversion = "returned" =>
       /\ message.rowStep = message.width * Step
       /\ message.data = message.rowStep * message.height
       /\ message.width * message.height = cloud.points
  /\ conversion = "thrown" => cloud.points * Step > MaxWord
=============================================================================

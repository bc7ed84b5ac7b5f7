---------------------------- MODULE MCTransforms ----------------------------
(* Transforms with every combination of set and unset frames.              *)
EXTENDS Transforms

MCFrames == {"lidar", "odom"}

AllSettings ==
  [sensor : MCFrames \cup {""}, fixed : MCFrames \cup {""}, target : MCFrames \cup {""}]
=============================================================================

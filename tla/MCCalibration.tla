--------------------------- MODULE MCCalibration ---------------------------
(* Calibration with every way to construct the SDK and two calls of Start: *)
(* the second may find the sensor, or a table, that the first did not.     *)
EXTENDS Calibration
=============================================================================

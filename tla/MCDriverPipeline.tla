-------------------------- MODULE MCDriverPipeline --------------------------
(* DriverPipeline with a tolerance of one tick and an idle period of       *)
(* three; the sensor has run for a while when the driver starts.           *)
EXTENDS DriverPipeline
=============================================================================

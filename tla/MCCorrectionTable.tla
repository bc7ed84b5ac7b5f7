-------------------------- MODULE MCCorrectionTable --------------------------
(* CorrectionTable for a sensor with fewer lasers than the arrays have     *)
(* entries, so that a text may also have more rows than lasers.            *)
EXTENDS CorrectionTable

(* A row for every laser, and possibly something after them: the files and *)
(* the bag's packets are not terminated when they become strings.          *)
CompleteContents == [rows : Lasers..ArrayLen, stray : BOOLEAN]
=============================================================================
